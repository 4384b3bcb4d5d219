\* The scheduler as it is built by default, its lock a NullLock, and two logins of one
\* customer.
SPECIFICATION Spec

CONSTANTS
    Customers = {alice}
    Triggers = {1, 2}
    ResIds = {r1, r2}
    Times = {0, 1, 2}
    TriggerCap <- MCTriggerCap
    GlobalCap <- NoCap
    Cooldown <- NoCap
    Weight <- MCWeight
    Specificity <- MCSpecificity
    EntryIds = {e1}
    Wait <- MCWait
    Expiry <- MCExpiry
    Logins = {p1, p2}
    Free = Free
    Removable = {}
    MaxInterruptions = 0

INVARIANTS
    NeverRaisedTwice
