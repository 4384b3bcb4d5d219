\* A scheduler with either lock; two logins, one crash or failing call. No symmetry,
\* because of the liveness property.
SPECIFICATION LiveSpec

CONSTANTS
    Customers = {alice}
    Triggers = {1, 2}
    ResIds = {r1, r2}
    Times = {0, 1, 2}
    TriggerCap <- MCTriggerCap
    GlobalCap <- NoCap
    Cooldown <- NoCap
    Weight <- MCWeight
    Specificity <- MCSpecificity
    EntryIds = {e1, e2}
    Wait <- MCWait
    Expiry <- MCExpiry
    Logins = {p1, p2}
    Free = Free
    Removable = {2}
    MaxInterruptions = 1

INVARIANTS
    TypeOK
    RaisedOnce
    EngagedInWindow

PROPERTIES
    OnlyInterruptionsLose
    NothingPendingForever
