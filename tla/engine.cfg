\* One worker process with two threads, one crash or failing call, and no cooldown:
\* nothing but the caps holds back events whose times run backwards. No symmetry,
\* because of the liveness property.
SPECIFICATION LiveSpec

CONSTANTS
    t1 = t1
    t2 = t2
    w1 = w1
    r1 = r1
    r2 = r2
    r3 = r3
    alice = alice
    Customers = {alice}
    Triggers = {1, 2}
    ResIds = {r1, r2, r3}
    Times = {0, 1, 2}
    TriggerCap <- MCTriggerCap
    GlobalCap <- ShortGlobalCap
    Cooldown <- NoCap
    Weight <- MCWeight
    Specificity <- MCSpecificity
    Threads = {t1, t2}
    Processes = {w1}
    ProcessOf <- OneProcess
    CandidateLists <- OneOrBoth
    Free = Free
    NoReservation = NoReservation
    MaxInterruptions = 1

INVARIANTS
    TypeOK
    TriggerCapHolds
    GlobalCapHolds
    ChecksStand
    DecisionAccounts

PROPERTIES
    SettledForGood
    ActsAtomically
    OnlyInterruptionsStrand
    LockGivenBack
