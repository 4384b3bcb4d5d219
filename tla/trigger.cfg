\* One consumer; any order and repetition of three published events.
SPECIFICATION Spec

CONSTANTS
    e1 = e1
    e2 = e2
    e3 = e3
    alice = alice
    Customers = {alice}
    Triggers = {1, 2, 3, 4}
    ResIds = {r1, r2, r3}
    Times = {0, 1}
    TriggerCap <- MCTriggerCap
    GlobalCap <- NoCap
    Cooldown <- MCCooldown
    Weight <- MCWeight
    Specificity <- MCSpecificity
    Events = {e1, e2, e3}
    EventOf <- MCEventOf
    Rules <- MCRules
    Batch = 2
    MaxLen = 2
    MaxEntries = 3
    MaxCrashes = 1
    MaxFailures = 2

INVARIANTS
    TypeOK
    OncePerLife
    NothingUntraced
    WholeEffects
    CooldownHolds
