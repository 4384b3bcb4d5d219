\* A fair loop, with nothing to hold it up but one crash.
SPECIFICATION LiveSpec

CONSTANTS
    e1 = e1
    e2 = e2
    e3 = e3
    alice = alice
    Customers = {alice}
    Triggers = {1, 2, 3, 4}
    ResIds = {r1, r2}
    Times = {0, 1}
    TriggerCap <- MCTriggerCap
    GlobalCap <- NoCap
    Cooldown <- NoCap
    Weight <- MCWeight
    Specificity <- MCSpecificity
    Events = {e1, e2}
    EventOf <- MCEventOf
    Rules <- MCRules
    Batch = 2
    MaxLen = 2
    MaxEntries = 2
    MaxCrashes = 1
    MaxFailures = 0

PROPERTIES
    AllEvaluated
