\* Two calls; the agents' tools also pass on the None that a dead-lettered result holds.
SPECIFICATION Spec

CONSTANTS
    Calls = {1, 2}
    Requests <- MCRequests
    Rules <- DefaultRules
    MaxAttempts = 2
    WithLedger = TRUE
    NoTicket = NoTicket
    UnknownRefs <- NullRef
    MaxFaults = 1

PROPERTIES
    NullMovesNothing

CHECK_DEADLOCK FALSE
