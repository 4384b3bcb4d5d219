\* Two calls for one conversation, of the two kinds of route; two tries a queue.
SPECIFICATION LiveSpec

CONSTANTS
    Calls = {1, 2}
    Requests <- MCRequests
    Rules <- DefaultRules
    MaxAttempts = 2
    WithLedger = TRUE
    NoTicket = NoTicket
    UnknownRefs <- NoRefs
    MaxFaults = 1

INVARIANTS
    TypeOK
    LedgerIsTrue
    SparesExplained

PROPERTIES
    NeverDropped
    HandlingEnds

CHECK_DEADLOCK FALSE
