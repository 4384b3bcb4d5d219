\* Two relays, as when a slow run_once overlaps the next; one crash or failed publish.
\* Liveness, so no symmetry.
SPECIFICATION LiveSpec

CONSTANTS
    e1 = e1
    e2 = e2
    x = x
    u = u
    v = v
    EventIds = {e1, e2}
    Carried = {x}
    Left = {u, v}
    Requests <- MCRequests
    Writers = {w1, w2}
    Relays = {p1, p2}
    Batch = 2
    MaxInterruptions = 1

INVARIANTS
    TypeOK
    StoredTogether
    MarkedIsDelivered
    AnswerIsTrue
    OnlyInterruptedRepublished

PROPERTIES
    ImplementsHandover
    AllDelivered
