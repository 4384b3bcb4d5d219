--------------------------- MODULE HandoffPromise ---------------------------
(***************************************************************************)
(* What the handoff manager promises (POA/07, handoff/manager.py:1-4): a   *)
(* handoff is never dropped silently. Before the call returns, an agent    *)
(* queue has a ticket for it or a dead letter of it is on record, and what *)
(* has landed never gets lost again.                                       *)
(***************************************************************************)
CONSTANTS Calls \* of handle()

VARIABLES raised, landed, answered

vars == <<raised, landed, answered>>

Init == raised = {} /\ landed = {} /\ answered = {}

Raise(k) ==
    /\ raised' = raised \cup {k}
    /\ UNCHANGED <<landed, answered>>

\* A call may land more than once: lost answers are retried.
Land(k) ==
    /\ k \in raised
    /\ landed' = landed \cup {k}
    /\ UNCHANGED <<raised, answered>>

Answer(k) ==
    /\ k \in landed
    /\ answered' = answered \cup {k}
    /\ UNCHANGED <<raised, landed>>

Next == \E k \in Calls : Raise(k) \/ Land(k) \/ Answer(k)

Spec == Init /\ [][Next]_vars

=============================================================================
