---------------------------- MODULE MCEventStore ----------------------------
(***************************************************************************)
(* A small instance of EventStore: two writers race for two event ids, one *)
(* of which clients send with two contents, and two relays drain the       *)
(* outbox.                                                                 *)
(***************************************************************************)
EXTENDS EventStore

CONSTANTS e1, e2, x, u, v

Request(e, left) == [event_id |-> e, payload |-> [carried |-> x, left |-> left]]

MCRequests == {Request(e1, u), Request(e1, v), Request(e2, u)}

=============================================================================
