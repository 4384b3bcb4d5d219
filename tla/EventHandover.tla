--------------------------- MODULE EventHandover ---------------------------
(***************************************************************************)
(* What the event store promises the rest of the pipeline, with the        *)
(* transactions, the outbox and the relay abstracted away: an event is     *)
(* stored once and for good, the stream carries stored events only, and    *)
(* carries each of them in the end, possibly several times.                *)
(***************************************************************************)
EXTENDS Sequences

CONSTANTS EventIds,  \* the idempotency keys clients make up
          Carried,   \* what else of an event the stream's fields carry
          Left       \* and what they leave out: source, consent, schema_version

VARIABLES events, \* the `events` table: event_id -> content
          stream  \* the entries added to events:in, in order

Contents == [carried : Carried, left : Left]

\* An entry of the stream: _stream_fields(payload)
Entry == [event_id : EventIds, fields : Carried]

Fields(e, payload) == [event_id |-> e, fields |-> payload.carried]

\* Some entry of the stream is about event e.
Delivered(e) == \E i \in DOMAIN stream : stream[i].event_id = e

Init ==
    /\ events = [e \in {} |-> {}]
    /\ stream = <<>>

Store(e, payload) ==
    /\ e \notin DOMAIN events
    /\ events' = [x \in DOMAIN events \cup {e} |-> IF x = e THEN payload ELSE events[x]]
    /\ UNCHANGED stream

Deliver(e) ==
    /\ e \in DOMAIN events
    /\ stream' = Append(stream, Fields(e, events[e]))
    /\ UNCHANGED events

Next ==
    \/ \E e \in EventIds, payload \in Contents : Store(e, payload)
    \/ \E e \in EventIds : Deliver(e)

Spec == Init /\ [][Next]_<<events, stream>>

\* Every event that is stored reaches the stream.
AllDelivered == \A e \in EventIds : e \in DOMAIN events ~> Delivered(e)

=============================================================================
