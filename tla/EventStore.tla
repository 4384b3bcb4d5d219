----------------------------- MODULE EventStore -----------------------------
(***************************************************************************)
(* The event store and its transactional outbox (A2 / M02-M03):            *)
(* services/event_pipeline/store/store.py, tables.py and relay.py.         *)
(*                                                                         *)
(* Several ingestion threads call write_event, whose transaction the       *)
(* database runs at READ COMMITTED; one or more relays drain the outbox    *)
(* onto the Redis stream. A call, a relay or the connection to Redis may   *)
(* fail between any two statements.                                        *)
(***************************************************************************)
EXTENDS Integers, FiniteSets, EventHandover

CONSTANTS Requests,    \* what clients send, with an id and a content each
          Writers,     \* threads that call write_event
          Relays,      \* processes that call run_once
          Batch,       \* OutboxRelay.batch
          MaxInterruptions  \* bound: deaths of a writer or a relay, and calls of
                            \* publish that raise

ASSUME StoreAssumption ==
    /\ Requests \subseteq [event_id : EventIds, payload : Contents]
    /\ IsFiniteSet(Relays)
    /\ Batch \in Nat \ {0}
    /\ MaxInterruptions \in Nat

VARIABLES outbox,  \* the `event_outbox` table: id -> the row's other columns
          nextId,  \* the sequence behind the outbox ids
          writer,  \* writer -> its call of write_event
          relay,   \* relay -> its call of run_once
          interruptions

vars == <<events, stream, outbox, nextId, writer, relay, interruptions>>

OutboxRow == [event_id : EventIds, payload : Contents, published : BOOLEAN]

\* `id` is the outbox row the transaction has inserted, once it has.
Call == [pc : {"select", "insert", "outbox", "commit", "stored", "duplicate"},
         event_id : EventIds, payload : Contents, id : Nat]

Idle == [pc |-> "idle"]

\* A run_once: `batch` holds the ids it has still to publish and mark.
Run == [pc : {"publish", "mark"}, batch : SUBSET Nat]

-----------------------------------------------------------------------------
(* write_event: one transaction *)

Writing(w, pc) == writer[w].pc = pc

Goto(w, pc) == writer' = [writer EXCEPT ![w].pc = pc]

\* The call: a client may send an id again, with another content too.
WriteEvent(w) ==
    /\ Writing(w, "idle")
    /\ \E request \in Requests :
          writer' = [writer EXCEPT ![w] = [pc |-> "select", event_id |-> request.event_id,
                                           payload |-> request.payload, id |-> 0]]
    /\ UNCHANGED <<events, stream, outbox, nextId, relay, interruptions>>

Select(w) ==
    /\ Writing(w, "select")
    /\ Goto(w, IF writer[w].event_id \in DOMAIN events THEN "duplicate" ELSE "insert")
    /\ UNCHANGED <<events, stream, outbox, nextId, relay, interruptions>>

\* The writers whose open transaction holds the key e.
Holding(e) == {w \in Writers : writer[w].pc \in {"outbox", "commit"} /\ writer[w].event_id = e}

\* Bug: no primary key behind the existence check.
InsertEvent_noKey(w) ==
    /\ Writing(w, "insert")
    /\ Goto(w, "outbox")
    /\ UNCHANGED <<events, stream, outbox, nextId, relay, interruptions>>

\* The unique index makes the statement wait for an open transaction that holds the
\* key, and raises IntegrityError when the key is taken.
InsertEvent(w) ==
    /\ Writing(w, "insert")
    /\ Holding(writer[w].event_id) = {}
    /\ Goto(w, IF writer[w].event_id \in DOMAIN events THEN "duplicate" ELSE "outbox")
    /\ UNCHANGED <<events, stream, outbox, nextId, relay, interruptions>>

\* The id is taken here, and no rollback gives it back.
InsertOutbox(w) ==
    /\ Writing(w, "outbox")
    /\ writer' = [writer EXCEPT ![w].pc = "commit", ![w].id = nextId]
    /\ nextId' = nextId + 1
    /\ UNCHANGED <<events, stream, outbox, relay, interruptions>>

\* Bug: the outbox row is left to a transaction of its own, which never runs.
Commit_eventOnly(w) ==
    /\ Writing(w, "commit")
    /\ events' = [e \in DOMAIN events \cup {writer[w].event_id} |->
                    IF e = writer[w].event_id THEN writer[w].payload ELSE events[e]]
    /\ Goto(w, "stored")
    /\ UNCHANGED <<stream, outbox, nextId, relay, interruptions>>

Commit(w) ==
    LET call == writer[w]
        row  == [event_id |-> call.event_id, payload |-> call.payload, published |-> FALSE]
    IN  /\ Writing(w, "commit")
        /\ events' = [e \in DOMAIN events \cup {call.event_id} |->
                        IF e = call.event_id THEN call.payload ELSE events[e]]
        /\ outbox' = [i \in DOMAIN outbox \cup {call.id} |->
                        IF i = call.id THEN row ELSE outbox[i]]
        /\ Goto(w, "stored")
        /\ UNCHANGED <<stream, nextId, relay, interruptions>>

\* The caller has its True ("stored") or False ("duplicate").
Answer(w) ==
    /\ writer[w].pc \in {"stored", "duplicate"}
    /\ writer' = [writer EXCEPT ![w] = Idle]
    /\ UNCHANGED <<events, stream, outbox, nextId, relay, interruptions>>

-----------------------------------------------------------------------------
(* run_once: a batch read once, then published and marked row by row *)

Unpublished == {i \in DOMAIN outbox : ~outbox[i].published}

\* Bug: the relay remembers how far it got instead of asking what is unpublished.
FirstOf_cursor(ids) ==
    {i \in ids : /\ \A j \in DOMAIN outbox : outbox[j].published => j < i
                 /\ Cardinality({j \in ids : j < i}) < Batch}

\* ORDER BY id LIMIT batch
FirstOf(ids) == {i \in ids : Cardinality({j \in ids : j < i}) < Batch}

ReadBatch(r) ==
    /\ relay[r].pc = "idle"
    /\ FirstOf(Unpublished) # {}
    /\ relay' = [relay EXCEPT ![r] = [pc |-> "publish", batch |-> FirstOf(Unpublished)]]
    /\ UNCHANGED <<events, stream, outbox, nextId, writer, interruptions>>

Current(r, i) == i \in relay[r].batch /\ \A j \in relay[r].batch : i <= j

\* Bug: the entry names the event and leaves out what it carries.
Added_idOnly(i) == Append(stream, [event_id |-> outbox[i].event_id])

Added(i) == Append(stream, Fields(outbox[i].event_id, outbox[i].payload))

Publish(r) ==
    /\ relay[r].pc = "publish"
    /\ \E i \in relay[r].batch : Current(r, i) /\ stream' = Added(i)
    /\ relay' = [relay EXCEPT ![r].pc = "mark"]
    /\ UNCHANGED <<events, outbox, nextId, writer, interruptions>>

\* publish raises and run_once ends: Redis refused the entry, or added it and its
\* answer was lost.
PublishFails(r) ==
    /\ relay[r].pc = "publish"
    /\ interruptions < MaxInterruptions
    /\ interruptions' = interruptions + 1
    /\ \/ UNCHANGED stream
       \/ \E i \in relay[r].batch : Current(r, i) /\ stream' = Added(i)
    /\ relay' = [relay EXCEPT ![r] = Idle]
    /\ UNCHANGED <<events, outbox, nextId, writer>>

\* Bug: the rows of the batch are marked together.
MarkPublished_batch(r) ==
    /\ relay[r].pc = "mark"
    /\ outbox' = [i \in DOMAIN outbox |->
                    IF i \in relay[r].batch THEN [outbox[i] EXCEPT !.published = TRUE]
                                            ELSE outbox[i]]
    /\ relay' = [relay EXCEPT ![r] = Idle]
    /\ UNCHANGED <<events, stream, nextId, writer, interruptions>>

\* Bug: the row is passed over and never marked.
MarkPublished_never(r) ==
    /\ relay[r].pc = "mark"
    /\ relay' = [relay EXCEPT ![r] = Idle]
    /\ UNCHANGED <<events, stream, outbox, nextId, writer, interruptions>>

MarkPublished(r) ==
    /\ relay[r].pc = "mark"
    /\ \E i \in relay[r].batch :
          LET rest == relay[r].batch \ {i}
          IN  /\ Current(r, i)
              /\ outbox' = [outbox EXCEPT ![i].published = TRUE]
              /\ relay' = [relay EXCEPT ![r] = IF rest = {} THEN Idle
                                               ELSE [pc |-> "publish", batch |-> rest]]
    /\ UNCHANGED <<events, stream, nextId, writer, interruptions>>

-----------------------------------------------------------------------------
(* Deaths *)

\* The database rolls the open transaction back; after the commit only the answer
\* is lost.
WriterCrash(w) ==
    /\ writer[w].pc # "idle"
    /\ interruptions < MaxInterruptions
    /\ interruptions' = interruptions + 1
    /\ writer' = [writer EXCEPT ![w] = Idle]
    /\ UNCHANGED <<events, stream, outbox, nextId, relay>>

RelayCrash(r) ==
    /\ relay[r].pc # "idle"
    /\ interruptions < MaxInterruptions
    /\ interruptions' = interruptions + 1
    /\ relay' = [relay EXCEPT ![r] = Idle]
    /\ UNCHANGED <<events, stream, outbox, nextId, writer>>

-----------------------------------------------------------------------------

StoreInit ==
    /\ Init
    /\ outbox = [i \in {} |-> {}]
    /\ nextId = 1
    /\ writer = [w \in Writers |-> Idle]
    /\ relay = [r \in Relays |-> Idle]
    /\ interruptions = 0

WriterStep(w) ==
    \/ Select(w) \/ InsertEvent(w) \/ InsertOutbox(w) \/ Commit(w) \/ Answer(w)

RelayStep(r) == ReadBatch(r) \/ Publish(r) \/ MarkPublished(r)

StoreNext ==
    \/ \E w \in Writers : WriteEvent(w) \/ WriterStep(w) \/ WriterCrash(w)
    \/ \E r \in Relays : RelayStep(r) \/ PublishFails(r) \/ RelayCrash(r)

StoreSpec == StoreInit /\ [][StoreNext]_vars

\* run_once is called again and again (relay.py:10), and its calls end; failures and
\* crashes are finitely many. Nothing is assumed of the writers.
Fairness == \A r \in Relays : WF_vars(RelayStep(r))

LiveSpec == StoreSpec /\ Fairness

-----------------------------------------------------------------------------
(* Properties *)

TypeOK ==
    /\ DOMAIN events \subseteq EventIds
    /\ events \in [DOMAIN events -> Contents]
    /\ stream \in Seq(Entry)
    /\ nextId \in Nat
    /\ DOMAIN outbox \subseteq Nat
    /\ outbox \in [DOMAIN outbox -> OutboxRow]
    /\ writer \in [Writers -> Call \cup {Idle}]
    /\ relay \in [Relays -> Run \cup {Idle}]
    /\ interruptions \in 0..MaxInterruptions

\* "In both events and event_outbox or in neither" (store.py:34-36), whatever writers
\* race for one event_id: a stored event has exactly one outbox row, an outbox row
\* has its event, and they carry the same content.
StoredTogether ==
    /\ \A e \in DOMAIN events : \E i \in DOMAIN outbox : outbox[i].event_id = e
    /\ \A i \in DOMAIN outbox :
          /\ outbox[i].event_id \in DOMAIN events
          /\ outbox[i].payload = events[outbox[i].event_id]
    /\ \A i, j \in DOMAIN outbox : outbox[i].event_id = outbox[j].event_id => i = j

\* A row is marked only once its event is in the stream (relay.py:4-6): no crash, lost
\* answer or second relay between the two loses an event.
MarkedIsDelivered ==
    \A i \in DOMAIN outbox : outbox[i].published => Delivered(outbox[i].event_id)

\* What write_event answers is so when its caller hears it: True for the content
\* that is stored, False when the id is stored, by whichever writer (store.py:33-34).
AnswerIsTrue ==
    \A w \in Writers :
        /\ writer[w].pc = "stored" =>
              /\ writer[w].event_id \in DOMAIN events
              /\ events[writer[w].event_id] = writer[w].payload
        /\ writer[w].pc = "duplicate" => writer[w].event_id \in DOMAIN events

\* The entries of the stream about the events `ids`.
About(ids) == {k \in DOMAIN stream : stream[k].event_id \in ids}

\* Each event is in the stream at most once for each relay, whose batches may overlap,
\* but for publishes whose mark a failure or a crash prevented (relay.py:7-8); and such
\* an interruption re-publishes one row: of any events together there are no more
\* entries too many than there were interruptions.
OnlyInterruptedRepublished ==
    \A ids \in SUBSET {e \in EventIds : Delivered(e)} :
        Cardinality(About(ids)) <= Cardinality(Relays) * Cardinality(ids) + interruptions

\* The stream carries what was stored, as it was first stored, and nothing else, and
\* events are never changed: the tables and the relay implement the hand-over.
Handover == INSTANCE EventHandover WITH events <- events, stream <- stream

ImplementsHandover == Handover!Spec

=============================================================================
