-------------------------- MODULE EventStoreProofs --------------------------
(***************************************************************************)
(* The store, its outbox and its relays implement the hand-over, for any   *)
(* number of writers, relays, events and interruptions.                    *)
(***************************************************************************)
EXTENDS EventStore, SequenceTheorems, FiniteSetTheorems, TLAPS

-----------------------------------------------------------------------------
(* The inductive invariant *)

Open == {w \in Writers : writer[w].pc \in {"outbox", "commit"}}

Committing == {w \in Writers : writer[w].pc = "commit"}

\* The unique index: an open transaction holds its key alone, and the key is new.
KeysHeld ==
    /\ \A w \in Open : writer[w].event_id \notin DOMAIN events
    /\ \A v, w \in Open : writer[v].event_id = writer[w].event_id => v = w

\* The sequence: an outbox id is given once.
IdsGiven ==
    /\ \A i \in DOMAIN outbox : i < nextId
    /\ \A w \in Committing : writer[w].id < nextId /\ writer[w].id \notin DOMAIN outbox
    /\ \A v, w \in Committing : writer[v].id = writer[w].id => v = w

\* A relay's rows are in the table; the one it is about to mark is in the stream.
BatchesKnown ==
    \A r \in Relays :
        /\ relay[r].pc # "idle" => relay[r].batch \subseteq DOMAIN outbox
        /\ relay[r].pc = "mark" =>
              \A i \in relay[r].batch : Current(r, i) => Delivered(outbox[i].event_id)

StoreInv ==
    /\ TypeOK
    /\ StoredTogether
    /\ KeysHeld
    /\ IdsGiven
    /\ BatchesKnown
    /\ MarkedIsDelivered
    /\ AnswerIsTrue

LEMMA StoreInvInit == StoreInit => StoreInv
<1> SUFFICES ASSUME StoreInit PROVE StoreInv
  OBVIOUS
<1>1. /\ \A w \in Writers : writer[w].pc = "idle"
      /\ \A r \in Relays : relay[r].pc = "idle"
      /\ DOMAIN events = {} /\ DOMAIN outbox = {} /\ stream = <<>>
  BY DEF StoreInit, Init, Idle
<1>2. TypeOK
  <2>1. events \in [DOMAIN events -> Contents] /\ outbox \in [DOMAIN outbox -> OutboxRow]
    BY DEF StoreInit, Init
  <2> QED
    BY <1>1, <2>1, StoreAssumption DEF StoreInit, TypeOK
<1>3. KeysHeld /\ IdsGiven
  BY <1>1 DEF KeysHeld, IdsGiven, Open, Committing
<1> QED
  BY <1>1, <1>2, <1>3 DEF StoreInv, StoredTogether, BatchesKnown, MarkedIsDelivered, AnswerIsTrue

-----------------------------------------------------------------------------
(* The steps of a writer *)

\* A writer's step within its transaction, and its end: the tables stay.
LEMMA WriterMoves ==
    ASSUME StoreInv, NEW w \in Writers, NEW c \in Call \cup {Idle},
           writer' = [writer EXCEPT ![w] = c],
           UNCHANGED <<events, stream, outbox, relay>>,
           nextId' \in Nat, nextId <= nextId', interruptions' \in 0..MaxInterruptions,
           c.pc \in {"outbox", "commit"} =>
               /\ c.event_id \notin DOMAIN events
               /\ \A v \in Open : writer[v].event_id = c.event_id => v = w,
           c.pc = "commit" => /\ c.id < nextId' /\ c.id \notin DOMAIN outbox
                              /\ \A v \in Committing : writer[v].id # c.id,
           c.pc # "stored",
           c.pc = "duplicate" => c.event_id \in DOMAIN events
    PROVE  StoreInv'
<1>1. /\ writer'[w] = c /\ \A v \in Writers \ {w} : writer'[v] = writer[v]
      /\ writer' \in [Writers -> Call \cup {Idle}]
  BY DEF StoreInv, TypeOK
<1>2. TypeOK'
  BY <1>1 DEF StoreInv, TypeOK
<1>3. KeysHeld'
  <2>1. \A v \in Writers \ {w} : v \in Open' <=> v \in Open
    BY <1>1 DEF Open
  <2>2. w \in Open' => c.pc \in {"outbox", "commit"}
    BY <1>1 DEF Open
  <2>3. Open' \subseteq Writers
    BY DEF Open
  <2> QED
    BY <1>1, <2>1, <2>2, <2>3 DEF StoreInv, KeysHeld
<1>4. IdsGiven'
  <2>1. \A v \in Writers \ {w} : v \in Committing' <=> v \in Committing
    BY <1>1 DEF Committing
  <2>2. w \in Committing' => c.pc = "commit"
    BY <1>1 DEF Committing
  <2>3. Committing' \subseteq Writers
    BY DEF Committing
  <2>4. \A i \in DOMAIN outbox' : i < nextId'
    BY DEF StoreInv, IdsGiven, TypeOK
  <2>5. ASSUME NEW v \in Committing'
        PROVE  writer'[v].id < nextId' /\ writer'[v].id \notin DOMAIN outbox'
    <3>1. CASE v = w
      BY <1>1, <2>2, <2>5, <3>1
    <3>2. CASE v # w
      <4>1. v \in Committing /\ writer'[v] = writer[v] /\ writer[v] \in Call
        BY <1>1, <2>1, <2>3, <2>5, <3>2 DEF StoreInv, TypeOK, Committing, Idle
      <4>2. writer[v].id \in Nat /\ writer[v].id < nextId /\ writer[v].id \notin DOMAIN outbox
        BY <4>1 DEF StoreInv, IdsGiven, Call
      <4> QED
        BY <4>1, <4>2 DEF StoreInv, TypeOK
    <3> QED
      BY <3>1, <3>2
  <2>6. \A u, v \in Committing' : writer'[u].id = writer'[v].id => u = v
    BY <1>1, <2>1, <2>2, <2>3 DEF StoreInv, IdsGiven
  <2> QED
    BY <2>4, <2>5, <2>6 DEF IdsGiven
<1>5. StoredTogether' /\ BatchesKnown' /\ MarkedIsDelivered'
  BY DEF StoreInv, StoredTogether, BatchesKnown, MarkedIsDelivered, Delivered, Current
<1>6. AnswerIsTrue'
  BY <1>1 DEF StoreInv, AnswerIsTrue
<1> QED
  BY <1>2, <1>3, <1>4, <1>5, <1>6 DEF StoreInv

\* A transaction commits both rows.
LEMMA CommitStoreInv ==
    ASSUME StoreInv, NEW w \in Writers, Commit(w)
    PROVE  StoreInv'
<1> DEFINE c == writer[w]
           e == c.event_id
           row == [event_id |-> e, payload |-> c.payload, published |-> FALSE]
<1>1. /\ c \in Call /\ c.pc = "commit" /\ w \in Open /\ w \in Committing
      /\ UNCHANGED <<stream, nextId, relay, interruptions>>
  BY DEF Commit, Writing, StoreInv, TypeOK, Idle, Open, Committing
<1>2. /\ e \in EventIds /\ c.payload \in Contents /\ c.id \in Nat
      /\ e \notin DOMAIN events /\ c.id \notin DOMAIN outbox /\ c.id < nextId
  BY <1>1 DEF Call, StoreInv, KeysHeld, IdsGiven
<1>3. /\ DOMAIN events' = DOMAIN events \cup {e} /\ events'[e] = c.payload
      /\ \A x \in DOMAIN events : events'[x] = events[x]
      /\ events' \in [DOMAIN events' -> Contents]
  BY <1>2 DEF Commit, StoreInv, TypeOK
<1>4. row \in OutboxRow
  BY <1>2 DEF OutboxRow
<1>5. /\ DOMAIN outbox' = DOMAIN outbox \cup {c.id} /\ outbox'[c.id] = row
      /\ \A i \in DOMAIN outbox : outbox'[i] = outbox[i]
      /\ outbox' \in [DOMAIN outbox' -> OutboxRow]
  BY <1>2, <1>4 DEF Commit, StoreInv, TypeOK
<1>6. /\ writer'[w] = [c EXCEPT !.pc = "stored"] /\ writer'[w] \in Call
      /\ \A v \in Writers \ {w} : writer'[v] = writer[v]
      /\ writer' \in [Writers -> Call \cup {Idle}]
      /\ writer'[w].pc = "stored" /\ writer'[w].event_id = e /\ writer'[w].payload = c.payload
  BY <1>1 DEF Commit, Goto, StoreInv, TypeOK, Call
<1> HIDE DEF e, c, row
<1>7. TypeOK'
  BY <1>1, <1>2, <1>3, <1>5, <1>6 DEF StoreInv, TypeOK
<1>8. StoredTogether'
  <2>1. ASSUME NEW x \in DOMAIN events' PROVE \E i \in DOMAIN outbox' : outbox'[i].event_id = x
    BY <1>3, <1>5 DEF StoreInv, StoredTogether, row
  <2>2. ASSUME NEW i \in DOMAIN outbox'
        PROVE  /\ outbox'[i].event_id \in DOMAIN events'
               /\ outbox'[i].payload = events'[outbox'[i].event_id]
    BY <1>3, <1>5 DEF StoreInv, StoredTogether, row
  <2>3. \A i \in DOMAIN outbox : outbox[i].event_id # e
    BY <1>2 DEF StoreInv, StoredTogether
  <2>4. \A i, j \in DOMAIN outbox' : outbox'[i].event_id = outbox'[j].event_id => i = j
    BY <1>5, <2>3 DEF StoreInv, StoredTogether, row
  <2> QED
    BY <2>1, <2>2, <2>4 DEF StoredTogether
<1>9. KeysHeld'
  <2>1. Open' = Open \ {w}
    BY <1>6 DEF Open
  <2>2. \A v \in Open' : writer'[v].event_id = writer[v].event_id /\ writer[v].event_id # e
    BY <1>1, <1>6, <2>1 DEF StoreInv, KeysHeld, Open, c, e
  <2> QED
    BY <1>3, <1>6, <2>1, <2>2 DEF StoreInv, KeysHeld, Open
<1>10. IdsGiven'
  <2>1. Committing' = Committing \ {w}
    BY <1>6 DEF Committing
  <2>2. \A v \in Committing' : writer'[v].id = writer[v].id /\ writer[v].id # c.id
    BY <1>1, <1>6, <2>1 DEF StoreInv, IdsGiven, Committing, c
  <2> QED
    BY <1>1, <1>2, <1>5, <1>6, <2>1, <2>2 DEF StoreInv, IdsGiven, Committing
<1>11. BatchesKnown'
  BY <1>1, <1>5 DEF StoreInv, BatchesKnown, Current, Delivered
<1>12. MarkedIsDelivered'
  BY <1>1, <1>5 DEF StoreInv, MarkedIsDelivered, Delivered, row
<1>13. AnswerIsTrue'
  <2> SUFFICES ASSUME NEW v \in Writers
               PROVE  /\ writer'[v].pc = "stored" =>
                            /\ writer'[v].event_id \in DOMAIN events'
                            /\ events'[writer'[v].event_id] = writer'[v].payload
                      /\ writer'[v].pc = "duplicate" => writer'[v].event_id \in DOMAIN events'
    BY DEF AnswerIsTrue
  <2>1. CASE v = w
    BY <1>3, <1>6, <2>1
  <2>2. CASE v # w
    <3>1. writer'[v] = writer[v]
      BY <1>6, <2>2
    <3>2. /\ writer[v].pc = "stored" =>
                /\ writer[v].event_id \in DOMAIN events
                /\ events[writer[v].event_id] = writer[v].payload
          /\ writer[v].pc = "duplicate" => writer[v].event_id \in DOMAIN events
      BY DEF StoreInv, AnswerIsTrue
    <3> QED
      BY <1>3, <3>1, <3>2
  <2> QED
    BY <2>1, <2>2
<1> QED
  BY <1>7, <1>8, <1>9, <1>10, <1>11, <1>12, <1>13 DEF StoreInv

LEMMA WriterStoreInv ==
    ASSUME StoreInv, NEW w \in Writers, WriteEvent(w) \/ WriterStep(w) \/ WriterCrash(w)
    PROVE  StoreInv'
<1>1. /\ nextId \in Nat /\ interruptions \in 0..MaxInterruptions
      /\ writer \in [Writers -> Call \cup {Idle}]
  BY DEF StoreInv, TypeOK
<1>2. CASE WriteEvent(w)
  <2>1. PICK request \in Requests :
           writer' = [writer EXCEPT ![w] = [pc |-> "select", event_id |-> request.event_id,
                                            payload |-> request.payload, id |-> 0]]
    BY <1>2 DEF WriteEvent
  <2>2. [pc |-> "select", event_id |-> request.event_id,
         payload |-> request.payload, id |-> 0] \in Call
    BY StoreAssumption DEF Call
  <2> DEFINE c == [pc |-> "select", event_id |-> request.event_id,
                   payload |-> request.payload, id |-> 0]
  <2>3. c.pc = "select" /\ c \in Call /\ writer' = [writer EXCEPT ![w] = c]
    BY <2>1, <2>2
  <2>4. /\ UNCHANGED <<events, stream, outbox, relay>>
        /\ nextId' \in Nat /\ nextId <= nextId' /\ interruptions' \in 0..MaxInterruptions
    BY <1>1, <1>2 DEF WriteEvent
  <2> HIDE DEF c
  <2> QED
    BY <2>3, <2>4, WriterMoves
<1>3. CASE Select(w) \/ InsertEvent(w)
  <2>1. writer[w] \in Call
    BY <1>1, <1>3 DEF Select, InsertEvent, Writing, Idle
  <2>2. PICK pc \in {"insert", "outbox", "duplicate"} :
           /\ writer' = [writer EXCEPT ![w].pc = pc]
           /\ pc = "duplicate" <=> writer[w].event_id \in DOMAIN events
           /\ pc = "outbox" => Holding(writer[w].event_id) = {}
    BY <1>3 DEF Select, InsertEvent, Goto
  <2> DEFINE c == [writer[w] EXCEPT !.pc = pc]
  <2>3. c \in Call /\ c.pc = pc /\ c.event_id = writer[w].event_id
    BY <2>1 DEF Call
  <2>4. writer' = [writer EXCEPT ![w] = c]
    BY <1>1, <2>2
  <2>5. c.pc = "outbox" => \A v \in Open : writer[v].event_id # c.event_id
    BY <2>2, <2>3 DEF Holding, Open
  <2>6. /\ UNCHANGED <<events, stream, outbox, relay>>
        /\ nextId' \in Nat /\ nextId <= nextId' /\ interruptions' \in 0..MaxInterruptions
    BY <1>1, <1>3 DEF Select, InsertEvent
  <2>7. /\ c.pc \in {"insert", "outbox", "duplicate"}
        /\ c.pc = "duplicate" <=> c.event_id \in DOMAIN events
    BY <2>2, <2>3
  <2> HIDE DEF c
  <2> QED
    BY <2>3, <2>4, <2>5, <2>6, <2>7, WriterMoves
<1>4. CASE InsertOutbox(w)
  <2>1. writer[w] \in Call /\ w \in Open
    BY <1>1, <1>4 DEF InsertOutbox, Writing, Idle, Open
  <2> DEFINE c == [writer[w] EXCEPT !.pc = "commit", !.id = nextId]
  <2>2. c \in Call /\ c.pc = "commit" /\ c.event_id = writer[w].event_id /\ c.id = nextId
    BY <1>1, <2>1 DEF Call
  <2>3. /\ writer' = [writer EXCEPT ![w] = c] /\ nextId' = nextId + 1
        /\ UNCHANGED <<events, stream, outbox, relay, interruptions>>
    BY <1>1, <1>4 DEF InsertOutbox
  <2>4. /\ c.event_id \notin DOMAIN events
        /\ \A v \in Open : writer[v].event_id = c.event_id => v = w
    BY <2>1, <2>2 DEF StoreInv, KeysHeld
  <2>5. /\ c.id < nextId' /\ c.id \notin DOMAIN outbox
        /\ \A v \in Committing : writer[v].id # c.id
    BY <1>1, <2>2, <2>3 DEF StoreInv, IdsGiven
  <2>6. nextId' \in Nat /\ nextId <= nextId' /\ interruptions' \in 0..MaxInterruptions
    BY <1>1, <2>3
  <2> HIDE DEF c
  <2> QED
    BY <2>2, <2>3, <2>4, <2>5, <2>6, WriterMoves
<1>5. CASE Commit(w)
  BY <1>5, CommitStoreInv
<1>6. CASE Answer(w) \/ WriterCrash(w)
  <2>1. /\ writer' = [writer EXCEPT ![w] = Idle] /\ interruptions' \in 0..MaxInterruptions
        /\ UNCHANGED <<events, stream, outbox, nextId, relay>>
    BY <1>1, <1>6, StoreAssumption DEF Answer, WriterCrash
  <2>2. nextId' \in Nat /\ nextId <= nextId'
    BY <1>1, <2>1
  <2>3. Idle.pc = "idle" /\ Idle \in Call \cup {Idle}
    BY DEF Idle
  <2> QED
    BY <2>1, <2>2, <2>3, WriterMoves
<1> QED
  BY <1>2, <1>3, <1>4, <1>5, <1>6 DEF WriterStep

-----------------------------------------------------------------------------
(* The steps of a relay *)

\* A relay's step: the outbox may be marked, the stream may gain entries.
LEMMA RelayMoves ==
    ASSUME StoreInv, NEW r \in Relays, NEW run \in Run \cup {Idle},
           relay' = [relay EXCEPT ![r] = run],
           UNCHANGED <<events, nextId, writer>>, interruptions' \in 0..MaxInterruptions,
           stream' \in Seq(Entry),
           \A e \in EventIds : Delivered(e) => Delivered(e)',
           DOMAIN outbox' = DOMAIN outbox, outbox' \in [DOMAIN outbox -> OutboxRow],
           \A i \in DOMAIN outbox : /\ outbox'[i].event_id = outbox[i].event_id
                                    /\ outbox'[i].payload = outbox[i].payload
                                    /\ outbox'[i].published /\ ~outbox[i].published
                                          => Delivered(outbox[i].event_id),
           run.pc # "idle" => run.batch \subseteq DOMAIN outbox,
           run.pc = "mark" =>
              \A i \in run.batch : (\A j \in run.batch : i <= j) => Delivered(outbox[i].event_id)'
    PROVE  StoreInv'
<1>1. /\ relay'[r] = run /\ \A q \in Relays \ {r} : relay'[q] = relay[q]
      /\ relay' \in [Relays -> Run \cup {Idle}]
  BY DEF StoreInv, TypeOK
<1>2. TypeOK'
  BY <1>1 DEF StoreInv, TypeOK
<1>3. StoredTogether'
  BY DEF StoreInv, StoredTogether
<1>4. KeysHeld' /\ IdsGiven' /\ AnswerIsTrue'
  BY DEF StoreInv, KeysHeld, IdsGiven, AnswerIsTrue, Open, Committing
<1>5. \A i \in DOMAIN outbox : outbox[i].event_id \in EventIds
  BY DEF StoreInv, TypeOK, OutboxRow
<1>6. MarkedIsDelivered'
  <2> SUFFICES ASSUME NEW i \in DOMAIN outbox, outbox'[i].published
               PROVE  Delivered(outbox[i].event_id)'
    BY DEF MarkedIsDelivered
  <2>1. Delivered(outbox[i].event_id)
    BY DEF StoreInv, MarkedIsDelivered
  <2>2. outbox'[i].event_id = outbox[i].event_id
    OBVIOUS
  <2> QED
    BY <1>5, <2>1, <2>2 DEF Delivered
<1>7. BatchesKnown'
  <2> SUFFICES ASSUME NEW q \in Relays
               PROVE  /\ relay'[q].pc # "idle" => relay'[q].batch \subseteq DOMAIN outbox
                      /\ relay'[q].pc = "mark" =>
                            \A i \in relay'[q].batch :
                                Current(q, i)' => Delivered(outbox[i].event_id)'
    BY DEF BatchesKnown
  <2>1. CASE q = r
    BY <1>1, <2>1 DEF Current
  <2>2. CASE q # r
    <3>1. relay'[q] = relay[q]
      BY <1>1, <2>2
    <3>2. \A i \in relay[q].batch :
             relay[q].pc = "mark" /\ Current(q, i) => Delivered(outbox[i].event_id)
      BY DEF StoreInv, BatchesKnown
    <3>3. relay[q].pc # "idle" => relay[q].batch \subseteq DOMAIN outbox
      BY DEF StoreInv, BatchesKnown
    <3>4. \A i \in DOMAIN outbox : Delivered(outbox[i].event_id) => Delivered(outbox[i].event_id)'
      BY <1>5 DEF Delivered
    <3> QED
      BY <3>1, <3>2, <3>3, <3>4 DEF Current
  <2> QED
    BY <2>1, <2>2
<1> QED
  BY <1>2, <1>3, <1>4, <1>6, <1>7 DEF StoreInv

\* A new entry is about its row's event, and takes nothing from the stream.
LEMMA EntryAdded ==
    ASSUME StoreInv, NEW i \in DOMAIN outbox, stream' = Added(i)
    PROVE  /\ stream' \in Seq(Entry)
           /\ \A e \in EventIds : Delivered(e) => Delivered(e)'
           /\ UNCHANGED outbox => Delivered(outbox[i].event_id)'
<1> DEFINE new == Fields(outbox[i].event_id, outbox[i].payload)
<1>1. /\ stream \in Seq(Entry) /\ outbox[i] \in OutboxRow
  BY DEF StoreInv, TypeOK
<1>2. new \in Entry /\ new.event_id = outbox[i].event_id
  BY <1>1 DEF OutboxRow, Contents, Entry, Fields
<1> HIDE DEF new
<1>3. stream' = Append(stream, new)
  BY DEF Added, new
<1>4. /\ stream' \in Seq(Entry) /\ Len(stream') = Len(stream) + 1
      /\ \A j \in 1..Len(stream) : stream'[j] = stream[j]
      /\ stream'[Len(stream) + 1] = new
  BY <1>1, <1>2, <1>3
<1>5. DOMAIN stream = 1..Len(stream) /\ DOMAIN stream' = 1..(Len(stream) + 1) /\ Len(stream) \in Nat
  BY <1>1, <1>4
<1> QED
  BY <1>2, <1>4, <1>5 DEF Delivered

LEMMA RelayStoreInv ==
    ASSUME StoreInv, NEW r \in Relays, RelayStep(r) \/ PublishFails(r) \/ RelayCrash(r)
    PROVE  StoreInv'
<1>1. /\ relay \in [Relays -> Run \cup {Idle}] /\ DOMAIN outbox \subseteq Nat
      /\ outbox \in [DOMAIN outbox -> OutboxRow] /\ stream \in Seq(Entry)
      /\ interruptions \in 0..MaxInterruptions
  BY DEF StoreInv, TypeOK
<1>2. Idle.pc = "idle" /\ Idle \in Run \cup {Idle}
  BY DEF Idle
<1>3. CASE ReadBatch(r)
  <2> DEFINE run == [pc |-> "publish", batch |-> FirstOf(Unpublished)]
  <2>1. FirstOf(Unpublished) \subseteq DOMAIN outbox
    BY DEF FirstOf, Unpublished
  <2>2. run \in Run /\ run.pc = "publish" /\ run.batch \subseteq DOMAIN outbox
    BY <1>1, <2>1 DEF Run
  <2>3. /\ relay' = [relay EXCEPT ![r] = run]
        /\ UNCHANGED <<events, stream, outbox, nextId, writer, interruptions>>
    BY <1>3 DEF ReadBatch
  <2>4. \A e \in EventIds : Delivered(e) => Delivered(e)'
    BY <2>3 DEF Delivered
  <2> HIDE DEF run
  <2> QED
    BY <1>1, <2>2, <2>3, <2>4, RelayMoves
<1>4. CASE Publish(r)
  <2>1. relay[r] \in Run /\ relay[r].batch \subseteq DOMAIN outbox
    BY <1>1, <1>4 DEF Publish, Idle, StoreInv, BatchesKnown
  <2>2. PICK i \in relay[r].batch : Current(r, i) /\ stream' = Added(i)
    BY <1>4 DEF Publish
  <2> DEFINE run == [relay[r] EXCEPT !.pc = "mark"]
  <2>3. run \in Run /\ run.pc = "mark" /\ run.batch = relay[r].batch
    BY <2>1 DEF Run
  <2>4. /\ relay' = [relay EXCEPT ![r] = run]
        /\ UNCHANGED <<events, outbox, nextId, writer, interruptions>>
    BY <1>1, <1>4 DEF Publish
  <2>5. /\ stream' \in Seq(Entry)
        /\ \A e \in EventIds : Delivered(e) => Delivered(e)'
        /\ Delivered(outbox[i].event_id)'
    BY <2>1, <2>2, <2>4, EntryAdded
  <2>6. \A j \in run.batch : (\A k \in run.batch : j <= k) => j = i
    BY <1>1, <2>1, <2>2, <2>3 DEF Current
  <2> HIDE DEF run
  <2> QED
    BY <1>1, <2>1, <2>3, <2>4, <2>5, <2>6, RelayMoves
<1>5. CASE PublishFails(r) \/ RelayCrash(r)
  <2>1. /\ relay' = [relay EXCEPT ![r] = Idle] /\ interruptions' \in 0..MaxInterruptions
        /\ UNCHANGED <<events, outbox, nextId, writer>>
    BY <1>1, <1>5, StoreAssumption DEF PublishFails, RelayCrash
  <2>2. stream' \in Seq(Entry) /\ \A e \in EventIds : Delivered(e) => Delivered(e)'
    <3>1. CASE UNCHANGED stream
      BY <1>1, <3>1 DEF Delivered
    <3>2. CASE PublishFails(r) /\ ~UNCHANGED stream
      <4>1. PICK i \in relay[r].batch : stream' = Added(i)
        BY <3>2 DEF PublishFails
      <4>2. relay[r].batch \subseteq DOMAIN outbox
        BY <3>2 DEF PublishFails, StoreInv, BatchesKnown
      <4> QED
        BY <4>1, <4>2, EntryAdded
    <3> QED
      BY <1>5, <3>1, <3>2 DEF RelayCrash
  <2> QED
    BY <1>1, <1>2, <2>1, <2>2, RelayMoves
<1>6. CASE MarkPublished(r)
  <2>1. PICK i \in relay[r].batch :
           /\ Current(r, i) /\ outbox' = [outbox EXCEPT ![i].published = TRUE]
           /\ relay' = [relay EXCEPT ![r] = IF relay[r].batch \ {i} = {} THEN Idle
                                            ELSE [pc |-> "publish", batch |-> relay[r].batch \ {i}]]
    BY <1>6 DEF MarkPublished
  <2> DEFINE run == IF relay[r].batch \ {i} = {} THEN Idle
                    ELSE [pc |-> "publish", batch |-> relay[r].batch \ {i}]
  <2>2. /\ relay[r] \in Run /\ relay[r].batch \subseteq DOMAIN outbox
        /\ Delivered(outbox[i].event_id)
    BY <1>1, <1>6, <2>1 DEF MarkPublished, Idle, StoreInv, BatchesKnown
  <2>3. /\ run \in Run \cup {Idle} /\ run.pc # "mark"
        /\ run.pc # "idle" => run.batch \subseteq DOMAIN outbox
    BY <2>2 DEF Run, Idle
  <2>4. /\ UNCHANGED <<events, stream, nextId, writer, interruptions>>
        /\ relay' = [relay EXCEPT ![r] = run]
    BY <1>6, <2>1 DEF MarkPublished
  <2>5. i \in DOMAIN outbox /\ outbox[i] \in OutboxRow
    BY <1>1, <2>2
  <2>6. [outbox[i] EXCEPT !.published = TRUE] \in OutboxRow
    BY <2>5 DEF OutboxRow
  <2>7. /\ DOMAIN outbox' = DOMAIN outbox /\ outbox' \in [DOMAIN outbox -> OutboxRow]
        /\ outbox'[i] = [outbox[i] EXCEPT !.published = TRUE]
        /\ \A j \in DOMAIN outbox \ {i} : outbox'[j] = outbox[j]
    BY <1>1, <2>1, <2>5, <2>6
  <2>8. \A j \in DOMAIN outbox : /\ outbox'[j].event_id = outbox[j].event_id
                                 /\ outbox'[j].payload = outbox[j].payload
                                 /\ outbox'[j].published /\ ~outbox[j].published
                                       => Delivered(outbox[j].event_id)
    BY <2>2, <2>5, <2>7 DEF OutboxRow
  <2>9. \A e \in EventIds : Delivered(e) => Delivered(e)'
    BY <2>4 DEF Delivered
  <2> HIDE DEF run
  <2> QED
    BY <1>1, <2>3, <2>4, <2>7, <2>8, <2>9, RelayMoves
<1> QED
  BY <1>3, <1>4, <1>5, <1>6 DEF RelayStep

LEMMA StoreInvNext == StoreInv /\ [StoreNext]_vars => StoreInv'
<1> SUFFICES ASSUME StoreInv, [StoreNext]_vars PROVE StoreInv'
  OBVIOUS
<1>1. CASE UNCHANGED vars
  BY <1>1 DEF vars, StoreInv, TypeOK, StoredTogether, KeysHeld, IdsGiven, BatchesKnown,
              MarkedIsDelivered, AnswerIsTrue, Open, Committing, Current, Delivered
<1> QED
  BY <1>1, WriterStoreInv, RelayStoreInv DEF StoreNext

-----------------------------------------------------------------------------
(* Who added which entry of the stream *)

Holds(r, i) == relay[r].pc # "idle" /\ i \in relay[r].batch

\* Relay r has published event e and will not do so again: the row is marked and not
\* among those r holds, or r is about to mark it.
Handled(r, e) ==
    \E i \in DOMAIN outbox :
        /\ outbox[i].event_id = e
        /\ \/ outbox[i].published /\ ~Holds(r, i)
           \/ relay[r].pc = "mark" /\ Current(r, i)

\* `lost` holds the entries whose mark an interruption prevented; of every other entry
\* the relay that added it has handled the event, and added no other entry about it.
AccountedBy(sender, lost) ==
    /\ Cardinality(lost) <= interruptions
    /\ \A k \in DOMAIN stream \ lost : Handled(sender[k], stream[k].event_id)
    /\ \A k, l \in DOMAIN stream \ lost :
          sender[k] = sender[l] /\ stream[k].event_id = stream[l].event_id => k = l

EntriesAccounted ==
    \E sender \in [DOMAIN stream -> Relays], lost \in SUBSET DOMAIN stream :
        AccountedBy(sender, lost)

\* What a relay has handled stays so while it does not move.
LEMMA HandledStays ==
    ASSUME NEW r, NEW e, Handled(r, e), relay'[r] = relay[r],
           DOMAIN outbox \subseteq DOMAIN outbox',
           \A i \in DOMAIN outbox : /\ outbox'[i].event_id = outbox[i].event_id
                                    /\ outbox[i].published => outbox'[i].published
    PROVE  Handled(r, e)'
<1>1. PICK i \in DOMAIN outbox :
         /\ outbox[i].event_id = e
         /\ \/ outbox[i].published /\ ~Holds(r, i)
            \/ relay[r].pc = "mark" /\ Current(r, i)
  BY DEF Handled
<1>2. (Holds(r, i) <=> Holds(r, i)') /\ (Current(r, i) <=> Current(r, i)')
  BY DEF Holds, Current
<1> QED
  BY <1>1, <1>2 DEF Handled

LEMMA StreamTyped ==
    ASSUME StoreInv
    PROVE  /\ Len(stream) \in Nat /\ DOMAIN stream = 1..Len(stream) /\ IsFiniteSet(DOMAIN stream)
           /\ \A k \in DOMAIN stream : stream[k] \in Entry /\ stream[k].event_id \in EventIds
<1>1. stream \in Seq(Entry)
  BY DEF StoreInv, TypeOK
<1>2. Len(stream) \in Nat /\ DOMAIN stream = 1..Len(stream)
  BY <1>1
<1>3. \A k \in 1..Len(stream) : stream[k] \in Entry
  BY <1>1
<1>4. \A k \in 1..Len(stream) : stream[k].event_id \in EventIds
  BY <1>3 DEF Entry
<1>5. IsFiniteSet(1..Len(stream))
  BY <1>2, FS_Interval
<1> QED
  BY <1>2, <1>3, <1>4, <1>5

\* A step that leaves the stream and what was handled.
LEMMA AccountedStays ==
    ASSUME StoreInv, EntriesAccounted, UNCHANGED stream,
           interruptions' \in Nat, interruptions <= interruptions',
           \A r \in Relays, e \in EventIds : Handled(r, e) => Handled(r, e)'
    PROVE  EntriesAccounted'
<1>1. PICK sender \in [DOMAIN stream -> Relays], lost \in SUBSET DOMAIN stream :
         AccountedBy(sender, lost)
  BY DEF EntriesAccounted
<1>2. interruptions \in Nat
  BY StoreAssumption DEF StoreInv, TypeOK
<1>3. \A k \in DOMAIN stream : stream[k].event_id \in EventIds
  BY StreamTyped
<1>4. IsFiniteSet(lost) /\ Cardinality(lost) \in Nat
  BY StreamTyped, FS_Subset, FS_CardinalityType
<1>5. Cardinality(lost) <= interruptions
  BY <1>1 DEF AccountedBy
<1>6. Cardinality(lost) <= interruptions'
  BY <1>2, <1>4, <1>5
<1>7. AccountedBy(sender, lost)'
  BY <1>1, <1>3, <1>6 DEF AccountedBy
<1> QED
  BY <1>7 DEF EntriesAccounted

\* A relay is interrupted: one entry at most is written off, the one it was to mark or
\* the one it has just added.
LEMMA AccountedInterrupted ==
    ASSUME StoreInv, NEW r \in Relays, PublishFails(r) \/ RelayCrash(r), EntriesAccounted
    PROVE  EntriesAccounted'
<1>1. PICK sender \in [DOMAIN stream -> Relays], lost \in SUBSET DOMAIN stream :
         AccountedBy(sender, lost)
  BY DEF EntriesAccounted
<1>2. /\ stream \in Seq(Entry) /\ interruptions \in Nat /\ relay \in [Relays -> Run \cup {Idle}]
      /\ DOMAIN outbox \subseteq Nat
  BY StoreAssumption DEF StoreInv, TypeOK
<1>3. /\ interruptions' = interruptions + 1 /\ UNCHANGED outbox
      /\ relay[r].pc # "idle" /\ relay'[r].pc = "idle"
      /\ \A q \in Relays \ {r} : relay'[q] = relay[q]
  BY <1>2 DEF PublishFails, RelayCrash, Idle
<1>4. DOMAIN stream = 1..Len(stream) /\ Len(stream) \in Nat
  BY StreamTyped
<1>5. IsFiniteSet(lost) /\ Cardinality(lost) \in Nat
  BY StreamTyped, FS_Subset, FS_CardinalityType
<1>6. \A n : Cardinality(lost \cup {n}) <= interruptions'
  <2> SUFFICES ASSUME NEW n PROVE Cardinality(lost \cup {n}) <= interruptions'
    OBVIOUS
  <2>1. Cardinality(lost \cup {n}) <= Cardinality(lost) + 1
    BY <1>5, FS_AddElement
  <2>2. Cardinality(lost) <= interruptions /\ Cardinality(lost \cup {n}) \in Nat
    BY <1>1, <1>5, FS_AddElement, FS_CardinalityType DEF AccountedBy
  <2> QED
    BY <1>2, <1>3, <1>5, <2>1, <2>2
<1>7. \A q \in Relays \ {r}, e \in EventIds : Handled(q, e) => Handled(q, e)'
  BY <1>3, HandledStays
<1>8. \A e \in EventIds : Handled(r, e) /\ ~Handled(r, e)' =>
         /\ relay[r].pc = "mark"
         /\ \E i \in DOMAIN outbox : Current(r, i) /\ outbox[i].event_id = e
  BY <1>3 DEF Handled, Holds
<1>9. \A k \in DOMAIN stream : stream[k].event_id \in EventIds
  BY StreamTyped
<1>10. CASE UNCHANGED stream
  <2>1. PICK charged \in SUBSET (DOMAIN stream \ lost) :
           \A k \in DOMAIN stream \ lost :
               k \in charged <=> ~Handled(sender[k], stream[k].event_id)'
    <3> DEFINE C == {k \in DOMAIN stream \ lost : ~Handled(sender[k], stream[k].event_id)'}
    <3>1. /\ C \in SUBSET (DOMAIN stream \ lost)
          /\ \A k \in DOMAIN stream \ lost :
                 k \in C <=> ~Handled(sender[k], stream[k].event_id)'
      OBVIOUS
    <3> HIDE DEF C
    <3> QED
      BY <3>1
  <2>2. ASSUME NEW k \in charged
        PROVE  /\ sender[k] = r
               /\ \E i \in DOMAIN outbox : Current(r, i) /\ outbox[i].event_id = stream[k].event_id
    <3>1. PICK e \in EventIds : e = stream[k].event_id
      BY <1>9
    <3>2. Handled(sender[k], e) /\ ~Handled(sender[k], e)' /\ sender[k] \in Relays
      BY <1>1, <1>10, <2>1, <3>1 DEF AccountedBy
    <3>3. sender[k] = r
      BY <1>7, <3>2
    <3> QED
      BY <1>8, <3>1, <3>2, <3>3
  <2>3. ASSUME NEW k \in charged, NEW l \in charged PROVE k = l
    <3>1. PICK i \in DOMAIN outbox : Current(r, i) /\ outbox[i].event_id = stream[k].event_id
      BY <2>2
    <3>2. PICK j \in DOMAIN outbox : Current(r, j) /\ outbox[j].event_id = stream[l].event_id
      BY <2>2
    <3>3. i = j
      BY <1>2, <3>1, <3>2 DEF Current
    <3> QED
      BY <1>1, <2>2, <3>1, <3>2, <3>3 DEF AccountedBy
  <2>4. Cardinality(lost \cup charged) <= interruptions'
    <3>1. CASE charged = {}
      <4>1. lost \cup charged = lost
        BY <3>1
      <4>2. Cardinality(lost) <= interruptions
        BY <1>1 DEF AccountedBy
      <4>3. Cardinality(lost) <= interruptions'
        BY <1>2, <1>3, <1>5, <4>2
      <4> QED
        BY <4>1, <4>3
    <3>2. CASE charged # {}
      <4>1. PICK n \in charged : charged = {n}
        BY <2>3, <3>2
      <4> QED
        BY <1>6, <4>1
    <3> QED
      BY <3>1, <3>2
  <2>5. \A k \in DOMAIN stream \ (lost \cup charged) : Handled(sender[k], stream[k].event_id)'
    BY <2>1
  <2>6. \A k, l \in DOMAIN stream \ (lost \cup charged) :
           sender[k] = sender[l] /\ stream[k].event_id = stream[l].event_id => k = l
    BY <1>1 DEF AccountedBy
  <2>7. AccountedBy(sender, lost \cup charged)'
    BY <1>10, <2>4, <2>5, <2>6 DEF AccountedBy
  <2>8. lost \cup charged \in SUBSET DOMAIN stream
    OBVIOUS
  <2> QED
    BY <1>10, <2>7, <2>8 DEF EntriesAccounted
<1>11. CASE PublishFails(r) /\ ~UNCHANGED stream
  <2>1. PICK i \in relay[r].batch : stream' = Added(i)
    BY <1>11 DEF PublishFails
  <2>2. PICK n \in Nat :
           /\ DOMAIN stream' = DOMAIN stream \cup {n} /\ n \notin DOMAIN stream
           /\ \A k \in DOMAIN stream : stream'[k] = stream[k]
    <3> DEFINE new == Fields(outbox[i].event_id, outbox[i].payload)
    <3> HIDE DEF new
    <3>1. stream' = Append(stream, new)
      BY <2>1 DEF Added, new
    <3> QED
      BY <1>2, <1>4, <3>1
  <2>3. relay[r].pc = "publish"
    BY <1>11 DEF PublishFails
  <2>4. \A q \in Relays, e \in EventIds : Handled(q, e) => Handled(q, e)'
    BY <1>7, <1>8, <2>3
  <2>5. PICK after \in [DOMAIN stream' -> Relays] :
           \A k \in DOMAIN stream : after[k] = sender[k]
    <3> DEFINE f == [k \in DOMAIN stream' |-> IF k = n THEN r ELSE sender[k]]
    <3>1. f \in [DOMAIN stream' -> Relays] /\ \A k \in DOMAIN stream : f[k] = sender[k]
      BY <2>2
    <3> HIDE DEF f
    <3> QED
      BY <3>1
  <2>6. DOMAIN stream' \ (lost \cup {n}) = DOMAIN stream \ lost
    BY <2>2
  <2>7. ASSUME NEW k \in DOMAIN stream \ lost
        PROVE  Handled(after[k], stream[k].event_id)'
    <3> DEFINE e == stream[k].event_id
    <3>1. Handled(sender[k], e) /\ sender[k] \in Relays /\ e \in EventIds
      BY <1>1, <1>9 DEF AccountedBy
    <3>2. PICK x \in EventIds : x = e
      BY <3>1
    <3>3. Handled(sender[k], x)'
      BY <2>4, <3>1, <3>2
    <3>4. after[k] = sender[k] /\ stream'[k].event_id = x
      BY <2>2, <2>5, <3>2
    <3> QED
      BY <3>3, <3>4
  <2>8. \A k, l \in DOMAIN stream \ lost :
           after[k] = after[l] /\ stream'[k].event_id = stream'[l].event_id => k = l
    BY <1>1, <2>2, <2>5 DEF AccountedBy
  <2>9. AccountedBy(after, lost \cup {n})'
    BY <1>6, <2>6, <2>7, <2>8 DEF AccountedBy
  <2> QED
    BY <2>2, <2>5, <2>9 DEF EntriesAccounted
<1> QED
  BY <1>10, <1>11 DEF RelayCrash

LEMMA AccountedPublish ==
    ASSUME StoreInv, NEW r \in Relays, Publish(r), EntriesAccounted
    PROVE  EntriesAccounted'
<1>1. PICK sender \in [DOMAIN stream -> Relays], lost \in SUBSET DOMAIN stream :
         AccountedBy(sender, lost)
  BY DEF EntriesAccounted
<1>2. PICK i \in relay[r].batch : Current(r, i) /\ stream' = Added(i)
  BY DEF Publish
<1>3. /\ stream \in Seq(Entry) /\ relay \in [Relays -> Run \cup {Idle}]
      /\ outbox \in [DOMAIN outbox -> OutboxRow] /\ i \in DOMAIN outbox
  BY DEF Publish, StoreInv, TypeOK, BatchesKnown
<1>4. /\ UNCHANGED <<outbox, interruptions>> /\ relay[r].pc = "publish"
      /\ relay'[r].pc = "mark" /\ relay'[r].batch = relay[r].batch
      /\ \A q \in Relays \ {r} : relay'[q] = relay[q]
  <2>1. relay[r] \in Run
    BY <1>3 DEF Publish, Idle
  <2> QED
    BY <1>3, <2>1 DEF Publish, Run
<1>5. PICK n \in Nat :
         /\ DOMAIN stream' = DOMAIN stream \cup {n} /\ n \notin DOMAIN stream
         /\ \A k \in DOMAIN stream : stream'[k] = stream[k]
         /\ stream'[n].event_id = outbox[i].event_id
  <2> DEFINE new == Fields(outbox[i].event_id, outbox[i].payload)
  <2>1. new.event_id = outbox[i].event_id
    BY DEF Fields
  <2> HIDE DEF new
  <2>2. stream' = Append(stream, new)
    BY <1>2 DEF Added, new
  <2> QED
    BY <1>3, <2>1, <2>2
<1>6. PICK after \in [DOMAIN stream' -> Relays] :
         after[n] = r /\ \A k \in DOMAIN stream : after[k] = sender[k]
  <2> DEFINE f == [k \in DOMAIN stream' |-> IF k = n THEN r ELSE sender[k]]
  <2>1. f \in [DOMAIN stream' -> Relays] /\ f[n] = r /\ \A k \in DOMAIN stream : f[k] = sender[k]
    BY <1>5
  <2> HIDE DEF f
  <2> QED
    BY <2>1
<1>7. \A q \in Relays, e \in EventIds : Handled(q, e) => Handled(q, e)'
  <2>1. \A q \in Relays \ {r}, e \in EventIds : Handled(q, e) => Handled(q, e)'
    BY <1>4, HandledStays
  <2>2. \A e \in EventIds : Handled(r, e) => Handled(r, e)'
    BY <1>4 DEF Handled, Holds
  <2> QED
    BY <2>1, <2>2
<1>8. PICK x \in EventIds : x = outbox[i].event_id
  BY <1>3 DEF OutboxRow
<1>9. Handled(r, x)' /\ ~Handled(r, x)
  <2>1. Handled(r, x)'
    BY <1>2, <1>3, <1>4, <1>8 DEF Handled, Current
  <2>2. \A j \in DOMAIN outbox : outbox[j].event_id = x => j = i
    BY <1>3, <1>8 DEF StoreInv, StoredTogether
  <2>3. Holds(r, i) /\ relay[r].pc # "mark"
    BY <1>2, <1>4 DEF Holds
  <2> QED
    BY <2>1, <2>2, <2>3 DEF Handled
<1>10. ASSUME NEW k \in DOMAIN stream' \ lost
       PROVE  Handled(after[k], stream[k].event_id)'
  <2>1. CASE k = n
    BY <1>5, <1>6, <1>8, <1>9, <2>1
  <2>2. CASE k # n
    <3>1. /\ k \in DOMAIN stream \ lost
          /\ Handled(sender[k], stream[k].event_id) /\ sender[k] \in Relays
      BY <1>1, <1>5, <2>2 DEF AccountedBy
    <3>2. PICK e \in EventIds : e = stream[k].event_id
      BY <3>1, StreamTyped
    <3>3. Handled(sender[k], e)'
      BY <1>7, <3>1, <3>2
    <3>4. after[k] = sender[k] /\ stream'[k].event_id = e
      BY <1>5, <1>6, <2>2, <3>2
    <3> QED
      BY <3>3, <3>4
  <2> QED
    BY <2>1, <2>2
<1>11. ASSUME NEW k \in DOMAIN stream' \ lost, NEW l \in DOMAIN stream' \ lost,
              after[k] = after[l], stream'[k].event_id = stream'[l].event_id
       PROVE  k = l
  <2>1. \A m \in DOMAIN stream \ lost : ~(after[m] = r /\ stream'[m].event_id = x)
    BY <1>1, <1>5, <1>6, <1>9 DEF AccountedBy
  <2>2. CASE k = n \/ l = n
    BY <1>5, <1>6, <1>8, <1>11, <2>1, <2>2
  <2>3. CASE k # n /\ l # n
    BY <1>1, <1>5, <1>6, <1>11, <2>3 DEF AccountedBy
  <2> QED
    BY <2>2, <2>3
<1>12. Cardinality(lost) <= interruptions'
  BY <1>1, <1>4 DEF AccountedBy
<1>13. AccountedBy(after, lost)'
  BY <1>10, <1>11, <1>12 DEF AccountedBy
<1> QED
  BY <1>5, <1>6, <1>13 DEF EntriesAccounted

\* A row that is marked leaves the relay's hands, and a new batch has unmarked rows only.
LEMMA AccountedRelay ==
    ASSUME StoreInv, NEW r \in Relays, ReadBatch(r) \/ MarkPublished(r), EntriesAccounted
    PROVE  EntriesAccounted'
<1>1. /\ relay \in [Relays -> Run \cup {Idle}] /\ interruptions \in Nat
      /\ outbox \in [DOMAIN outbox -> OutboxRow] /\ DOMAIN outbox \subseteq Nat
  BY StoreAssumption DEF StoreInv, TypeOK
<1>2. CASE ReadBatch(r)
  <2>1. /\ relay[r].pc = "idle" /\ relay'[r].pc = "publish"
        /\ relay'[r].batch = FirstOf(Unpublished)
        /\ \A q \in Relays \ {r} : relay'[q] = relay[q]
        /\ UNCHANGED <<stream, outbox, interruptions>>
    BY <1>1, <1>2 DEF ReadBatch
  <2>2. \A i \in FirstOf(Unpublished) : ~outbox[i].published
    BY DEF FirstOf, Unpublished
  <2>3. \A e \in EventIds : Handled(r, e) => Handled(r, e)'
    BY <2>1, <2>2 DEF Handled, Holds
  <2>4. \A q \in Relays \ {r}, e \in EventIds : Handled(q, e) => Handled(q, e)'
    BY <2>1, HandledStays
  <2> QED
    BY <1>1, <2>1, <2>3, <2>4, AccountedStays
<1>3. CASE MarkPublished(r)
  <2>1. PICK i \in relay[r].batch :
           /\ Current(r, i) /\ outbox' = [outbox EXCEPT ![i].published = TRUE]
           /\ relay' = [relay EXCEPT ![r] = IF relay[r].batch \ {i} = {} THEN Idle
                                            ELSE [pc |-> "publish", batch |-> relay[r].batch \ {i}]]
    BY <1>3 DEF MarkPublished
  <2>2. /\ relay[r].pc = "mark" /\ UNCHANGED <<stream, interruptions>>
        /\ i \in DOMAIN outbox /\ relay[r].batch \subseteq Nat
    BY <1>1, <1>3, <2>1 DEF MarkPublished, StoreInv, BatchesKnown
  <2>3. /\ DOMAIN outbox' = DOMAIN outbox /\ outbox'[i].published
        /\ \A j \in DOMAIN outbox : /\ outbox'[j].event_id = outbox[j].event_id
                                    /\ outbox[j].published => outbox'[j].published
    BY <1>1, <2>1, <2>2 DEF OutboxRow
  <2>4. /\ \A q \in Relays \ {r} : relay'[q] = relay[q]
        /\ relay'[r].pc # "idle" => relay'[r].batch = relay[r].batch \ {i}
    BY <1>1, <2>1 DEF Idle
  <2>5. \A j \in relay[r].batch : Current(r, j) => j = i
    BY <2>1, <2>2 DEF Current
  <2>6. \A e \in EventIds : Handled(r, e) => Handled(r, e)'
    <3> SUFFICES ASSUME NEW e \in EventIds, Handled(r, e) PROVE Handled(r, e)'
      OBVIOUS
    <3>1. PICK j \in DOMAIN outbox :
             /\ outbox[j].event_id = e
             /\ \/ outbox[j].published /\ ~Holds(r, j)
                \/ relay[r].pc = "mark" /\ Current(r, j)
      BY DEF Handled
    <3>2. outbox'[j].published /\ ~Holds(r, j)'
      BY <2>2, <2>3, <2>4, <2>5, <3>1 DEF Holds, Current
    <3> QED
      BY <2>3, <3>1, <3>2 DEF Handled
  <2>7. \A q \in Relays \ {r}, e \in EventIds : Handled(q, e) => Handled(q, e)'
    BY <2>3, <2>4, HandledStays
  <2> QED
    BY <1>1, <2>2, <2>6, <2>7, AccountedStays
<1> QED
  BY <1>2, <1>3

LEMMA AccountedWriter ==
    ASSUME StoreInv, NEW w \in Writers, EntriesAccounted,
           WriteEvent(w) \/ WriterStep(w) \/ WriterCrash(w)
    PROVE  EntriesAccounted'
<1>1. /\ interruptions \in Nat /\ outbox \in [DOMAIN outbox -> OutboxRow]
  BY StoreAssumption DEF StoreInv, TypeOK
<1>2. CASE Commit(w)
  <2>1. writer[w].id \notin DOMAIN outbox
    BY <1>2 DEF Commit, Writing, StoreInv, IdsGiven, Committing
  <2>2. /\ UNCHANGED <<stream, relay, interruptions>> /\ DOMAIN outbox \subseteq DOMAIN outbox'
        /\ \A i \in DOMAIN outbox : outbox'[i] = outbox[i]
    BY <1>2, <2>1 DEF Commit
  <2>3. \A r \in Relays, e \in EventIds : Handled(r, e) => Handled(r, e)'
    BY <2>2, HandledStays
  <2> QED
    BY <1>1, <2>2, <2>3, AccountedStays
<1>3. CASE ~Commit(w)
  <2>1. UNCHANGED <<stream, relay, outbox>> /\ interruptions' \in {interruptions, interruptions + 1}
    BY <1>3 DEF WriteEvent, WriterStep, Select, InsertEvent, InsertOutbox, Answer, WriterCrash
  <2>2. \A r \in Relays, e \in EventIds : Handled(r, e) => Handled(r, e)'
    BY <2>1, HandledStays
  <2>3. interruptions' \in Nat /\ interruptions <= interruptions'
    BY <1>1, <2>1
  <2> QED
    BY <2>1, <2>2, <2>3, AccountedStays
<1> QED
  BY <1>2, <1>3

LEMMA AccountedInit == StoreInit => EntriesAccounted
<1> SUFFICES ASSUME StoreInit PROVE EntriesAccounted
  OBVIOUS
<1>1. DOMAIN stream = {} /\ interruptions = 0
  BY DEF StoreInit, Init
<1> DEFINE none == [k \in {} |-> CHOOSE r \in Relays : TRUE]
<1>2. none \in [DOMAIN stream -> Relays] /\ {} \in SUBSET DOMAIN stream
  BY <1>1
<1>3. AccountedBy(none, {})
  BY <1>1, FS_EmptySet DEF AccountedBy
<1> QED
  BY <1>2, <1>3 DEF EntriesAccounted

LEMMA AccountedNext == StoreInv /\ EntriesAccounted /\ [StoreNext]_vars => EntriesAccounted'
<1> SUFFICES ASSUME StoreInv, EntriesAccounted, [StoreNext]_vars PROVE EntriesAccounted'
  OBVIOUS
<1>1. CASE UNCHANGED vars
  BY <1>1 DEF vars, EntriesAccounted, AccountedBy, Handled, Holds, Current
<1> QED
  BY <1>1, AccountedWriter, AccountedPublish, AccountedRelay, AccountedInterrupted
  DEF StoreNext, RelayStep

\* Only delivered events are on the stream, and they are finitely many.
LEMMA ToldFinite ==
    ASSUME StoreInv
    PROVE  /\ IsFiniteSet(DOMAIN stream)
           /\ IsFiniteSet({e \in EventIds : Delivered(e)})
<1> DEFINE told == {e \in EventIds : Delivered(e)}
           about == [k \in DOMAIN stream |-> stream[k].event_id]
<1>1. IsFiniteSet(DOMAIN stream)
  BY StreamTyped
<1>2. about \in Surjection(DOMAIN stream, told)
  BY StreamTyped DEF Surjection, Delivered
<1> HIDE DEF about, told
<1>3. IsFiniteSet(told)
  BY <1>1, <1>2, FS_Surjection
<1> QED
  BY <1>1, <1>3 DEF told

\* The entries that are not written off are told apart by relay and event.
LEMMA AccountedBounds == StoreInv /\ EntriesAccounted => OnlyInterruptedRepublished
<1> SUFFICES ASSUME StoreInv, EntriesAccounted, NEW ids \in SUBSET {e \in EventIds : Delivered(e)}
             PROVE  Cardinality(About(ids)) <= Cardinality(Relays) * Cardinality(ids) + interruptions
  BY DEF OnlyInterruptedRepublished
<1>1. PICK sender \in [DOMAIN stream -> Relays], lost \in SUBSET DOMAIN stream :
         AccountedBy(sender, lost)
  BY DEF EntriesAccounted
<1> DEFINE kept == About(ids) \ lost
           place == [k \in kept |-> <<sender[k], stream[k].event_id>>]
<1>2. interruptions \in Nat
  BY StoreAssumption DEF StoreInv, TypeOK
<1>3. IsFiniteSet(DOMAIN stream) /\ About(ids) \subseteq DOMAIN stream
  BY ToldFinite DEF About
<1>4. IsFiniteSet(ids)
  BY ToldFinite, FS_Subset
<1>5. IsFiniteSet(Relays \X ids) /\ Cardinality(Relays \X ids) = Cardinality(Relays) * Cardinality(ids)
  BY <1>4, StoreAssumption, FS_Product
<1>6. IsFiniteSet(kept) /\ Cardinality(kept) <= Cardinality(Relays \X ids)
  <2>1. place \in Injection(kept, Relays \X ids)
    <3>1. \A k \in kept : place[k] \in Relays \X ids
      BY <1>3 DEF About
    <3>2. \A k, l \in kept : place[k] = place[l] => k = l
      BY <1>1, <1>3 DEF AccountedBy
    <3> QED
      BY <3>1, <3>2 DEF Injection, IsInjective
  <2> HIDE DEF place, kept
  <2> QED
    BY <1>5, <2>1, FS_Injection
<1>7. IsFiniteSet(lost) /\ Cardinality(lost) <= interruptions
  BY <1>1, <1>3, FS_Subset DEF AccountedBy
<1>8. IsFiniteSet(kept \cup lost) /\ Cardinality(About(ids)) <= Cardinality(kept \cup lost)
  <2>1. About(ids) \subseteq kept \cup lost
    OBVIOUS
  <2> HIDE DEF kept
  <2>2. IsFiniteSet(kept \cup lost)
    BY <1>6, <1>7, FS_Union
  <2> QED
    BY <2>1, <2>2, FS_Subset
<1>9. Cardinality(kept \cup lost) = Cardinality(kept) + Cardinality(lost)
  <2>1. kept \cap lost = {}
    OBVIOUS
  <2> HIDE DEF kept
  <2>2. Cardinality(kept) \in Nat /\ Cardinality(lost) \in Nat
    BY <1>6, <1>7, FS_CardinalityType
  <2>3. Cardinality(kept \cup lost) = Cardinality(kept) + Cardinality(lost) - Cardinality({})
    BY <1>6, <1>7, <2>1, FS_Union
  <2> QED
    BY <2>2, <2>3, FS_EmptySet
<1>10. /\ Cardinality(kept) \in Nat /\ Cardinality(lost) \in Nat
       /\ Cardinality(About(ids)) \in Nat /\ Cardinality(Relays \X ids) \in Nat
  BY <1>3, <1>5, <1>6, <1>7, FS_CardinalityType, FS_Subset
<1> HIDE DEF kept
<1>11. Cardinality(About(ids)) <= Cardinality(Relays \X ids) + interruptions
  BY <1>2, <1>6, <1>7, <1>8, <1>9, <1>10
<1> QED
  BY <1>5, <1>11

-----------------------------------------------------------------------------

\* In both tables or in neither, with one content (store.py:34-36).
THEOREM StoredTogetherAlways == StoreSpec => []StoredTogether
<1>1. StoreInv => StoredTogether
  BY DEF StoreInv
<1> QED
  BY <1>1, StoreInvInit, StoreInvNext, PTL DEF StoreSpec

\* No crash, lost answer or second relay loses an event (relay.py:4-6).
THEOREM MarkedIsDeliveredAlways == StoreSpec => []MarkedIsDelivered
<1>1. StoreInv => MarkedIsDelivered
  BY DEF StoreInv
<1> QED
  BY <1>1, StoreInvInit, StoreInvNext, PTL DEF StoreSpec

\* write_event's answers are true, whatever writers race (store.py:33-34).
THEOREM AnswersAreTrue == StoreSpec => []AnswerIsTrue
<1>1. StoreInv => AnswerIsTrue
  BY DEF StoreInv
<1> QED
  BY <1>1, StoreInvInit, StoreInvNext, PTL DEF StoreSpec

\* The store's variables keep their types.
THEOREM StoreTypes == StoreSpec => []TypeOK
<1>1. StoreInv => TypeOK
  BY DEF StoreInv
<1> QED
  BY <1>1, StoreInvInit, StoreInvNext, PTL DEF StoreSpec

\* Each event is in the stream once for each relay at most, but for the publishes whose
\* mark an interruption prevented (relay.py:7-8), and those add up to one entry for each
\* interruption over any set of events; for any number of relays.
THEOREM OnlyInterruptedRepublishedAlways == StoreSpec => []OnlyInterruptedRepublished
<1>1. StoreInit => StoreInv /\ EntriesAccounted
  BY StoreInvInit, AccountedInit
<1>2. StoreInv /\ EntriesAccounted /\ [StoreNext]_vars => (StoreInv /\ EntriesAccounted)'
  BY StoreInvNext, AccountedNext
<1> QED
  BY <1>1, <1>2, AccountedBounds, PTL DEF StoreSpec

\* The tables, the outbox and the relays implement the hand-over: an event is stored
\* once and for good, and the stream carries stored events as they were stored.
THEOREM ImplementsHandoverAlways == StoreSpec => ImplementsHandover
<1>1. StoreInit => Handover!Init
  BY DEF StoreInit, Init, Handover!Init
<1>2. StoreInv /\ [StoreNext]_vars => [Handover!Next]_<<events, stream>>
  <2> SUFFICES ASSUME StoreInv, [StoreNext]_vars
               PROVE  Handover!Next \/ UNCHANGED <<events, stream>>
    OBVIOUS
  <2>1. ASSUME NEW w \in Writers, Commit(w) PROVE Handover!Next
    <3>1. writer[w] \in Call /\ w \in Open
      BY <2>1 DEF Commit, Writing, StoreInv, TypeOK, Idle, Open
    <3>2. /\ writer[w].event_id \in EventIds /\ writer[w].payload \in Contents
          /\ writer[w].event_id \notin DOMAIN events
      BY <3>1 DEF Call, StoreInv, KeysHeld
    <3>3. Handover!Store(writer[w].event_id, writer[w].payload)
      BY <2>1, <3>2 DEF Commit, Handover!Store
    <3> QED
      BY <3>2, <3>3 DEF Handover!Next, Handover!Contents, Contents
  <2>2. ASSUME NEW i \in DOMAIN outbox, stream' = Added(i), UNCHANGED events
        PROVE  Handover!Next
    <3>1. /\ outbox[i].event_id \in DOMAIN events /\ outbox[i].event_id \in EventIds
          /\ outbox[i].payload = events[outbox[i].event_id]
      BY DEF StoreInv, StoredTogether, TypeOK, OutboxRow
    <3>2. Handover!Deliver(outbox[i].event_id)
      BY <2>2, <3>1 DEF Handover!Deliver, Handover!Fields, Added, Fields
    <3> QED
      BY <3>1, <3>2 DEF Handover!Next
  <2>3. ASSUME NEW r \in Relays, Publish(r) \/ PublishFails(r)
        PROVE  Handover!Next \/ UNCHANGED <<events, stream>>
    <3>1. relay[r].batch \subseteq DOMAIN outbox
      BY <2>3 DEF Publish, PublishFails, StoreInv, BatchesKnown
    <3>2. UNCHANGED events /\ (UNCHANGED stream \/ \E i \in relay[r].batch : stream' = Added(i))
      BY <2>3 DEF Publish, PublishFails
    <3> QED
      BY <2>2, <3>1, <3>2
  <2>4. ASSUME NEW w \in Writers,
               \/ WriteEvent(w) \/ Select(w) \/ InsertEvent(w) \/ InsertOutbox(w)
               \/ Answer(w) \/ WriterCrash(w)
        PROVE  UNCHANGED <<events, stream>>
    BY <2>4 DEF WriteEvent, Select, InsertEvent, InsertOutbox, Answer, WriterCrash
  <2>5. ASSUME NEW r \in Relays, ReadBatch(r) \/ MarkPublished(r) \/ RelayCrash(r)
        PROVE  UNCHANGED <<events, stream>>
    BY <2>5 DEF ReadBatch, MarkPublished, RelayCrash
  <2>6. CASE UNCHANGED vars
    BY <2>6 DEF vars
  <2> QED
    BY <2>1, <2>3, <2>4, <2>5, <2>6 DEF StoreNext, WriterStep, RelayStep
<1> QED
  BY <1>1, <1>2, StoreInvInit, StoreInvNext, PTL DEF StoreSpec, ImplementsHandover, Handover!Spec

=============================================================================
