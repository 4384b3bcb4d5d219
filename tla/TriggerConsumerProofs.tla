------------------------ MODULE TriggerConsumerProofs ------------------------
(***************************************************************************)
(* What the consumer promises of every stream, batch, rule set and number  *)
(* of restarts: an event is acted on once in a life of the process, an     *)
(* event without a decision is never without a trace, a decision has all   *)
(* its effects, and the engine's caps hold across redelivery.              *)
(***************************************************************************)
EXTENDS TriggerConsumer, EngagementLedgerProofs, SequenceTheorems

-----------------------------------------------------------------------------
(* Types, and what the group has handed out *)

InHand == {consumer.batch[k] : k \in DOMAIN consumer.batch}

\* The last entry handed out, so that the new ones are all those behind it.
HasLast ==
    \E h \in 0..Len(stream) :
        /\ \A i \in handed : i <= h
        /\ h = 0 \/ h \in handed

\* The batch in hand has no entry twice.
BatchOK ==
    /\ consumer.pc # "idle" => consumer.batch # <<>>
    /\ \A k, l \in DOMAIN consumer.batch : k # l => consumer.batch[k] # consumer.batch[l]
    /\ consumer.reservation \subseteq DOMAIN ledger

TypeInv == TypeOK /\ HasLast /\ BatchOK

LEMMA InHandIsTyped == ASSUME TypeInv PROVE InHand \subseteq pel
BY DEF TypeInv, TypeOK, InHand

LEMMA CurrentType ==
    ASSUME TypeInv, consumer.pc # "idle"
    PROVE  /\ Current \in InHand /\ Current \in pel /\ Current \in DOMAIN stream
           /\ Event \in Events /\ Event = stream[Current]
           /\ consumer.batch \in Seq(1..MaxEntries) /\ Len(consumer.batch) \in Nat \ {0}
<1>1. consumer.batch \in Seq(1..MaxEntries) /\ consumer.batch # <<>>
  BY DEF TypeInv, TypeOK, BatchOK, Call
<1>2. Len(consumer.batch) \in Nat \ {0} /\ 1 \in DOMAIN consumer.batch
  BY <1>1
<1>3. Current = consumer.batch[1]
  BY <1>1 DEF Current
<1>4. Current \in InHand
  BY <1>2, <1>3 DEF InHand
<1>5. Current \in pel /\ Current \in DOMAIN stream
  <2>1. Current \in pel
    BY <1>4, InHandIsTyped
  <2>2. pel \subseteq 1..Len(stream) /\ DOMAIN stream = 1..Len(stream)
    BY DEF TypeInv, TypeOK
  <2> QED
    BY <2>1, <2>2
<1>6. Event \in Events /\ Event = stream[Current]
  BY <1>5 DEF Event, TypeInv, TypeOK
<1> QED
  BY <1>1, <1>2, <1>4, <1>5, <1>6

\* The entries ReadBatch takes are new ones, in order, and at least one.
LEMMA NextBatchIsNew ==
    ASSUME ConsumerAssumption, TypeInv, NewEntries # {}
    PROVE  /\ NextBatch \in Seq(1..MaxEntries) /\ NextBatch # <<>>
           /\ \A k \in DOMAIN NextBatch : NextBatch[k] \in 1..Len(stream) \ handed
           /\ \A k, l \in DOMAIN NextBatch : k # l => NextBatch[k] # NextBatch[l]
           /\ \E last \in 1..Len(stream) :
                 /\ \E k \in DOMAIN NextBatch : NextBatch[k] = last
                 /\ \A i \in handed : i <= last
                 /\ \A k \in DOMAIN NextBatch : NextBatch[k] <= last
<1>1. PICK h \in 0..Len(stream) : (\A i \in handed : i <= h) /\ (h = 0 \/ h \in handed)
  BY DEF TypeInv, HasLast
<1>2. /\ Len(stream) \in Nat /\ trimmed \in 0..Len(stream) /\ handed \subseteq 1..Len(stream)
      /\ Len(stream) <= MaxEntries /\ MaxEntries \in Nat /\ Batch \in Nat \ {0}
  BY DEF TypeInv, TypeOK, ConsumerAssumption
<1>3. PICK m \in 0..Len(stream) : m = IF trimmed < h THEN h ELSE trimmed
  BY <1>2
<1>4. NewEntries = (m + 1)..Len(stream)
  BY <1>1, <1>2, <1>3 DEF NewEntries
<1>5. m < Len(stream)
  BY <1>2, <1>3, <1>4
<1>6. Cardinality((m + 1)..Len(stream)) = Len(stream) - m
  <2>1. m + 1 \in Int /\ Len(stream) \in Int /\ ~(m + 1 > Len(stream))
    BY <1>2, <1>3, <1>5
  <2>2. Cardinality((m + 1)..Len(stream)) = Len(stream) - (m + 1) + 1
    BY <2>1, FS_Interval
  <2> QED
    BY <1>2, <1>3, <2>2
<1>7. Cardinality(NewEntries) = Len(stream) - m
  BY <1>4, <1>6
<1>8. PICK n \in 1..(Len(stream) - m) : n = IF Len(stream) - m < Batch THEN Len(stream) - m ELSE Batch
  <2>1. Len(stream) - m \in 1..(Len(stream) - m)
    BY <1>2, <1>3, <1>5
  <2>2. ~(Len(stream) - m < Batch) => Batch \in 1..(Len(stream) - m)
    BY <1>2, <1>3, <1>5
  <2> QED
    BY <2>1, <2>2
<1>9. NextBatch = [k \in 1..n |-> Len(stream) - (Len(stream) - m) + k]
  BY <1>7, <1>8 DEF NextBatch
<1>10. /\ DOMAIN NextBatch = 1..n
       /\ \A k \in 1..n : NextBatch[k] = m + k
  BY <1>2, <1>3, <1>8, <1>9
<1>11. \A k \in 1..n : m + k \in 1..Len(stream) /\ m + k \notin handed
  BY <1>1, <1>2, <1>3, <1>8
<1>12. NextBatch \in Seq(1..MaxEntries)
  <2>1. \A k \in 1..n : m + k \in 1..MaxEntries
    BY <1>2, <1>11
  <2>2. NextBatch \in [1..n -> 1..MaxEntries]
    BY <1>9, <1>10, <2>1
  <2> QED
    BY <1>8, <2>2
<1>13. NextBatch # <<>>
  BY <1>8, <1>10
<1>14. \A k, l \in DOMAIN NextBatch : k # l => NextBatch[k] # NextBatch[l]
  <2> SUFFICES ASSUME NEW k \in 1..n, NEW l \in 1..n, k # l
               PROVE  NextBatch[k] # NextBatch[l]
    BY <1>10
  <2>1. m \in Int /\ k \in Int /\ l \in Int
    BY <1>2, <1>3
  <2>2. m + k # m + l
    BY <2>1
  <2> QED
    BY <1>10, <2>2
<1>15. /\ m + n \in 1..Len(stream) /\ n \in DOMAIN NextBatch /\ NextBatch[n] = m + n
       /\ \A i \in handed : i <= m + n
       /\ \A k \in DOMAIN NextBatch : NextBatch[k] <= m + n
  <2>1. n \in 1..n /\ m \in Nat /\ n \in Nat
    BY <1>2, <1>3, <1>8
  <2>2. m + n \in 1..Len(stream) /\ n \in DOMAIN NextBatch /\ NextBatch[n] = m + n
    BY <1>10, <1>11, <2>1
  <2>3. \A i \in handed : i <= m + n
    BY <1>1, <1>2, <1>3, <2>1
  <2>4. \A k \in DOMAIN NextBatch : NextBatch[k] <= m + n
    BY <1>10, <2>1
  <2> QED
    BY <2>2, <2>3, <2>4
<1>16. \A k \in DOMAIN NextBatch : NextBatch[k] \in 1..Len(stream) \ handed
  BY <1>10, <1>11
<1>17. \E last \in 1..Len(stream) :
          /\ \E k \in DOMAIN NextBatch : NextBatch[k] = last
          /\ \A i \in handed : i <= last
          /\ \A k \in DOMAIN NextBatch : NextBatch[k] <= last
  <2>1. \E k \in DOMAIN NextBatch : NextBatch[k] = m + n
    BY <1>15
  <2> QED
    BY <1>15, <2>1
<1> QED
  BY <1>12, <1>13, <1>14, <1>16, <1>17

LEMMA TypeInvInit == ASSUME ConsumerAssumption, Init PROVE TypeInv
<1>1. LedgerType
  BY CapInit DEF Init, CapInv
<1>2. consumer = Idle /\ Idle \in Call
  BY DEF Init, Idle, Call
<1>3. TypeOK
  BY <1>1, <1>2 DEF TypeOK, Init, Idle, ConsumerAssumption
<1>4. HasLast /\ BatchOK
  BY <1>2 DEF HasLast, BatchOK, Init, Idle
<1> QED
  BY <1>3, <1>4 DEF TypeInv

LEMMA CallParts ==
    ASSUME TypeInv, consumer.pc # "idle"
    PROVE  /\ consumer \in Call /\ consumer.batch # <<>>
           /\ consumer.reservation \subseteq DOMAIN ledger
BY DEF TypeInv, TypeOK, BatchOK

\* A step that only moves on within the call, or changes the sinks.
LEMMA MovedType ==
    ASSUME TypeInv, UNCHANGED <<ledger, stream, trimmed, handed, pel, crashes>>,
           NEW q, consumer' = q, q \in Call, q.batch = consumer.batch, consumer.batch # <<>>,
           q.reservation \subseteq DOMAIN ledger,
           seen' \subseteq Events, deferred' \in [Events \X Triggers -> Nat],
           fires' \subseteq [event : Events, reservation : DOMAIN ledger, trigger : Triggers],
           suppressed' \subseteq Events, evaluated' \subseteq Events, failures' = failures
    PROVE  TypeInv'
BY DEF TypeInv, TypeOK, LedgerType, HasLast, BatchOK

\* A step after which nothing is in hand.
LEMMA StoppedType ==
    ASSUME TypeInv, UNCHANGED <<ledger, stream, trimmed, handed, pel, sinks, evaluated>>,
           consumer' = Idle, seen' \subseteq Events,
           crashes' \in 0..MaxCrashes, failures' \in 0..MaxFailures
    PROVE  TypeInv'
<1>1. Idle \in Call /\ Idle.batch = <<>> /\ Idle.pc = "idle" /\ Idle.reservation = {}
  BY DEF Idle, Call
<1> QED
  BY <1>1 DEF TypeInv, TypeOK, LedgerType, HasLast, BatchOK, sinks
-----------------------------------------------------------------------------
(* Every step keeps the types *)

LEMMA PublishType ==
    ASSUME ConsumerAssumption, TypeInv, Publish
    PROVE  TypeInv'
<1>1. PICK e \in Events, n \in trimmed..MaxEntries :
         /\ Len(stream) < MaxEntries
         /\ stream' = Append(stream, e)
         /\ n = trimmed \/ n <= Len(stream') - MaxLen
         /\ trimmed' = n
  BY DEF Publish
<1>2. UNCHANGED <<ledger, handed, pel, seen, consumer, sinks, evaluated, crashes, failures>>
  BY DEF Publish, group
<1>3. stream \in Seq(Events) /\ Len(stream) \in Nat /\ trimmed \in 0..Len(stream)
  BY DEF TypeInv, TypeOK
<1>4. /\ stream' \in Seq(Events) /\ Len(stream') = Len(stream) + 1
      /\ Len(stream') <= MaxEntries
  BY <1>1, <1>3 DEF ConsumerAssumption
<1>5. trimmed' \in 0..Len(stream')
  BY <1>1, <1>3, <1>4 DEF ConsumerAssumption
<1>6. handed' \subseteq 1..Len(stream')
  BY <1>2, <1>3, <1>4 DEF TypeInv, TypeOK
<1>7. TypeOK'
  BY <1>2, <1>4, <1>5, <1>6 DEF TypeInv, TypeOK, LedgerType, sinks
<1>8. HasLast'
  BY <1>2, <1>3, <1>4 DEF TypeInv, HasLast
<1>9. BatchOK'
  BY <1>2 DEF TypeInv, BatchOK
<1> QED
  BY <1>7, <1>8, <1>9 DEF TypeInv

LEMMA ReadType ==
    ASSUME ConsumerAssumption, TypeInv, ReadBatch
    PROVE  TypeInv'
<1>1. PICK b : b = NextBatch
  OBVIOUS
<1>2. PICK q : q = [Idle EXCEPT !.pc = "guard", !.batch = b]
  OBVIOUS
<1>3. /\ b \in Seq(1..MaxEntries) /\ b # <<>>
      /\ \A k \in DOMAIN b : b[k] \in 1..Len(stream) \ handed
      /\ \A k, l \in DOMAIN b : k # l => b[k] # b[l]
  BY <1>1, NextBatchIsNew DEF ReadBatch
<1>4. PICK last \in 1..Len(stream) :
         /\ \E k \in DOMAIN b : b[k] = last
         /\ \A i \in handed : i <= last
         /\ \A k \in DOMAIN b : b[k] <= last
  BY <1>1, NextBatchIsNew DEF ReadBatch
<1>5. PICK entries : entries = {b[k] : k \in DOMAIN b}
  OBVIOUS
<1>6. /\ handed' = handed \cup entries /\ pel' = pel \cup entries /\ consumer' = q
      /\ UNCHANGED <<ledger, stream, trimmed, seen, sinks, evaluated, crashes, failures>>
  BY <1>1, <1>2, <1>5 DEF ReadBatch
<1>7. entries \subseteq 1..Len(stream)
  BY <1>3, <1>5
<1>8. /\ q \in Call /\ q.pc = "guard" /\ q.batch = b /\ q.reservation = {}
  BY <1>2, <1>3 DEF Idle, Call
<1>9. {b[k] : k \in DOMAIN b} \subseteq pel'
  BY <1>5, <1>6
<1>10. TypeOK'
  BY <1>6, <1>7, <1>8, <1>9 DEF TypeInv, TypeOK, LedgerType, sinks
<1>11. HasLast'
  <2>1. last \in entries /\ \A i \in entries : i <= last
    BY <1>4, <1>5
  <2> QED
    BY <1>4, <1>6, <2>1 DEF HasLast, TypeInv, TypeOK
<1>12. BatchOK'
  BY <1>3, <1>6, <1>8 DEF BatchOK
<1> QED
  BY <1>10, <1>11, <1>12 DEF TypeInv

\* What is left of the batch when its first entry is done.
LEMMA RestOfBatch ==
    ASSUME TypeInv, consumer.batch # <<>>
    PROVE  LET b == consumer.batch
           IN  /\ Tail(b) \in Seq(1..MaxEntries)
               /\ \A k \in DOMAIN Tail(b) : Tail(b)[k] \in InHand \ {Current}
               /\ \A k, l \in DOMAIN Tail(b) : k # l => Tail(b)[k] # Tail(b)[l]
               /\ Len(b) # 1 => Tail(b) # <<>>
<1>0. PICK b : b = consumer.batch
  OBVIOUS
<1>1. b \in Seq(1..MaxEntries) /\ Len(b) \in Nat \ {0}
  BY <1>0 DEF TypeInv, TypeOK, Call
<1>2. \A k, l \in 1..Len(b) : k # l => b[k] # b[l]
  BY <1>0, <1>1 DEF TypeInv, BatchOK
<1>3. /\ Tail(b) \in Seq(1..MaxEntries) /\ DOMAIN Tail(b) = 1..(Len(b) - 1)
      /\ Len(Tail(b)) = Len(b) - 1
      /\ \A k \in 1..(Len(b) - 1) : Tail(b)[k] = b[k + 1]
  <2>1. /\ Tail(b) \in Seq(1..MaxEntries) /\ Len(Tail(b)) = Len(b) - 1
        /\ \A k \in 1..Len(Tail(b)) : Tail(b)[k] = b[k + 1]
    BY <1>1, HeadTailProperties
  <2>2. DOMAIN Tail(b) = 1..Len(Tail(b))
    BY <2>1
  <2> QED
    BY <2>1, <2>2
<1>4. Current = b[1] /\ InHand = {b[k] : k \in 1..Len(b)}
  BY <1>0, <1>1 DEF Current, InHand
<1>5. ASSUME NEW k \in DOMAIN Tail(b) PROVE Tail(b)[k] \in InHand \ {Current}
  <2>1. k + 1 \in 1..Len(b) /\ k + 1 # 1 /\ 1 \in 1..Len(b)
    BY <1>1, <1>3
  <2>2. b[k + 1] # b[1]
    BY <1>2, <2>1
  <2> QED
    BY <1>3, <1>4, <2>1, <2>2
<1>6. ASSUME NEW k \in DOMAIN Tail(b), NEW l \in DOMAIN Tail(b), k # l
      PROVE  Tail(b)[k] # Tail(b)[l]
  <2>1. k + 1 \in 1..Len(b) /\ l + 1 \in 1..Len(b) /\ k + 1 # l + 1
    BY <1>1, <1>3, <1>6
  <2> QED
    BY <1>2, <1>3, <2>1
<1>7. ASSUME Len(b) # 1 PROVE Tail(b) # <<>>
  <2>1. Len(Tail(b)) # 0 /\ Len(<<>>) = 0
    BY <1>1, <1>3, <1>7
  <2> QED
    BY <2>1
<1> QED
  BY <1>0, <1>3, <1>5, <1>6, <1>7

LEMMA AckType ==
    ASSUME TypeInv, Ack
    PROVE  TypeInv'
<1>1. consumer.pc # "idle" /\ consumer.batch # <<>>
  BY DEF Ack, At, TypeInv, BatchOK
<1>2. PICK b : b = consumer.batch /\ b # <<>>
  BY <1>1
<1>3. /\ pel' = pel \ {Current}
      /\ consumer' = IF Len(b) = 1 THEN Idle ELSE [Idle EXCEPT !.pc = "guard", !.batch = Tail(b)]
      /\ UNCHANGED <<ledger, stream, trimmed, handed, seen, sinks, evaluated, crashes, failures>>
  BY <1>2 DEF Ack
<1>4. CASE Len(b) = 1
  <2>1. consumer' = Idle /\ Idle \in Call /\ Idle.batch = <<>> /\ Idle.pc = "idle"
        /\ Idle.reservation = {} /\ DOMAIN Idle.batch = {}
    BY <1>3, <1>4 DEF Idle, Call
  <2>2. TypeOK'
    BY <1>3, <2>1 DEF TypeInv, TypeOK, LedgerType, sinks
  <2>3. HasLast' /\ BatchOK'
    BY <1>3, <2>1 DEF TypeInv, HasLast, BatchOK
  <2> QED
    BY <2>2, <2>3 DEF TypeInv
<1>5. CASE Len(b) # 1
  <2>1. /\ Tail(b) \in Seq(1..MaxEntries)
        /\ \A k \in DOMAIN Tail(b) : Tail(b)[k] \in InHand \ {Current}
        /\ \A k, l \in DOMAIN Tail(b) : k # l => Tail(b)[k] # Tail(b)[l]
        /\ Tail(b) # <<>>
    <3>1. /\ Tail(b) \in Seq(1..MaxEntries)
          /\ \A k \in DOMAIN Tail(b) : Tail(b)[k] \in InHand \ {Current}
          /\ \A k, l \in DOMAIN Tail(b) : k # l => Tail(b)[k] # Tail(b)[l]
          /\ Len(b) # 1 => Tail(b) # <<>>
      BY <1>2, RestOfBatch
    <3> QED
      BY <1>5, <3>1
  <2>2. PICK q : q = [Idle EXCEPT !.pc = "guard", !.batch = Tail(b)]
    OBVIOUS
  <2>3. /\ consumer' = q /\ q \in Call /\ q.batch = Tail(b) /\ q.pc = "guard"
        /\ q.reservation = {}
    BY <1>3, <1>5, <2>1, <2>2 DEF Idle, Call
  <2>4. \A k \in DOMAIN q.batch : q.batch[k] \in pel'
    BY <1>3, <2>1, <2>3, InHandIsTyped
  <2>5. TypeOK'
    BY <1>3, <2>3, <2>4 DEF TypeInv, TypeOK, LedgerType, sinks
  <2>6. HasLast' /\ BatchOK'
    BY <1>3, <2>1, <2>3 DEF TypeInv, HasLast, BatchOK
  <2> QED
    BY <2>5, <2>6 DEF TypeInv
<1> QED
  BY <1>4, <1>5
LEMMA GuardType ==
    ASSUME TypeInv, Duplicate \/ Match \/ MatchFails
    PROVE  TypeInv'
<1>1. consumer.pc = "guard"
  BY DEF Duplicate, Match, MatchFails, At
<1>2. /\ consumer \in Call /\ consumer.batch # <<>> /\ consumer.reservation \subseteq DOMAIN ledger
      /\ Event \in Events
  BY <1>1, CallParts, CurrentType
<1>3. /\ UNCHANGED <<ledger, stream, trimmed, handed, pel, deferred, fires, suppressed, evaluated,
                      crashes, failures>>
      /\ seen' \subseteq Events
  BY <1>2 DEF Duplicate, Match, MatchFails, group, sinks, TypeInv, TypeOK
<1>4. CASE MatchFails
  <2>1. consumer' = Idle
    BY <1>4 DEF MatchFails
  <2>2. crashes' \in 0..MaxCrashes /\ failures' \in 0..MaxFailures
    BY <1>3 DEF TypeInv, TypeOK
  <2> QED
    BY <1>3, <2>1, <2>2, StoppedType DEF sinks
<1>5. CASE Duplicate \/ Match
  <2>1. Deferred(Event) \subseteq Triggers
    BY ConsumerAssumption DEF Deferred, MatchingRules, ConsumerAssumption
  <2>2. PICK q : /\ consumer' = q
                 /\ \/ q = [consumer EXCEPT !.pc = "ack"]
                    \/ q = [consumer EXCEPT !.pc = "defer", !.todo = Deferred(Event)]
    BY <1>5 DEF Duplicate, Match, Goto
  <2>3. /\ q \in Call /\ q.batch = consumer.batch
        /\ q.reservation \subseteq DOMAIN ledger
    BY <1>2, <2>1, <2>2 DEF Call
  <2> QED
    BY <1>2, <1>3, <2>2, <2>3, MovedType DEF TypeInv, TypeOK
<1> QED
  BY <1>4, <1>5

LEMMA DeferType ==
    ASSUME TypeInv, Defer \/ Deferring
    PROVE  TypeInv'
<1>1. consumer.pc = "defer"
  BY DEF Defer, Deferring, At
<1>2. /\ consumer \in Call /\ consumer.batch # <<>> /\ consumer.reservation \subseteq DOMAIN ledger
      /\ Event \in Events
  BY <1>1, CallParts, CurrentType
<1>3. UNCHANGED <<ledger, stream, trimmed, handed, pel, seen, fires, suppressed, evaluated,
                  crashes, failures>>
  BY DEF Defer, Deferring, group, sinks
<1>4. PICK q : /\ consumer' = q
               /\ \/ \E pc \in {"reserve", "return"} : q = [consumer EXCEPT !.pc = pc]
                  \/ \E t \in consumer.todo : q = [consumer EXCEPT !.todo = consumer.todo \ {t}]
  BY DEF Defer, Deferring, Goto
<1>5. q \in Call /\ q.batch = consumer.batch /\ q.reservation \subseteq DOMAIN ledger
  BY <1>2, <1>4 DEF Call
<1>6. deferred' \in [Events \X Triggers -> Nat]
  <2>1. CASE Deferring
    BY <2>1 DEF Deferring, sinks, TypeInv, TypeOK
  <2>2. CASE Defer
    <3>1. PICK t \in consumer.todo : deferred' = [deferred EXCEPT ![<<Event, t>>] = @ + 1]
      BY <2>2 DEF Defer
    <3>2. t \in Triggers /\ <<Event, t>> \in Events \X Triggers
      BY <1>2 DEF Call
    <3> QED
      BY <3>1, <3>2 DEF TypeInv, TypeOK
  <2> QED
    BY <2>1, <2>2
<1> QED
  BY <1>2, <1>3, <1>4, <1>5, <1>6, MovedType DEF TypeInv, TypeOK

\* What reserve() approves is a match of the event, and a new row for its customer.
LEMMA ApprovedMatch ==
    ASSUME TypeInv, Reserve, consumer'.pc = "emit"
    PROVE  \E t \in InSession(Event), r \in ResIds \ DOMAIN ledger :
              LET c == EventOf[Event].customer  now == EventOf[Event].occurred_at
              IN  /\ InsertRow(r, c, t, now)
                  /\ ~InCooldown(c, now)
                  /\ \A cap \in GlobalCap : WouldFire(CountedRows(c), now, cap)
                  /\ WouldFire(CountedRowsOf(c, t), now, TriggerCap[t])
                  /\ consumer' = [consumer EXCEPT !.pc = "emit", !.reservation = {r}]
<1>1. consumer.pc = "reserve" /\ consumer \in Call
  BY DEF Reserve, At, TypeInv, TypeOK
<1>2. PICK cs : cs = Candidates(Event)
  OBVIOUS
<1>3. PICK w \in cs, r \in FreshIds :
         /\ Approved(EventOf[Event].customer, cs, EventOf[Event].occurred_at, w, r)
         /\ consumer' = [consumer EXCEPT !.pc = "emit", !.reservation = {r}]
  <2>1. ASSUME Goto("record") PROVE FALSE
    BY <1>1, <2>1 DEF Goto, Call
  <2> QED
    BY <1>2, <2>1 DEF Reserve
<1>4. w.trigger \in InSession(Event)
  BY <1>2, <1>3 DEF Candidates
<1>5. r \in ResIds \ DOMAIN ledger
  BY <1>3 DEF FreshIds
<1>6. /\ ~Refused(EventOf[Event].customer, cs, EventOf[Event].occurred_at)
      /\ w \in Eligible(EventOf[Event].customer, cs, EventOf[Event].occurred_at)
      /\ InsertRow(r, EventOf[Event].customer, w.trigger, EventOf[Event].occurred_at)
  BY <1>3 DEF Approved, IsWinner
<1>7. /\ ~InCooldown(EventOf[Event].customer, EventOf[Event].occurred_at)
      /\ \A cap \in GlobalCap :
            WouldFire(CountedRows(EventOf[Event].customer), EventOf[Event].occurred_at, cap)
      /\ WouldFire(CountedRowsOf(EventOf[Event].customer, w.trigger),
                   EventOf[Event].occurred_at, TriggerCap[w.trigger])
  BY <1>6 DEF Refused, Eligible
<1> QED
  BY <1>3, <1>4, <1>5, <1>6, <1>7

LEMMA ReserveDecides ==
    ASSUME TypeInv, Reserve
    PROVE  (Goto("record") /\ UNCHANGED ledger) \/ consumer'.pc = "emit"
<1> SUFFICES ASSUME ~(Goto("record") /\ UNCHANGED ledger) PROVE consumer'.pc = "emit"
  OBVIOUS
<1>1. PICK r : consumer' = [consumer EXCEPT !.pc = "emit", !.reservation = {r}]
  BY DEF Reserve
<1> QED
  BY <1>1 DEF TypeInv, TypeOK, Call
\* Matches are triggers, and an event's customer and time are what the ledger takes.
LEMMA EventParts ==
    ASSUME NEW e \in Events
    PROVE  /\ InSession(e) \subseteq Triggers /\ Deferred(e) \subseteq Triggers
           /\ EventOf[e].customer \in Customers /\ EventOf[e].occurred_at \in Times
BY ConsumerAssumption DEF ConsumerAssumption, InSession, Deferred, MatchingRules

LEMMA ReserveType ==
    ASSUME TypeInv, Reserve
    PROVE  TypeInv'
<1>1. consumer.pc = "reserve"
  BY DEF Reserve, At
<1>2. /\ consumer \in Call /\ consumer.batch # <<>> /\ consumer.reservation \subseteq DOMAIN ledger
      /\ Event \in Events
  BY <1>1, CallParts, CurrentType
<1>3. UNCHANGED <<stream, trimmed, handed, pel, seen, deferred, fires, suppressed, evaluated,
                  crashes, failures>>
  BY DEF Reserve, group, sinks
<1>4. CASE Goto("record") /\ UNCHANGED ledger
  <2>1. PICK q : q = [consumer EXCEPT !.pc = "record"]
    OBVIOUS
  <2>2. /\ consumer' = q /\ q \in Call /\ q.batch = consumer.batch
        /\ q.reservation \subseteq DOMAIN ledger
    BY <1>2, <1>4, <2>1 DEF Goto, Call
  <2> QED
    BY <1>2, <1>3, <1>4, <2>2, MovedType DEF TypeInv, TypeOK
<1>5. CASE consumer'.pc = "emit"
  <2>1. PICK t \in InSession(Event), r \in ResIds \ DOMAIN ledger :
          /\ InsertRow(r, EventOf[Event].customer, t, EventOf[Event].occurred_at)
          /\ consumer' = [consumer EXCEPT !.pc = "emit", !.reservation = {r}]
    BY <1>5, ApprovedMatch
  <2>2. PICK q : q = [consumer EXCEPT !.pc = "emit", !.reservation = {r}]
    OBVIOUS
  <2>3. /\ t \in Triggers /\ EventOf[Event].customer \in Customers
        /\ EventOf[Event].occurred_at \in Times /\ LedgerType
    BY <1>2, EventParts DEF TypeInv, TypeOK
  <2>4. LedgerType'
    BY <2>1, <2>3, InsertedRows
  <2>5. DOMAIN ledger' = DOMAIN ledger \cup {r}
    BY <2>1 DEF InsertRow
  <2>6. /\ consumer' = q /\ q \in Call /\ q.batch = consumer.batch /\ q.reservation = {r}
    BY <1>2, <2>1, <2>2 DEF Call
  <2>7. TypeOK'
    BY <1>2, <1>3, <2>4, <2>5, <2>6 DEF TypeInv, TypeOK
  <2>8. HasLast' /\ BatchOK'
    BY <1>2, <1>3, <2>5, <2>6 DEF TypeInv, HasLast, BatchOK
  <2> QED
    BY <2>7, <2>8 DEF TypeInv
<1> QED
  BY <1>4, <1>5, ReserveDecides

LEMMA SendType ==
    ASSUME TypeInv, Emit \/ RecordSuppression \/ Return
    PROVE  TypeInv'
<1>1. consumer.pc # "idle"
  BY DEF Emit, RecordSuppression, Return, At
<1>2. /\ consumer \in Call /\ consumer.batch # <<>> /\ consumer.reservation \subseteq DOMAIN ledger
      /\ Event \in Events
  BY <1>1, CallParts, CurrentType
<1>3. UNCHANGED <<ledger, stream, trimmed, handed, pel, seen, deferred, crashes, failures>>
  BY DEF Emit, RecordSuppression, Return, group, sinks
<1>4. PICK q : /\ consumer' = q
               /\ \E pc \in {"return", "ack"} : q = [consumer EXCEPT !.pc = pc]
  BY DEF Emit, RecordSuppression, Return, Goto
<1>5. q \in Call /\ q.batch = consumer.batch /\ q.reservation \subseteq DOMAIN ledger
  BY <1>2, <1>4 DEF Call
<1>6. suppressed' \subseteq Events /\ evaluated' \subseteq Events
  BY <1>2 DEF Emit, RecordSuppression, Return, sinks, TypeInv, TypeOK
<1>7. fires' \subseteq [event : Events, reservation : DOMAIN ledger, trigger : Triggers]
  <2>1. CASE fires' = fires
    BY <2>1 DEF TypeInv, TypeOK
  <2>2. CASE Emit
    <3>1. fires' = fires \cup {[event |-> Event, reservation |-> r, trigger |-> ledger[r].trigger] :
                                 r \in consumer.reservation}
      BY <2>2 DEF Emit
    <3>2. \A r \in consumer.reservation : r \in DOMAIN ledger /\ ledger[r].trigger \in Triggers
      BY <1>2 DEF TypeInv, TypeOK, LedgerType, Row
    <3> QED
      BY <1>2, <3>1, <3>2 DEF TypeInv, TypeOK
  <2> QED
    BY <2>1, <2>2 DEF RecordSuppression, Return, sinks
<1> QED
  BY <1>2, <1>3, <1>4, <1>5, <1>6, <1>7, MovedType DEF TypeInv, TypeOK

LEMMA StopType ==
    ASSUME TypeInv, Fail \/ Crash
    PROVE  TypeInv'
<1>1. crashes' \in 0..MaxCrashes /\ failures' \in 0..MaxFailures
  BY ConsumerAssumption DEF Fail, Crash, TypeInv, TypeOK, ConsumerAssumption
<1>2. /\ UNCHANGED <<ledger, stream, trimmed, handed, pel, sinks, evaluated>>
      /\ consumer' = Idle /\ seen' \subseteq Events
  BY DEF Fail, Crash, TypeInv, TypeOK, group
<1> QED
  BY <1>1, <1>2, StoppedType

LEMMA SettleType ==
    ASSUME TypeInv, Settle
    PROVE  TypeInv'
<1>1. PICK m \in fires, status \in {"confirmed", "rolled_back"} :
         SetStatus(m.reservation, status, {"reserved"})
  BY DEF Settle
<1>2. LedgerType' /\ DOMAIN ledger' = DOMAIN ledger
  BY <1>1, SettledRows DEF TypeInv, TypeOK
<1>3. UNCHANGED <<stream, trimmed, handed, pel, seen, consumer, deferred, fires, suppressed,
                  evaluated, crashes, failures>>
  BY DEF Settle, group, sinks
<1> QED
  BY <1>2, <1>3 DEF TypeInv, TypeOK, HasLast, BatchOK

LEMMA TypeInvNext ==
    ASSUME TypeInv, [Next]_vars
    PROVE  TypeInv'
<1>1. CASE Publish
  BY <1>1, PublishType, ConsumerAssumption
<1>2. CASE ReadBatch
  BY <1>2, ReadType, ConsumerAssumption
<1>3. CASE Duplicate \/ Match \/ MatchFails
  BY <1>3, GuardType
<1>4. CASE Defer \/ Deferring
  BY <1>4, DeferType
<1>5. CASE Reserve
  BY <1>5, ReserveType
<1>6. CASE Emit \/ RecordSuppression \/ Return
  BY <1>6, SendType
<1>7. CASE Ack
  BY <1>7, AckType
<1>8. CASE Fail \/ Crash
  BY <1>8, StopType
<1>9. CASE Settle
  BY <1>9, SettleType
<1>10. CASE ReadNothing \/ UNCHANGED vars
  BY <1>10 DEF ReadNothing, vars, group, sinks, TypeInv, TypeOK, LedgerType, HasLast, BatchOK
<1> QED
  BY <1>1, <1>2, <1>3, <1>4, <1>5, <1>6, <1>7, <1>8, <1>9, <1>10 DEF Next, Step
-----------------------------------------------------------------------------
(* Every event without a decision has a trace *)

\* evaluate() has got past the guard.
Working == {"defer", "reserve", "emit", "record", "return"}

\* An event that the guard knows and that has no decision is in hand, or is still on the
\* pending list under an entry that was given up: acknowledging the batch in hand leaves
\* that one alone.
Interrupted ==
    \A e \in seen \ evaluated :
        \/ consumer.pc \in Working /\ e = Event
        \/ \E j \in pel \ InHand : stream[j] = e

AckOK == consumer.pc = "ack" => Event \in evaluated \cup seen

TraceInv == Interrupted /\ AckOK /\ NothingUntraced

LEMMA SameEvent ==
    ASSUME consumer'.batch = consumer.batch, stream' = stream
    PROVE  Event' = Event /\ InHand' = InHand /\ Current' = Current
BY DEF Event, InHand, Current

LEMMA WorkingTrace ==
    ASSUME TraceInv, UNCHANGED <<stream, handed, pel, seen, evaluated>>,
           consumer'.batch = consumer.batch,
           consumer.pc \in Working, consumer'.pc \in Working
    PROVE  TraceInv'
<1>1. Event' = Event /\ InHand' = InHand
  BY SameEvent
<1>2. Interrupted'
  BY <1>1 DEF TraceInv, Interrupted
<1>3. AckOK' /\ NothingUntraced'
  BY DEF TraceInv, AckOK, NothingUntraced, Working
<1> QED
  BY <1>2, <1>3 DEF TraceInv

\* The call ends on the way, and its entry stays on the pending list.
LEMMA StoppedTrace ==
    ASSUME TypeInv, TraceInv, UNCHANGED <<stream, handed, pel, evaluated>>, consumer' = Idle,
           \/ seen' = {} \/ seen' = seen
           \/ consumer.pc # "idle" /\ seen' = seen \cup {Event}
    PROVE  TraceInv'
<1>1. InHand' = {} /\ Idle.pc = "idle"
  BY DEF InHand, Idle
<1>2. consumer.pc # "idle" => Current \in pel /\ stream[Current] = Event
  BY CurrentType
<1>3. Interrupted'
  <2> SUFFICES ASSUME NEW e \in seen' \ evaluated' PROVE \E j \in pel' : stream'[j] = e
    BY <1>1 DEF Interrupted
  <2>1. CASE consumer.pc # "idle" /\ e = Event
    BY <1>2, <2>1
  <2>2. CASE e \in seen \ evaluated /\ ~(consumer.pc # "idle" /\ e = Event)
    BY <2>2 DEF TraceInv, Interrupted, Working
  <2> QED
    BY <2>1, <2>2
<1>4. AckOK' /\ NothingUntraced'
  BY <1>1 DEF TraceInv, AckOK, NothingUntraced
<1> QED
  BY <1>3, <1>4 DEF TraceInv

\* The stream grows, and the event in hand stays the same.
LEMMA PublishSameEvent ==
    ASSUME TypeInv, Publish, consumer.pc # "idle"
    PROVE  Event' = Event
<1>1. PICK e \in Events : stream' = Append(stream, e)
  BY DEF Publish
<1>2. consumer' = consumer /\ Current' = Current
  BY DEF Publish, Current
<1>3. Current \in DOMAIN stream /\ stream \in Seq(Events)
  BY CurrentType DEF TypeInv, TypeOK
<1>4. stream'[Current] = stream[Current]
  BY <1>1, <1>3
<1> QED
  BY <1>2, <1>4 DEF Event

LEMMA PublishTrace ==
    ASSUME TypeInv, TraceInv, Publish
    PROVE  TraceInv'
<1>1. PICK e \in Events : stream' = Append(stream, e)
  BY DEF Publish
<1>2. UNCHANGED <<handed, pel, seen, consumer, evaluated>>
  BY DEF Publish, group
<1>3. \A i \in handed : stream'[i] = stream[i]
  BY <1>1 DEF TypeInv, TypeOK
<1>4. pel \subseteq handed
  BY DEF TypeInv, TypeOK
<1>5. InHand' = InHand
  BY <1>2 DEF InHand
<1>6. consumer.pc # "idle" => Event' = Event
  BY PublishSameEvent
<1>7. Interrupted'
  BY <1>2, <1>3, <1>4, <1>5, <1>6 DEF TraceInv, Interrupted, Working
<1>8. AckOK' /\ NothingUntraced'
  BY <1>2, <1>3, <1>4, <1>6 DEF TraceInv, AckOK, NothingUntraced
<1> QED
  BY <1>7, <1>8 DEF TraceInv

LEMMA ReadTrace ==
    ASSUME TypeInv, TraceInv, ReadBatch
    PROVE  TraceInv'
<1>1. PICK entries : entries = {NextBatch[k] : k \in DOMAIN NextBatch}
  OBVIOUS
<1>2. /\ consumer.pc = "idle" /\ consumer' = [Idle EXCEPT !.pc = "guard", !.batch = NextBatch]
      /\ handed' = handed \cup entries /\ pel' = pel \cup entries
      /\ UNCHANGED <<stream, seen, evaluated>>
  BY <1>1 DEF ReadBatch, At
<1>3. consumer'.pc = "guard" /\ consumer'.batch = NextBatch
  BY <1>2 DEF Idle
<1>4. InHand' = entries
  BY <1>1, <1>3 DEF InHand
<1>5. entries \cap pel = {}
  BY <1>1, NextBatchIsNew, ConsumerAssumption DEF ReadBatch, TypeInv, TypeOK
<1>6. Interrupted'
  BY <1>2, <1>3, <1>4, <1>5 DEF TraceInv, Interrupted, Working
<1>7. AckOK' /\ NothingUntraced'
  BY <1>2, <1>3 DEF TraceInv, AckOK, NothingUntraced
<1> QED
  BY <1>6, <1>7 DEF TraceInv

LEMMA GuardTrace ==
    ASSUME TypeInv, TraceInv, Duplicate \/ Match
    PROVE  TraceInv'
<1>1. consumer.pc = "guard" /\ consumer \in Call
  BY DEF Duplicate, Match, At, TypeInv, TypeOK
<1>2. UNCHANGED <<stream, handed, pel, evaluated>>
  BY DEF Duplicate, Match, group
<1>3. CASE Duplicate
  <2>1. consumer'.batch = consumer.batch /\ consumer'.pc = "ack" /\ Event \in seen /\ seen' = seen
    BY <1>1, <1>3 DEF Duplicate, Goto, Call
  <2>2. Event' = Event /\ InHand' = InHand
    BY <1>2, <2>1, SameEvent
  <2> QED
    BY <1>1, <1>2, <2>1, <2>2 DEF TraceInv, Interrupted, AckOK, NothingUntraced, Working
<1>4. CASE Match
  <2>1. /\ consumer'.batch = consumer.batch /\ consumer'.pc = "defer"
        /\ seen' = seen \cup {Event}
    BY <1>1, <1>4 DEF Match, Call
  <2>2. Event' = Event /\ InHand' = InHand
    BY <1>2, <2>1, SameEvent
  <2> QED
    BY <1>1, <1>2, <2>1, <2>2 DEF TraceInv, Interrupted, AckOK, NothingUntraced, Working
<1> QED
  BY <1>3, <1>4

LEMMA ReturnTrace ==
    ASSUME TypeInv, TraceInv, Return
    PROVE  TraceInv'
<1>1. /\ consumer.pc = "return" /\ consumer \in Call
      /\ evaluated' = evaluated \cup {Event} /\ UNCHANGED <<stream, handed, pel, seen>>
  BY DEF Return, At, group, TypeInv, TypeOK
<1>2. consumer'.batch = consumer.batch /\ consumer'.pc = "ack"
  BY <1>1 DEF Return, Goto, Call
<1>3. Event' = Event /\ InHand' = InHand
  BY <1>1, <1>2, SameEvent
<1> QED
  BY <1>1, <1>2, <1>3 DEF TraceInv, Interrupted, AckOK, NothingUntraced, Working

\* The entry that goes off the list stands for an event that is decided, or that has
\* another entry there.
LEMMA AckTrace ==
    ASSUME TypeInv, TraceInv, Ack
    PROVE  TraceInv'
<1>1. /\ consumer.pc = "ack" /\ consumer.batch # <<>> /\ pel' = pel \ {Current}
      /\ UNCHANGED <<stream, handed, seen, evaluated>>
  BY DEF Ack, At, TypeInv, BatchOK
<1>2. Current \in InHand /\ Event = stream[Current]
  BY <1>1, CurrentType
<1>3. InHand' \subseteq InHand /\ consumer'.pc \in {"idle", "guard"}
  <2>1. PICK b : b = consumer.batch /\ b # <<>>
    BY <1>1
  <2>2. \A k \in DOMAIN Tail(b) : Tail(b)[k] \in InHand
    BY <2>1, RestOfBatch
  <2>3. consumer' = IF Len(b) = 1 THEN Idle ELSE [Idle EXCEPT !.pc = "guard", !.batch = Tail(b)]
    BY <2>1 DEF Ack
  <2>4. CASE Len(b) = 1
    BY <2>3, <2>4 DEF Idle, InHand
  <2>5. CASE Len(b) # 1
    <3>1. consumer'.batch = Tail(b) /\ consumer'.pc = "guard"
      BY <2>3, <2>5 DEF Idle
    <3>2. InHand' = {Tail(b)[k] : k \in DOMAIN Tail(b)}
      BY <3>1 DEF InHand
    <3> QED
      BY <2>2, <3>1, <3>2
  <2> QED
    BY <2>4, <2>5
<1>4. Interrupted'
  BY <1>1, <1>2, <1>3 DEF TraceInv, Interrupted, Working
<1>5. NothingUntraced'
  <2> SUFFICES ASSUME NEW i \in handed, stream[i] \notin evaluated
               PROVE  \E j \in pel' : stream[j] = stream[i]
    BY <1>1 DEF NothingUntraced
  <2>1. PICK j \in pel : stream[j] = stream[i]
    BY DEF TraceInv, NothingUntraced
  <2>2. CASE j # Current
    BY <1>1, <2>1, <2>2
  <2>3. CASE j = Current
    <3>1. Event \in seen \ evaluated
      BY <1>1, <1>2, <2>1, <2>3 DEF TraceInv, AckOK
    <3>2. PICK x \in pel \ InHand : stream[x] = Event
      BY <1>1, <3>1 DEF TraceInv, Interrupted, Working
    <3> QED
      BY <1>1, <1>2, <2>1, <2>3, <3>2
  <2> QED
    BY <2>2, <2>3
<1>6. AckOK'
  BY <1>3 DEF AckOK
<1> QED
  BY <1>4, <1>5, <1>6 DEF TraceInv

\* Within evaluate(), up to its return.
LEMMA WorkingStep ==
    ASSUME TypeInv, Defer \/ Deferring \/ Reserve \/ Emit \/ RecordSuppression
    PROVE  /\ consumer.pc \in Working /\ consumer'.pc \in Working
           /\ consumer'.batch = consumer.batch
           /\ UNCHANGED <<stream, handed, pel, seen, evaluated, crashes>>
<1>1. consumer \in Call
  BY DEF TypeInv, TypeOK
<1>2. CASE Defer
  BY <1>1, <1>2 DEF Defer, At, Call, Working, group
<1>3. CASE Deferring
  BY <1>1, <1>3 DEF Deferring, At, Goto, Call, Working, group
<1>4. CASE Reserve
  <2>1. consumer.pc = "reserve" /\ UNCHANGED <<stream, handed, pel, seen, evaluated, crashes>>
    BY <1>4 DEF Reserve, At, group
  <2>2. Goto("record") \/ \E r : consumer' = [consumer EXCEPT !.pc = "emit", !.reservation = {r}]
    BY <1>4 DEF Reserve
  <2> QED
    BY <1>1, <2>1, <2>2 DEF Goto, Call, Working
<1>5. CASE Emit
  BY <1>1, <1>5 DEF Emit, At, Goto, Call, Working, group
<1>6. CASE RecordSuppression
  BY <1>1, <1>6 DEF RecordSuppression, At, Goto, Call, Working, group
<1> QED
  BY <1>2, <1>3, <1>4, <1>5, <1>6

LEMMA TraceInvNext ==
    ASSUME TypeInv, TraceInv, [Next]_vars
    PROVE  TraceInv'
<1>1. CASE Publish
  BY <1>1, PublishTrace
<1>2. CASE ReadBatch
  BY <1>2, ReadTrace
<1>3. CASE Duplicate \/ Match
  BY <1>3, GuardTrace
<1>4. CASE MatchFails
  <2>1. /\ UNCHANGED <<stream, handed, pel, evaluated>> /\ consumer' = Idle
        /\ consumer.pc # "idle" /\ seen' = seen \cup {Event}
    BY <1>4 DEF MatchFails, At, group
  <2> QED
    BY <2>1, StoppedTrace
<1>5. CASE Defer \/ Deferring \/ Reserve \/ Emit \/ RecordSuppression
  BY <1>5, WorkingStep, WorkingTrace
<1>6. CASE Return
  BY <1>6, ReturnTrace
<1>7. CASE Ack
  BY <1>7, AckTrace
<1>8. CASE Fail \/ Crash
  <2>1. /\ UNCHANGED <<stream, handed, pel, evaluated>> /\ consumer' = Idle
        /\ seen' = {} \/ seen' = seen
    BY <1>8 DEF Fail, Crash, group
  <2> QED
    BY <2>1, StoppedTrace
<1>9. CASE Settle \/ ReadNothing \/ UNCHANGED vars
  <2>1. UNCHANGED <<stream, handed, pel, seen, consumer, evaluated>>
    BY <1>9 DEF Settle, ReadNothing, vars, group
  <2>2. Event' = Event /\ InHand' = InHand
    BY <2>1, SameEvent
  <2> QED
    BY <2>1, <2>2 DEF TraceInv, Interrupted, AckOK, NothingUntraced
<1> QED
  BY <1>1, <1>2, <1>3, <1>4, <1>5, <1>6, <1>7, <1>8, <1>9 DEF Next, Step
-----------------------------------------------------------------------------
(* Once in a life of the process *)

FiresOf(e) == {m \in fires : m.event = e}

\* Event e is in hand and has yet to be fired, if it is going to be.
Unfired(e) == consumer.pc \in {"defer", "reserve", "emit"} /\ e = Event

FireBound ==
    \A e \in Events :
        /\ IsFiniteSet(FiresOf(e)) /\ Cardinality(FiresOf(e)) <= crashes + 1
        /\ e \notin seen \/ Unfired(e) => Cardinality(FiresOf(e)) <= crashes

Undeferred(e, t) == consumer.pc = "defer" /\ e = Event /\ t \in consumer.todo

DeferBound ==
    \A e \in Events, t \in Triggers :
        /\ deferred[<<e, t>>] <= crashes + 1
        /\ e \notin seen \/ Undeferred(e, t) => deferred[<<e, t>>] <= crashes

WorkingIsSeen == consumer.pc \in Working => Event \in seen

OneReservation == consumer.pc = "emit" => \E r : consumer.reservation = {r}

LifeInv == FireBound /\ DeferBound /\ WorkingIsSeen /\ OneReservation

\* Nothing is enqueued or fired: what is left to show is that only events the guard did
\* not know are taken up.
LEMMA QuietLife ==
    ASSUME LifeInv, UNCHANGED <<deferred, fires, crashes>>, seen \subseteq seen',
           \A e \in Events : Unfired(e)' => Unfired(e) \/ e \notin seen,
           \A e \in Events, t \in Triggers : Undeferred(e, t)' => Undeferred(e, t) \/ e \notin seen,
           WorkingIsSeen', OneReservation'
    PROVE  LifeInv'
<1>1. \A e : FiresOf(e)' = FiresOf(e)
  BY DEF FiresOf
<1>2. FireBound'
  BY <1>1 DEF LifeInv, FireBound
<1>3. DeferBound'
  BY DEF LifeInv, DeferBound
<1> QED
  BY <1>2, <1>3 DEF LifeInv

\* Nobody is evaluating afterwards.
LEMMA RestingLife ==
    ASSUME LifeInv, UNCHANGED <<deferred, fires, crashes>>, seen \subseteq seen',
           consumer'.pc \in {"idle", "guard", "ack"}
    PROVE  LifeInv'
<1>1. WorkingIsSeen' /\ OneReservation'
  BY DEF WorkingIsSeen, OneReservation, Working
<1>2. \A e, t : ~Unfired(e)' /\ ~Undeferred(e, t)'
  BY DEF Unfired, Undeferred
<1> QED
  BY <1>1, <1>2, QuietLife

LEMMA MatchLife ==
    ASSUME TypeInv, LifeInv, Match
    PROVE  LifeInv'
<1>1. consumer.pc = "guard" /\ consumer \in Call /\ Event \notin seen
  BY DEF Match, At, TypeInv, TypeOK
<1>2. /\ consumer'.batch = consumer.batch /\ consumer'.pc = "defer" /\ seen' = seen \cup {Event}
      /\ UNCHANGED <<stream, deferred, fires, crashes>>
  BY <1>1 DEF Match, Call, sinks
<1>3. Event' = Event
  BY <1>2, SameEvent
<1>4. WorkingIsSeen' /\ OneReservation'
  BY <1>2, <1>3 DEF WorkingIsSeen, OneReservation
<1>5. \A e, t : (Unfired(e)' => e \notin seen) /\ (Undeferred(e, t)' => e \notin seen)
  BY <1>1, <1>3 DEF Unfired, Undeferred
<1> QED
  BY <1>2, <1>4, <1>5, QuietLife

LEMMA DeferLife ==
    ASSUME TypeInv, LifeInv, Defer
    PROVE  LifeInv'
<1>1. consumer.pc = "defer" /\ consumer \in Call /\ Event \in Events /\ Event \in seen
  BY CurrentType DEF Defer, At, TypeInv, TypeOK, LifeInv, WorkingIsSeen, Working
<1>2. PICK t \in consumer.todo : /\ deferred' = [deferred EXCEPT ![<<Event, t>>] = @ + 1]
                                 /\ consumer' = [consumer EXCEPT !.todo = @ \ {t}]
  BY DEF Defer
<1>3. /\ consumer'.batch = consumer.batch /\ consumer'.pc = "defer"
      /\ consumer'.todo = consumer.todo \ {t}
  BY <1>1, <1>2 DEF Call
<1>4. UNCHANGED <<stream, seen, fires, crashes>>
  BY DEF Defer
<1>5. Event' = Event
  BY <1>3, <1>4, SameEvent
<1>6. \A e : FiresOf(e)' = FiresOf(e) /\ Unfired(e)' = Unfired(e)
  BY <1>1, <1>3, <1>4, <1>5 DEF FiresOf, Unfired
<1>7. FireBound'
  BY <1>4, <1>6 DEF LifeInv, FireBound
<1>8. DeferBound'
  <2> SUFFICES ASSUME NEW e \in Events, NEW u \in Triggers
               PROVE  /\ deferred'[<<e, u>>] <= crashes + 1
                      /\ e \notin seen \/ Undeferred(e, u)' => deferred'[<<e, u>>] <= crashes
    BY <1>4 DEF DeferBound
  <2>1. CASE e = Event /\ u = t
    <3>1. deferred[<<e, u>>] <= crashes /\ deferred[<<e, u>>] \in Nat /\ crashes \in Nat
      BY <1>1, <1>2, <2>1 DEF LifeInv, DeferBound, Undeferred, TypeInv, TypeOK
    <3>2. deferred'[<<e, u>>] = deferred[<<e, u>>] + 1
      BY <1>2, <2>1 DEF TypeInv, TypeOK
    <3>3. e \in seen /\ ~Undeferred(e, u)'
      BY <1>1, <1>3, <2>1 DEF Undeferred
    <3> QED
      BY <3>1, <3>2, <3>3
  <2>2. CASE e # Event \/ u # t
    <3>1. deferred'[<<e, u>>] = deferred[<<e, u>>]
      BY <1>2, <2>2 DEF TypeInv, TypeOK
    <3>2. Undeferred(e, u)' => Undeferred(e, u)
      BY <1>1, <1>3, <1>5 DEF Undeferred
    <3> QED
      BY <3>1, <3>2 DEF LifeInv, DeferBound
  <2> QED
    BY <2>1, <2>2
<1>9. WorkingIsSeen' /\ OneReservation'
  BY <1>1, <1>3, <1>4, <1>5 DEF WorkingIsSeen, OneReservation
<1> QED
  BY <1>7, <1>8, <1>9 DEF LifeInv

LEMMA ReserveLife ==
    ASSUME TypeInv, LifeInv, Deferring \/ Reserve \/ RecordSuppression
    PROVE  LifeInv'
<1>1. /\ consumer.pc \in Working /\ consumer'.pc \in Working
      /\ consumer'.batch = consumer.batch
      /\ UNCHANGED <<stream, seen, crashes>>
  BY WorkingStep
<1>2. UNCHANGED <<deferred, fires>>
  BY DEF Deferring, Reserve, RecordSuppression, sinks
<1>3. Event' = Event
  BY <1>1, SameEvent
<1>4. /\ consumer'.pc # "defer"
      /\ consumer'.pc \in {"reserve", "emit"} => consumer.pc \in {"defer", "reserve"}
      /\ consumer'.pc = "emit" => \E r : consumer'.reservation = {r}
  <2>1. consumer \in Call
    BY DEF TypeInv, TypeOK
  <2>2. CASE Deferring \/ RecordSuppression
    BY <2>1, <2>2 DEF Deferring, RecordSuppression, Goto, At, Call
  <2>3. CASE Reserve
    <3>1. consumer.pc = "reserve"
      BY <2>3 DEF Reserve, At
    <3>2. Goto("record") \/ \E r : consumer' = [consumer EXCEPT !.pc = "emit", !.reservation = {r}]
      BY <2>3 DEF Reserve
    <3> QED
      BY <2>1, <3>1, <3>2 DEF Goto, Call
  <2> QED
    BY <2>2, <2>3
<1>5. WorkingIsSeen' /\ OneReservation'
  BY <1>1, <1>3, <1>4 DEF LifeInv, WorkingIsSeen, OneReservation
<1>6. \A e, t : (Unfired(e)' => Unfired(e)) /\ ~Undeferred(e, t)'
  BY <1>3, <1>4 DEF Unfired, Undeferred
<1> QED
  BY <1>1, <1>2, <1>5, <1>6, QuietLife

LEMMA EmitLife ==
    ASSUME TypeInv, LifeInv, Emit
    PROVE  LifeInv'
<1>1. consumer.pc = "emit" /\ consumer \in Call /\ Event \in Events /\ Event \in seen
  BY CurrentType DEF Emit, At, TypeInv, TypeOK, LifeInv, WorkingIsSeen, Working
<1>2. PICK r : consumer.reservation = {r}
  BY <1>1 DEF LifeInv, OneReservation
<1>3. PICK m : m = [event |-> Event, reservation |-> r, trigger |-> ledger[r].trigger]
  OBVIOUS
<1>4. /\ fires' = fires \cup {m} /\ m.event = Event
      /\ UNCHANGED <<stream, seen, deferred, crashes>>
  BY <1>2, <1>3 DEF Emit
<1>5. consumer'.batch = consumer.batch /\ consumer'.pc = "return"
  BY <1>1 DEF Emit, Goto, Call
<1>6. Event' = Event
  BY <1>4, <1>5, SameEvent
<1>7. WorkingIsSeen' /\ OneReservation'
  BY <1>1, <1>4, <1>5, <1>6 DEF WorkingIsSeen, OneReservation
<1>8. \A e, t : ~Unfired(e)' /\ ~Undeferred(e, t)'
  BY <1>5 DEF Unfired, Undeferred
<1>9. DeferBound'
  BY <1>4, <1>8 DEF LifeInv, DeferBound
<1>10. FireBound'
  <2> SUFFICES ASSUME NEW e \in Events
               PROVE  /\ IsFiniteSet(FiresOf(e)') /\ Cardinality(FiresOf(e)') <= crashes + 1
                      /\ e \notin seen => Cardinality(FiresOf(e)') <= crashes
    BY <1>4, <1>8 DEF FireBound
  <2>1. CASE e = Event
    <3>1. FiresOf(e)' = FiresOf(e) \cup {m}
      BY <1>4, <2>1 DEF FiresOf
    <3>2. IsFiniteSet(FiresOf(e)) /\ Cardinality(FiresOf(e)) <= crashes
      BY <1>1, <2>1 DEF LifeInv, FireBound, Unfired
    <3>3. /\ IsFiniteSet(FiresOf(e) \cup {m})
          /\ \/ Cardinality(FiresOf(e) \cup {m}) = Cardinality(FiresOf(e))
             \/ Cardinality(FiresOf(e) \cup {m}) = Cardinality(FiresOf(e)) + 1
      BY <3>2, FS_AddElement
    <3>4. Cardinality(FiresOf(e)) \in Nat /\ crashes \in Nat
      BY <3>2, FS_CardinalityType DEF TypeInv, TypeOK
    <3> QED
      BY <1>1, <2>1, <3>1, <3>2, <3>3, <3>4
  <2>2. CASE e # Event
    <3>1. FiresOf(e)' = FiresOf(e)
      BY <1>4, <2>2 DEF FiresOf
    <3> QED
      BY <3>1 DEF LifeInv, FireBound
  <2> QED
    BY <2>1, <2>2
<1> QED
  BY <1>7, <1>9, <1>10 DEF LifeInv

\* The next life has an empty guard, and one more chance.
LEMMA CrashLife ==
    ASSUME TypeInv, LifeInv, Crash
    PROVE  LifeInv'
<1>1. /\ crashes' = crashes + 1 /\ seen' = {} /\ consumer'.pc = "idle"
      /\ UNCHANGED <<deferred, fires>>
  BY DEF Crash, Idle, sinks
<1>2. \A e : FiresOf(e)' = FiresOf(e)
  BY <1>1 DEF FiresOf
<1>3. crashes \in Nat
  BY DEF TypeInv, TypeOK
<1>4. ASSUME NEW e \in Events PROVE /\ IsFiniteSet(FiresOf(e)) /\ Cardinality(FiresOf(e)) \in Nat
                                    /\ Cardinality(FiresOf(e)) <= crashes + 1
  BY FS_CardinalityType DEF LifeInv, FireBound
<1>5. FireBound'
  <2> SUFFICES ASSUME NEW e \in Events
               PROVE  /\ IsFiniteSet(FiresOf(e)) /\ Cardinality(FiresOf(e)) <= crashes + 1 + 1
                      /\ Cardinality(FiresOf(e)) <= crashes + 1
    BY <1>1, <1>2 DEF FireBound
  <2> QED
    BY <1>3, <1>4
<1>6. DeferBound'
  <2> SUFFICES ASSUME NEW e \in Events, NEW t \in Triggers
               PROVE  deferred[<<e, t>>] <= crashes + 1 + 1 /\ deferred[<<e, t>>] <= crashes + 1
    BY <1>1 DEF DeferBound
  <2>1. deferred[<<e, t>>] \in Nat
    BY DEF TypeInv, TypeOK
  <2>2. deferred[<<e, t>>] <= crashes + 1
    BY DEF LifeInv, DeferBound
  <2> QED
    BY <1>3, <2>1, <2>2
<1>7. WorkingIsSeen' /\ OneReservation'
  BY <1>1 DEF WorkingIsSeen, OneReservation, Working
<1> QED
  BY <1>5, <1>6, <1>7 DEF LifeInv

\* A read, or an entry acknowledged, leaves the consumer idle or at the next guard.
LEMMA AtTheGuard == ASSUME ReadBatch \/ Ack PROVE consumer'.pc \in {"idle", "guard"}
<1>1. CASE ReadBatch
  <2>1. consumer' = [Idle EXCEPT !.pc = "guard", !.batch = NextBatch]
    BY <1>1 DEF ReadBatch
  <2> QED
    BY <2>1 DEF Idle
<1>2. CASE Ack
  <2>1. CASE Len(consumer.batch) = 1
    BY <1>2, <2>1 DEF Ack, Idle
  <2>2. CASE Len(consumer.batch) # 1
    <3>1. consumer' = [Idle EXCEPT !.pc = "guard", !.batch = Tail(consumer.batch)]
      BY <1>2, <2>2 DEF Ack
    <3> QED
      BY <3>1 DEF Idle
  <2> QED
    BY <2>1, <2>2
<1> QED
  BY <1>1, <1>2

LEMMA LifeInvNext ==
    ASSUME TypeInv, LifeInv, [Next]_vars
    PROVE  LifeInv'
<1>1. CASE Publish
  <2>1. UNCHANGED <<consumer, seen, deferred, fires, crashes>>
    BY <1>1 DEF Publish, sinks
  <2>2. consumer.pc # "idle" => Event' = Event
    BY <1>1, PublishSameEvent
  <2>3. \A e, t : (Unfired(e)' => Unfired(e)) /\ (Undeferred(e, t)' => Undeferred(e, t))
    BY <2>1, <2>2 DEF Unfired, Undeferred
  <2>4. WorkingIsSeen' /\ OneReservation'
    BY <2>1, <2>2 DEF LifeInv, WorkingIsSeen, OneReservation, Working
  <2> QED
    BY <2>1, <2>3, <2>4, QuietLife
<1>2. CASE ReadBatch \/ Duplicate \/ MatchFails \/ Return \/ Ack \/ Fail
  <2>1. UNCHANGED <<deferred, fires, crashes>> /\ seen \subseteq seen'
    BY <1>2 DEF ReadBatch, Duplicate, MatchFails, Return, Ack, Fail, sinks
  <2>2. consumer'.pc \in {"idle", "guard", "ack"}
    <3>1. consumer \in Call
      BY DEF TypeInv, TypeOK
    <3>2. CASE ReadBatch \/ Ack
      BY <3>2, AtTheGuard
    <3>3. CASE Duplicate \/ Return
      BY <3>1, <3>3 DEF Duplicate, Return, Goto, Call
    <3>4. CASE MatchFails \/ Fail
      BY <3>4 DEF MatchFails, Fail, Idle
    <3> QED
      BY <1>2, <3>2, <3>3, <3>4
  <2> QED
    BY <2>1, <2>2, RestingLife
<1>3. CASE Match
  BY <1>3, MatchLife
<1>4. CASE Defer
  BY <1>4, DeferLife
<1>5. CASE Deferring \/ Reserve \/ RecordSuppression
  BY <1>5, ReserveLife
<1>6. CASE Emit
  BY <1>6, EmitLife
<1>7. CASE Crash
  BY <1>7, CrashLife
<1>8. CASE Settle \/ ReadNothing \/ UNCHANGED vars
  <2>1. UNCHANGED <<stream, consumer, seen, deferred, fires, crashes>>
    BY <1>8 DEF Settle, ReadNothing, vars, sinks
  <2>2. Event' = Event
    BY <2>1, SameEvent
  <2>3. \A e, t : (Unfired(e)' => Unfired(e)) /\ (Undeferred(e, t)' => Undeferred(e, t))
    BY <2>1, <2>2 DEF Unfired, Undeferred
  <2>4. WorkingIsSeen' /\ OneReservation'
    BY <2>1, <2>2 DEF LifeInv, WorkingIsSeen, OneReservation
  <2> QED
    BY <2>1, <2>3, <2>4, QuietLife
<1> QED
  BY <1>1, <1>2, <1>3, <1>4, <1>5, <1>6, <1>7, <1>8 DEF Next, Step
-----------------------------------------------------------------------------
(* A decision has its effects *)

\* Every deferred match of e is enqueued, except those of `left`.
AllDeferredBut(e, left) == \A t \in Deferred(e) \ left : deferred[<<e, t>>] > 0

\* The row is an engagement of e: by one of its matches, and for its customer.
Engages(e, r) ==
    /\ r \in DOMAIN ledger
    /\ ledger[r].trigger \in InSession(e) /\ ledger[r].customer = EventOf[e].customer

\* The in-session matches of e came to something.
Answered(e) ==
    \/ e \in suppressed
    \/ \E m \in fires :
          m.event = e /\ m.trigger = ledger[m.reservation].trigger /\ Engages(e, m.reservation)

Progress ==
    /\ consumer.pc = "defer" => AllDeferredBut(Event, consumer.todo)
    /\ consumer.pc \in {"reserve", "emit", "record", "return"} => AllDeferredBut(Event, {})
    /\ consumer.pc = "emit" => \E r : consumer.reservation = {r} /\ Engages(Event, r)
    /\ consumer.pc = "return" /\ InSession(Event) # {} => Answered(Event)

Effects ==
    \A e \in evaluated : AllDeferredBut(e, {}) /\ (InSession(e) # {} => Answered(e))

EffectInv == Progress /\ Effects

\* No step takes an effect back, or gives a row another trigger or customer.
Kept ==
    /\ \A e \in Events, t \in Triggers : deferred[<<e, t>>] > 0 => deferred'[<<e, t>>] > 0
    /\ fires \subseteq fires' /\ suppressed \subseteq suppressed'
    /\ \A r \in DOMAIN ledger :
          /\ r \in DOMAIN ledger' /\ ledger'[r].trigger = ledger[r].trigger
          /\ ledger'[r].customer = ledger[r].customer

LEMMA SameKept == ASSUME UNCHANGED <<ledger, deferred, fires, suppressed>> PROVE Kept
BY DEF Kept

LEMMA EffectsKept ==
    ASSUME TypeInv, Kept, NEW e \in Events
    PROVE  /\ \A left : AllDeferredBut(e, left) => AllDeferredBut(e, left)'
           /\ \A r : Engages(e, r) => Engages(e, r)'
           /\ Answered(e) => Answered(e)'
<1>1. Deferred(e) \subseteq Triggers
  BY EventParts
<1>2. \A left : AllDeferredBut(e, left) => AllDeferredBut(e, left)'
  BY <1>1 DEF Kept, AllDeferredBut
<1>3. \A r : Engages(e, r) => Engages(e, r)'
  BY DEF Kept, Engages
<1>4. Answered(e) => Answered(e)'
  BY <1>3 DEF Kept, Answered, Engages
<1> QED
  BY <1>2, <1>3, <1>4

\* What is decided stays decided; what is left to show is the call in hand.
LEMMA DecidedKept ==
    ASSUME TypeInv, EffectInv, Kept, evaluated' = evaluated
    PROVE  Effects'
<1> SUFFICES ASSUME NEW e \in evaluated
             PROVE  AllDeferredBut(e, {})' /\ (InSession(e) # {} => Answered(e)')
  BY DEF Effects, AllDeferredBut, Answered
<1>1. e \in Events
  BY DEF TypeInv, TypeOK
<1>2. AllDeferredBut(e, {}) /\ (InSession(e) # {} => Answered(e))
  BY DEF EffectInv, Effects
<1> QED
  BY <1>1, <1>2, EffectsKept

\* Nobody is evaluating afterwards.
LEMMA RestingEffects ==
    ASSUME TypeInv, EffectInv, Kept, evaluated' = evaluated,
           consumer'.pc \in {"idle", "guard", "ack"}
    PROVE  EffectInv'
<1>1. Progress'
  BY DEF Progress
<1> QED
  BY <1>1, DecidedKept DEF EffectInv

\* The call in hand stays where it is.
LEMMA WaitingEffects ==
    ASSUME TypeInv, EffectInv, Kept, UNCHANGED <<evaluated, consumer>>,
           consumer.pc # "idle" => Event' = Event
    PROVE  EffectInv'
<1>1. CASE consumer.pc = "idle"
  BY <1>1, RestingEffects
<1>2. CASE consumer.pc # "idle"
  <2>1. PICK e : e = Event
    OBVIOUS
  <2>2. e \in Events /\ Event' = e
    BY <1>2, <2>1, CurrentType
  <2>3. /\ \A left : AllDeferredBut(e, left) => AllDeferredBut(e, left)'
        /\ \A r : Engages(e, r) => Engages(e, r)'
        /\ Answered(e) => Answered(e)'
    BY <2>2, EffectsKept
  <2>4. /\ consumer.pc = "defer" => AllDeferredBut(e, consumer.todo)
        /\ consumer.pc \in {"reserve", "emit", "record", "return"} => AllDeferredBut(e, {})
        /\ consumer.pc = "emit" => \E r : consumer.reservation = {r} /\ Engages(e, r)
        /\ consumer.pc = "return" /\ InSession(e) # {} => Answered(e)
    BY <2>1 DEF EffectInv, Progress
  <2>5. /\ consumer.pc = "defer" => AllDeferredBut(e, consumer.todo)'
        /\ consumer.pc \in {"reserve", "emit", "record", "return"} => AllDeferredBut(e, {})'
        /\ consumer.pc = "emit" => \E r : consumer.reservation = {r} /\ Engages(e, r)'
        /\ consumer.pc = "return" /\ InSession(e) # {} => Answered(e)'
    BY <2>3, <2>4
  <2>6. Progress'
    BY <2>2, <2>5 DEF Progress, AllDeferredBut, Engages, Answered
  <2> QED
    BY <2>6, DecidedKept DEF EffectInv
<1> QED
  BY <1>1, <1>2
LEMMA MatchEffects ==
    ASSUME TypeInv, EffectInv, Match
    PROVE  EffectInv'
<1>1. consumer.pc = "guard" /\ consumer \in Call
  BY DEF Match, At, TypeInv, TypeOK
<1>2. /\ consumer'.batch = consumer.batch /\ consumer'.pc = "defer"
      /\ consumer'.todo = Deferred(Event)
      /\ UNCHANGED <<ledger, stream, deferred, fires, suppressed, evaluated>>
  BY <1>1 DEF Match, Call, sinks
<1>3. Event' = Event
  BY <1>2, SameEvent
<1>4. Progress'
  BY <1>2, <1>3 DEF Progress, AllDeferredBut
<1> QED
  BY <1>2, <1>4, SameKept, DecidedKept DEF EffectInv

LEMMA DeferEffects ==
    ASSUME TypeInv, EffectInv, Defer \/ Deferring
    PROVE  EffectInv'
<1>1. consumer.pc = "defer" /\ consumer \in Call /\ Event \in Events
  BY CurrentType DEF Defer, Deferring, At, TypeInv, TypeOK
<1>2. /\ consumer'.batch = consumer.batch
      /\ UNCHANGED <<ledger, stream, fires, suppressed, evaluated>>
  BY WorkingStep DEF Defer, Deferring, sinks
<1>3. Event' = Event
  BY <1>2, SameEvent
<1>4. AllDeferredBut(Event, consumer.todo)
  BY <1>1 DEF EffectInv, Progress
<1>5. CASE Defer
  <2>1. PICK t \in consumer.todo : /\ deferred' = [deferred EXCEPT ![<<Event, t>>] = @ + 1]
                                   /\ consumer' = [consumer EXCEPT !.todo = @ \ {t}]
    BY <1>5 DEF Defer
  <2>2. consumer'.pc = "defer" /\ consumer'.todo = consumer.todo \ {t}
    BY <1>1, <2>1 DEF Call
  <2>3. /\ \A e \in Events, u \in Triggers : deferred[<<e, u>>] \in Nat
        /\ deferred'[<<Event, t>>] = deferred[<<Event, t>>] + 1
        /\ \A e \in Events, u \in Triggers :
              e # Event \/ u # t => deferred'[<<e, u>>] = deferred[<<e, u>>]
    BY <1>1, <2>1 DEF TypeInv, TypeOK, Call
  <2>4. \A e \in Events, u \in Triggers : deferred[<<e, u>>] > 0 => deferred'[<<e, u>>] > 0
    BY <1>1, <2>1, <2>3
  <2>5. Kept
    BY <1>2, <2>4 DEF Kept
  <2>6. deferred'[<<Event, t>>] > 0
    BY <1>1, <2>1, <2>3 DEF Call
  <2>7. \A u \in Deferred(Event) \ (consumer.todo \ {t}) : deferred'[<<Event, u>>] > 0
    BY <1>1, <1>4, <2>4, <2>6, EventParts DEF AllDeferredBut
  <2>8. Progress'
    BY <1>3, <2>2, <2>7 DEF Progress, AllDeferredBut
  <2> QED
    BY <1>2, <2>5, <2>8, DecidedKept DEF EffectInv
<1>6. CASE Deferring
  <2>1. /\ consumer.todo = {} /\ deferred' = deferred
        /\ consumer' = [consumer EXCEPT !.pc = IF InSession(Event) = {} THEN "return" ELSE "reserve"]
    BY <1>6 DEF Deferring, Goto, sinks
  <2>2. /\ consumer'.pc \in {"return", "reserve"}
        /\ consumer'.pc = "return" => InSession(Event) = {}
    BY <1>1, <2>1 DEF Call
  <2>3. AllDeferredBut(Event, {})'
    BY <1>3, <1>4, <2>1 DEF AllDeferredBut
  <2>4. Progress'
    BY <1>3, <2>2, <2>3 DEF Progress
  <2> QED
    BY <1>2, <2>1, <2>4, SameKept, DecidedKept DEF EffectInv
<1> QED
  BY <1>5, <1>6

LEMMA ReserveEffects ==
    ASSUME TypeInv, EffectInv, Reserve
    PROVE  EffectInv'
<1>1. consumer.pc = "reserve" /\ consumer \in Call /\ Event \in Events
  BY CurrentType DEF Reserve, At, TypeInv, TypeOK
<1>2. /\ consumer'.batch = consumer.batch
      /\ UNCHANGED <<stream, deferred, fires, suppressed, evaluated>>
  BY WorkingStep DEF Reserve, sinks
<1>3. Event' = Event
  BY <1>2, SameEvent
<1>4. AllDeferredBut(Event, {})'
  BY <1>1, <1>2, <1>3 DEF EffectInv, Progress, AllDeferredBut
<1>5. CASE Goto("record") /\ UNCHANGED ledger
  <2>1. consumer'.pc = "record"
    BY <1>1, <1>5 DEF Goto, Call
  <2>2. Progress'
    BY <1>4, <2>1 DEF Progress
  <2> QED
    BY <1>2, <1>5, <2>2, SameKept, DecidedKept DEF EffectInv
<1>6. CASE consumer'.pc = "emit"
  <2>1. PICK t \in InSession(Event), r \in ResIds \ DOMAIN ledger :
          /\ InsertRow(r, EventOf[Event].customer, t, EventOf[Event].occurred_at)
          /\ consumer' = [consumer EXCEPT !.pc = "emit", !.reservation = {r}]
    BY <1>6, ApprovedMatch
  <2>2. /\ DOMAIN ledger' = DOMAIN ledger \cup {r}
        /\ ledger'[r].trigger = t /\ ledger'[r].customer = EventOf[Event].customer
        /\ \A x \in DOMAIN ledger : ledger'[x] = ledger[x]
    BY <2>1 DEF InsertRow
  <2>3. consumer'.reservation = {r}
    BY <1>1, <2>1 DEF Call
  <2>4. Engages(Event, r)'
    BY <1>3, <2>1, <2>2 DEF Engages
  <2>5. Progress'
    BY <1>4, <1>6, <2>3, <2>4 DEF Progress
  <2>6. Kept
    BY <1>2, <2>2 DEF Kept
  <2> QED
    BY <1>2, <2>5, <2>6, DecidedKept DEF EffectInv
<1> QED
  BY <1>5, <1>6, ReserveDecides

LEMMA SendEffects ==
    ASSUME TypeInv, EffectInv, Emit \/ RecordSuppression
    PROVE  EffectInv'
<1>1. consumer.pc \in {"emit", "record"} /\ consumer \in Call /\ Event \in Events
  BY CurrentType DEF Emit, RecordSuppression, At, TypeInv, TypeOK
<1>2. /\ consumer'.batch = consumer.batch /\ consumer'.pc = "return"
      /\ UNCHANGED <<ledger, stream, deferred, evaluated>>
  BY <1>1 DEF Emit, RecordSuppression, Goto, Call
<1>3. Event' = Event
  BY <1>2, SameEvent
<1>4. AllDeferredBut(Event, {})'
  BY <1>1, <1>2, <1>3 DEF EffectInv, Progress, AllDeferredBut
<1>5. Answered(Event)' /\ Kept
  <2>1. CASE RecordSuppression
    BY <1>2, <1>3, <2>1 DEF RecordSuppression, Answered, Kept
  <2>2. CASE Emit
    <3>1. PICK r : consumer.reservation = {r} /\ Engages(Event, r)
      BY <2>2 DEF Emit, At, EffectInv, Progress
    <3>2. PICK m : m = [event |-> Event, reservation |-> r, trigger |-> ledger[r].trigger]
      OBVIOUS
    <3>3. fires' = fires \cup {m} /\ suppressed' = suppressed
      BY <2>2, <3>1, <3>2 DEF Emit
    <3>4. Engages(Event, r)'
      BY <1>2, <1>3, <3>1 DEF Engages
    <3>5. m.event = Event /\ m.trigger = ledger'[m.reservation].trigger /\ m.reservation = r
      BY <1>2, <3>2
    <3>6. Answered(Event)'
      BY <1>3, <3>3, <3>4, <3>5 DEF Answered, Engages
    <3> QED
      BY <1>2, <3>3, <3>6 DEF Kept
  <2> QED
    BY <2>1, <2>2
<1>6. Progress'
  BY <1>2, <1>4, <1>5 DEF Progress
<1> QED
  BY <1>2, <1>5, <1>6, DecidedKept DEF EffectInv

LEMMA ReturnEffects ==
    ASSUME TypeInv, EffectInv, Return
    PROVE  EffectInv'
<1>1. /\ consumer.pc = "return" /\ consumer \in Call /\ evaluated' = evaluated \cup {Event}
      /\ UNCHANGED <<ledger, stream, deferred, fires, suppressed>>
  BY DEF Return, At, sinks, TypeInv, TypeOK
<1>2. consumer'.pc = "ack"
  BY <1>1 DEF Return, Goto, Call
<1>3. AllDeferredBut(Event, {}) /\ (InSession(Event) # {} => Answered(Event))
  BY <1>1 DEF EffectInv, Progress
<1>4. \A e \in evaluated' : AllDeferredBut(e, {}) /\ (InSession(e) # {} => Answered(e))
  BY <1>1, <1>3 DEF EffectInv, Effects
<1>5. Effects'
  BY <1>1, <1>4 DEF Effects, AllDeferredBut, Answered, Engages
<1>6. Progress'
  BY <1>2 DEF Progress
<1> QED
  BY <1>5, <1>6 DEF EffectInv

LEMMA SettleKept ==
    ASSUME TypeInv, Settle
    PROVE  Kept
<1>1. PICK m \in fires, status \in {"confirmed", "rolled_back"} :
         SetStatus(m.reservation, status, {"reserved"})
  BY DEF Settle
<1>2. \A r \in DOMAIN ledger : ledger[r] \in Row
  BY DEF TypeInv, TypeOK, LedgerType
<1> QED
  BY <1>1, <1>2 DEF Kept, Settle, sinks, SetStatus, Row

LEMMA EffectInvNext ==
    ASSUME TypeInv, EffectInv, [Next]_vars
    PROVE  EffectInv'
<1>1. CASE Publish
  <2>1. UNCHANGED <<ledger, consumer, deferred, fires, suppressed, evaluated>>
    BY <1>1 DEF Publish, sinks
  <2> QED
    BY <1>1, <2>1, SameKept, PublishSameEvent, WaitingEffects
<1>2. CASE ReadBatch \/ Duplicate \/ MatchFails \/ Ack \/ Fail \/ Crash
  <2>1. UNCHANGED <<ledger, deferred, fires, suppressed, evaluated>>
    BY <1>2 DEF ReadBatch, Duplicate, MatchFails, Ack, Fail, Crash, sinks
  <2>2. consumer'.pc \in {"idle", "guard", "ack"}
    <3>1. consumer \in Call
      BY DEF TypeInv, TypeOK
    <3>2. CASE ReadBatch \/ Ack
      BY <3>2, AtTheGuard
    <3>3. CASE Duplicate
      BY <3>1, <3>3 DEF Duplicate, Goto, Call
    <3>4. CASE MatchFails \/ Fail \/ Crash
      BY <3>4 DEF MatchFails, Fail, Crash, Idle
    <3> QED
      BY <1>2, <3>2, <3>3, <3>4
  <2> QED
    BY <2>1, <2>2, SameKept, RestingEffects
<1>3. CASE Match
  BY <1>3, MatchEffects
<1>4. CASE Defer \/ Deferring
  BY <1>4, DeferEffects
<1>5. CASE Reserve
  BY <1>5, ReserveEffects
<1>6. CASE Emit \/ RecordSuppression
  BY <1>6, SendEffects
<1>7. CASE Return
  BY <1>7, ReturnEffects
<1>8. CASE Settle
  <2>1. UNCHANGED <<stream, consumer, evaluated>>
    BY <1>8 DEF Settle
  <2> QED
    BY <1>8, <2>1, SettleKept, SameEvent, WaitingEffects
<1>9. CASE ReadNothing \/ UNCHANGED vars
  <2>1. UNCHANGED <<ledger, stream, consumer, deferred, fires, suppressed, evaluated>>
    BY <1>9 DEF ReadNothing, vars, sinks
  <2> QED
    BY <2>1, SameKept, SameEvent, WaitingEffects
<1> QED
  BY <1>1, <1>2, <1>3, <1>4, <1>5, <1>6, <1>7, <1>8, <1>9 DEF Next, Step

-----------------------------------------------------------------------------
(* The theorems *)

\* The inductive invariants together, for any stream, batch, rules, restarts and failures.
THEOREM ConsumerInvariant == Spec => [](TypeInv /\ TraceInv /\ LifeInv /\ EffectInv)
<1>1. Init => TypeInv /\ TraceInv /\ LifeInv /\ EffectInv
  <2> SUFFICES ASSUME Init PROVE TypeInv /\ TraceInv /\ LifeInv /\ EffectInv
    OBVIOUS
  <2>1. TypeInv
    BY TypeInvInit, ConsumerAssumption
  <2>2. TraceInv
    BY DEF Init, Idle, TraceInv, Interrupted, AckOK, NothingUntraced
  <2>3. LifeInv
    <3>1. \A e : FiresOf(e) = {}
      BY DEF Init, FiresOf
    <3>2. IsFiniteSet({}) /\ Cardinality({}) = 0
      BY FS_EmptySet
    <3>3. consumer.pc = "idle" /\ seen = {} /\ crashes = 0
      BY DEF Init, Idle
    <3>4. FireBound
      BY <3>1, <3>2, <3>3 DEF FireBound, Unfired
    <3>5. DeferBound
      <4>1. \A e \in Events, t \in Triggers : deferred[<<e, t>>] = 0
        BY DEF Init
      <4>2. 0 <= crashes /\ 0 <= crashes + 1
        BY <3>3
      <4> SUFFICES ASSUME NEW e \in Events, NEW t \in Triggers
                   PROVE  deferred[<<e, t>>] <= crashes + 1 /\ deferred[<<e, t>>] <= crashes
        BY DEF DeferBound
      <4>3. deferred[<<e, t>>] = 0
        BY <4>1
      <4> QED
        BY <4>2, <4>3
    <3>6. WorkingIsSeen /\ OneReservation
      BY <3>3 DEF WorkingIsSeen, OneReservation, Working
    <3> QED
      BY <3>4, <3>5, <3>6 DEF LifeInv
  <2>4. EffectInv
    BY DEF Init, Idle, EffectInv, Progress, Effects
  <2> QED
    BY <2>1, <2>2, <2>3, <2>4
<1>2. TypeInv /\ TraceInv /\ LifeInv /\ EffectInv /\ [Next]_vars
        => (TypeInv /\ TraceInv /\ LifeInv /\ EffectInv)'
  BY TypeInvNext, TraceInvNext, LifeInvNext, EffectInvNext
<1> QED
  BY <1>1, <1>2, PTL DEF Spec

\* Every variable keeps its type.
THEOREM ConsumerTypes == Spec => []TypeOK
<1>1. TypeInv => TypeOK
  BY DEF TypeInv
<1> QED
  BY <1>1, ConsumerInvariant, PTL

\* One life of the process fires an event at most once, and defers each match at most
\* once, however often the relay publishes it and whichever calls fail (sinks.py:84-92).
THEOREM OncePerLifeAlways == Spec => []OncePerLife
<1>1. LifeInv => OncePerLife
  BY DEF LifeInv, FireBound, DeferBound, OncePerLife, FiresOf
<1> QED
  BY <1>1, ConsumerInvariant, PTL

\* An event that was handed out and has no decision is on the pending list: acknowledging
\* duplicates (consumer.py:45-46) never removes its last trace.
THEOREM NeverUntraced == Spec => []NothingUntraced
<1>1. TraceInv => NothingUntraced
  BY DEF TraceInv
<1> QED
  BY <1>1, ConsumerInvariant, PTL

\* When evaluate() has returned on an event, all its effects are there (evaluator.py:97-128).
THEOREM DecisionsAreWhole == Spec => []WholeEffects
<1>1. TypeInv /\ EffectInv => WholeEffects
  BY DEF TypeInv, TypeOK, EffectInv, Effects, AllDeferredBut, Answered, Engages, WholeEffects
<1> QED
  BY <1>1, ConsumerInvariant, PTL

\* Redelivered and repeated events count against the caps and the quiet period like any.
THEOREM ConsumerCapsHold == Spec => [](TriggerCapHolds /\ GlobalCapHolds /\ CooldownHolds)
<1>1. Init => CapInv
  BY CapInit DEF Init
<1>2. TypeInv /\ CapInv /\ [Next]_vars => CapInv'
  <2> SUFFICES ASSUME TypeInv, CapInv, [Next]_vars PROVE CapInv'
    OBVIOUS
  <2>1. ASSUME UNCHANGED ledger PROVE CapInv'
    BY <2>1 DEF CapInv, LedgerType, TriggerCapHolds, GlobalCapHolds, CooldownHolds, Within,
                Period, CountedRows, CountedRowsOf
  <2>2. CASE Reserve
    <3>1. Event \in Events
      BY <2>2, CurrentType DEF Reserve, At
    <3>2. CASE consumer'.pc = "emit"
      <4>1. PICK t \in InSession(Event), r \in ResIds \ DOMAIN ledger :
              LET c == EventOf[Event].customer  now == EventOf[Event].occurred_at
              IN  /\ InsertRow(r, c, t, now)
                  /\ ~InCooldown(c, now)
                  /\ \A cap \in GlobalCap : WouldFire(CountedRows(c), now, cap)
                  /\ WouldFire(CountedRowsOf(c, t), now, TriggerCap[t])
                  /\ consumer' = [consumer EXCEPT !.pc = "emit", !.reservation = {r}]
        BY <2>2, <3>2, ApprovedMatch
      <4>2. /\ EventOf[Event].customer \in Customers /\ t \in Triggers
            /\ EventOf[Event].occurred_at \in Times
        BY <3>1, EventParts
      <4> QED
        BY <4>1, <4>2, InsertKeepsCaps, LedgerAssumption
    <3> QED
      BY <2>1, <2>2, <3>2, ReserveDecides
  <2>3. CASE Settle
    <3>1. PICK m \in fires, status \in {"confirmed", "rolled_back"} :
            SetStatus(m.reservation, status, {"reserved"})
      BY <2>3 DEF Settle
    <3> QED
      BY <3>1, SettleKeepsCaps, LedgerAssumption
  <2>4. Publish \/ ReadBatch \/ Duplicate \/ Match \/ MatchFails \/ Ack => UNCHANGED ledger
    BY DEF Publish, ReadBatch, Duplicate, Match, MatchFails, Ack
  <2>5. Defer \/ Deferring \/ Emit \/ RecordSuppression \/ Return => UNCHANGED ledger
    BY DEF Defer, Deferring, Emit, RecordSuppression, Return
  <2>6. ReadNothing \/ Fail \/ Crash \/ UNCHANGED vars => UNCHANGED ledger
    BY DEF ReadNothing, Fail, Crash, vars
  <2> QED
    BY <2>1, <2>2, <2>3, <2>4, <2>5, <2>6 DEF Next, Step
<1>3. CapInv => TriggerCapHolds /\ GlobalCapHolds /\ CooldownHolds
  BY DEF CapInv
<1> QED
  BY <1>1, <1>2, <1>3, ConsumerInvariant, PTL DEF Spec

=============================================================================
