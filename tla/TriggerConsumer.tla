-------------------------- MODULE TriggerConsumer --------------------------
(***************************************************************************)
(* From the stream to the decisions (A5 / M04):                            *)
(* services/event_pipeline/triggers/consumer.py, evaluator.py, sinks.py.   *)
(*                                                                         *)
(* One consumer of the group `trigger-eval` reads batches of new entries,  *)
(* evaluates one after the other and acknowledges each. Evaluating an      *)
(* event defers some of its matches, has the engine arbitrate the others,  *)
(* and sends M08 the winner or M14 the suppression. The relay may publish  *)
(* an event more than once; any call to the outside may fail; the process  *)
(* may die between any two steps.                                          *)
(***************************************************************************)
EXTENDS AtomicReserve, RuleDsl

CONSTANTS Events,      \* event ids
          EventOf,     \* event id -> the event: customer, signal, time, context
          Rules,       \* trigger -> its rule: enabled, signal, conditions, type
          Batch,       \* `batch`: the most entries a read returns
          MaxLen,      \* `maxlen`: the entries the stream keeps at least
          MaxEntries,  \* bound: entries published
          MaxCrashes,  \* bound: deaths of the consumer's process
          MaxFailures  \* bound: calls that raise

ASSUME ConsumerAssumption ==
    /\ DOMAIN EventOf = Events
    /\ DOMAIN Rules = Triggers
    /\ \A e \in Events : EventOf[e].customer \in Customers /\ EventOf[e].occurred_at \in Times
    /\ \A t \in Triggers : Specificity[t] = Len(Rules[t].conditions)
    /\ Batch \in Nat \ {0} /\ MaxLen \in Nat \ {0} /\ MaxEntries \in Nat
    /\ MaxCrashes \in Nat /\ MaxFailures \in Nat

VARIABLES stream,     \* the entries published: the ids of their events
          trimmed,    \* how many of them XADD has trimmed, the oldest first
          handed,     \* the entries the group has handed out
          pel,        \* those of them not acknowledged
          seen,       \* InMemoryIdempotencyGuard._seen
          consumer,   \* the consumer's call of run_once
          deferred,   \* <<event, trigger>> -> how often the pair was enqueued
          fires,      \* the FireMessages emitted
          suppressed, \* the events whose in-session matches were suppressed
          evaluated,  \* the events evaluate() has returned a decision on
          crashes, failures

group == <<handed, pel>>
sinks == <<deferred, fires, suppressed>>
vars == <<ledger, stream, trimmed, group, seen, consumer, sinks, evaluated, crashes, failures>>

\* `batch` are the entries still to be done, `todo` the triggers still to be deferred.
Call == [pc : {"idle", "guard", "defer", "reserve", "emit", "record", "return", "ack"},
         batch : Seq(1..MaxEntries), todo : SUBSET Triggers, reservation : SUBSET ResIds]

Idle == [pc |-> "idle", batch |-> <<>>, todo |-> {}, reservation |-> {}]

At(pc) == consumer.pc = pc

Goto(pc) == consumer' = [consumer EXCEPT !.pc = pc]

\* The entry in hand and its event.
Current == Head(consumer.batch)
Event == stream[Current]

Deferred(e) == {t \in MatchingRules(EventOf[e], Rules) : Rules[t].type = "deferred"}

InSession(e) == {t \in MatchingRules(EventOf[e], Rules) : Rules[t].type = "in_session"}

-----------------------------------------------------------------------------
(* The stream *)

\* The relay's XADD. An approximate maxlen trims as much of the excess as it likes.
Publish ==
    /\ Len(stream) < MaxEntries
    /\ \E e \in Events : stream' = Append(stream, e)
    /\ \E n \in trimmed..MaxEntries :
          /\ n = trimmed \/ n <= Len(stream') - MaxLen
          /\ trimmed' = n
    /\ UNCHANGED <<ledger, group, seen, consumer, sinks, evaluated, crashes, failures>>

\* The entries `>` stands for: later than any handed out, and still there. They are the
\* last ones of the stream.
NewEntries == {i \in (trimmed + 1)..Len(stream) : \A h \in handed : h < i}

\* The oldest of them, up to Batch.
NextBatch ==
    LET new == Cardinality(NewEntries)
    IN  [k \in 1..(IF new < Batch THEN new ELSE Batch) |-> Len(stream) - new + k]

\* Bug: the group reads without a pending list (NOACK).
ReadBatch_noPending ==
    /\ At("idle") /\ NewEntries # {}
    /\ handed' = handed \cup {NextBatch[k] : k \in DOMAIN NextBatch}
    /\ consumer' = [Idle EXCEPT !.pc = "guard", !.batch = NextBatch]
    /\ UNCHANGED <<ledger, stream, trimmed, pel, seen, sinks, evaluated, crashes, failures>>

\* XREADGROUP hands the batch out and puts it on the pending list.
ReadBatch ==
    LET entries == {NextBatch[k] : k \in DOMAIN NextBatch}
    IN  /\ At("idle") /\ NewEntries # {}
        /\ handed' = handed \cup entries
        /\ pel' = pel \cup entries
        /\ consumer' = [Idle EXCEPT !.pc = "guard", !.batch = NextBatch]
        /\ UNCHANGED <<ledger, stream, trimmed, seen, sinks, evaluated, crashes, failures>>

\* The read blocks until it times out, and run_once returns 0.
ReadNothing ==
    /\ At("idle") /\ NewEntries = {}
    /\ UNCHANGED vars

\* XACK, and on to the next entry of the batch.
Ack ==
    /\ At("ack")
    /\ pel' = pel \ {Current}
    /\ consumer' = IF Len(consumer.batch) = 1
                   THEN Idle
                   ELSE [Idle EXCEPT !.pc = "guard", !.batch = Tail(consumer.batch)]
    /\ UNCHANGED <<ledger, stream, trimmed, handed, seen, sinks, evaluated, crashes, failures>>

-----------------------------------------------------------------------------
(* evaluate *)

Duplicate ==
    /\ At("guard")
    /\ Event \in seen
    /\ Goto("ack")
    /\ UNCHANGED <<ledger, stream, trimmed, group, seen, sinks, evaluated, crashes, failures>>

\* Bug: seen() only looks, and nobody marks.
Match_unmarked ==
    /\ At("guard")
    /\ Event \notin seen
    /\ ~MatchingRaises(EventOf[Event], Rules)
    /\ consumer' = [consumer EXCEPT !.pc = "defer", !.todo = Deferred(Event)]
    /\ UNCHANGED <<ledger, stream, trimmed, group, seen, sinks, evaluated, crashes, failures>>

\* The guard marks the event before anything has been done about it.
Match ==
    /\ At("guard")
    /\ Event \notin seen
    /\ ~MatchingRaises(EventOf[Event], Rules)
    /\ seen' = seen \cup {Event}
    /\ consumer' = [consumer EXCEPT !.pc = "defer", !.todo = Deferred(Event)]
    /\ UNCHANGED <<ledger, stream, trimmed, group, sinks, evaluated, crashes, failures>>

\* A rule raises: the exception ends run_once, and with it the rest of the batch.
MatchFails ==
    /\ At("guard")
    /\ Event \notin seen
    /\ MatchingRaises(EventOf[Event], Rules)
    /\ seen' = seen \cup {Event}
    /\ consumer' = Idle
    /\ UNCHANGED <<ledger, stream, trimmed, group, sinks, evaluated, crashes, failures>>

\* Each enqueue inserts a row with an id of its own.
Defer ==
    /\ At("defer")
    /\ \E t \in consumer.todo :
          /\ deferred' = [deferred EXCEPT ![<<Event, t>>] = @ + 1]
          /\ consumer' = [consumer EXCEPT !.todo = @ \ {t}]
    /\ UNCHANGED <<ledger, stream, trimmed, group, seen, fires, suppressed, evaluated,
                   crashes, failures>>

\* Bug: an event is either deferred or arbitrated, never both.
Deferring_orElse ==
    /\ At("defer") /\ consumer.todo = {}
    /\ Goto(IF InSession(Event) = {} \/ Deferred(Event) # {} THEN "return" ELSE "reserve")
    /\ UNCHANGED <<ledger, stream, trimmed, group, seen, sinks, evaluated, crashes, failures>>

\* Nothing more to defer: the in-session matches are next, if there are any.
Deferring ==
    /\ At("defer") /\ consumer.todo = {}
    /\ Goto(IF InSession(Event) = {} THEN "return" ELSE "reserve")
    /\ UNCHANGED <<ledger, stream, trimmed, group, seen, sinks, evaluated, crashes, failures>>

\* The list has one candidate for each trigger, so that their places decide nothing.
Candidates(e) ==
    {[pos |-> 0, trigger |-> t, signal_at |-> EventOf[e].occurred_at] : t \in InSession(e)}

Reserve ==
    LET c          == EventOf[Event].customer
        now        == EventOf[Event].occurred_at
        candidates == Candidates(Event)
    IN  /\ At("reserve")
        /\ \/ /\ Refused(c, candidates, now)
              /\ Goto("record")
              /\ UNCHANGED ledger
           \/ \E w \in candidates, r \in FreshIds :
                 /\ Approved(c, candidates, now, w, r)
                 /\ consumer' = [consumer EXCEPT !.pc = "emit", !.reservation = {r}]
        /\ UNCHANGED <<stream, trimmed, group, seen, sinks, evaluated, crashes, failures>>

\* The FireMessage names the winner's trigger and its reservation.
Emit ==
    /\ At("emit")
    /\ fires' = fires \cup {[event |-> Event, reservation |-> r, trigger |-> ledger[r].trigger] :
                              r \in consumer.reservation}
    /\ Goto("return")
    /\ UNCHANGED <<ledger, stream, trimmed, group, seen, deferred, suppressed, evaluated,
                   crashes, failures>>

RecordSuppression ==
    /\ At("record")
    /\ suppressed' = suppressed \cup {Event}
    /\ Goto("return")
    /\ UNCHANGED <<ledger, stream, trimmed, group, seen, deferred, fires, evaluated,
                   crashes, failures>>

Return ==
    /\ At("return")
    /\ evaluated' = evaluated \cup {Event}
    /\ Goto("ack")
    /\ UNCHANGED <<ledger, stream, trimmed, group, seen, sinks, crashes, failures>>

-----------------------------------------------------------------------------
(* What goes wrong, and what M08 does *)

\* A call to the outside is next.
Calling ==
    \/ consumer.pc \in {"reserve", "emit", "record", "ack"}
    \/ At("defer") /\ consumer.todo # {}

\* Bug: the message is acknowledged in a `finally`.
Fail_acknowledged ==
    /\ failures < MaxFailures /\ Calling
    /\ failures' = failures + 1
    /\ pel' = pel \ {Current}
    /\ consumer' = Idle
    /\ UNCHANGED <<ledger, stream, trimmed, handed, seen, sinks, evaluated, crashes>>

\* It raises. run_once ends, the rest of the batch undone; the loop calls it again.
Fail ==
    /\ failures < MaxFailures /\ Calling
    /\ failures' = failures + 1
    /\ consumer' = Idle
    /\ UNCHANGED <<ledger, stream, trimmed, group, seen, sinks, evaluated, crashes>>

\* The process dies; the one after it has an empty guard.
Crash ==
    /\ crashes < MaxCrashes
    /\ crashes' = crashes + 1
    /\ consumer' = Idle
    /\ seen' = {}
    /\ UNCHANGED <<ledger, stream, trimmed, group, sinks, evaluated, failures>>

Settle ==
    /\ \E m \in fires, status \in {"confirmed", "rolled_back"} :
          SetStatus(m.reservation, status, {"reserved"})
    /\ UNCHANGED <<stream, trimmed, group, seen, consumer, sinks, evaluated, crashes, failures>>

-----------------------------------------------------------------------------

Init ==
    /\ LedgerInit
    /\ stream = <<>> /\ trimmed = 0
    /\ handed = {} /\ pel = {}
    /\ seen = {}
    /\ consumer = Idle
    /\ deferred = [p \in Events \X Triggers |-> 0]
    /\ fires = {} /\ suppressed = {} /\ evaluated = {}
    /\ crashes = 0 /\ failures = 0

Step ==
    \/ ReadBatch \/ Duplicate \/ Match \/ MatchFails \/ Defer \/ Deferring
    \/ Reserve \/ Emit \/ RecordSuppression \/ Return \/ Ack

Next == Publish \/ Step \/ ReadNothing \/ Fail \/ Crash \/ Settle

Spec == Init /\ [][Next]_vars

\* run_once is called in a loop, and each of its steps gets done or fails.
LiveSpec == Spec /\ WF_vars(Step)

-----------------------------------------------------------------------------
(* Properties *)

TypeOK ==
    /\ LedgerType
    /\ stream \in Seq(Events) /\ Len(stream) <= MaxEntries
    /\ trimmed \in 0..Len(stream)
    /\ handed \subseteq 1..Len(stream) /\ pel \subseteq handed
    /\ seen \subseteq Events
    /\ consumer \in Call
    /\ {consumer.batch[k] : k \in DOMAIN consumer.batch} \subseteq pel
    /\ deferred \in [Events \X Triggers -> Nat]
    /\ fires \subseteq [event : Events, reservation : DOMAIN ledger, trigger : Triggers]
    /\ suppressed \subseteq Events /\ evaluated \subseteq Events
    /\ crashes \in 0..MaxCrashes /\ failures \in 0..MaxFailures

\* However often the relay publishes an event, and whichever calls fail, one life of the
\* process (sinks.py:84-92) fires it at most once and defers each of its matches at most
\* once; only a restart, which empties the guard, allows another time.
OncePerLife ==
    \A e \in Events :
        /\ Cardinality({m \in fires : m.event = e}) <= crashes + 1
        /\ \A t \in Triggers : deferred[<<e, t>>] <= crashes + 1

\* An event that was handed out and on which evaluate() has never come to a decision is
\* still on the pending list, under the entry that was interrupted: acknowledging
\* duplicates (consumer.py:45-46) never removes its last trace.
NothingUntraced ==
    \A i \in handed : stream[i] \in evaluated \/ \E j \in pel : stream[j] = stream[i]

\* When evaluate() has returned, all of the event's effects are there (evaluator.py:97-128):
\* each deferred match enqueued, and the in-session matches either fired, by the trigger
\* and for the customer of the reservation, or recorded as suppressed.
WholeEffects ==
    \A e \in evaluated :
        /\ \A t \in Deferred(e) : deferred[<<e, t>>] > 0
        /\ InSession(e) # {} =>
              \/ e \in suppressed
              \/ \E m \in fires :
                    /\ m.event = e /\ m.trigger \in InSession(e)
                    /\ ledger[m.reservation].trigger = m.trigger
                    /\ ledger[m.reservation].customer = EventOf[e].customer

\* "At-least-once from the stream" (consumer.py:3): every published event is evaluated.
AllEvaluated ==
    \A i \in 1..MaxEntries :
        i \in DOMAIN stream ~> (i \in DOMAIN stream /\ stream[i] \in evaluated)

=============================================================================
