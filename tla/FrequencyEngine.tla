-------------------------- MODULE FrequencyEngine --------------------------
(***************************************************************************)
(* FrequencyPrecedenceEngine (A6 / M05) under concurrent callers:          *)
(* services/event_pipeline/frequency/engine.py and lock.py.                *)
(*                                                                         *)
(* reserve() reads the ledger several times, decides, and inserts, under a *)
(* per-customer lock; M08's confirm() and rollback() take no lock and run  *)
(* between any two of its steps. A caller is a thread of some process; the *)
(* lock is an object in the memory of that process. The callers' side is   *)
(* what they do with the decision: an approved one is sent to M08 in a     *)
(* FireMessage, which is how M08 comes to know the reservation.            *)
(***************************************************************************)
EXTENDS EngagementLedger, Precedence

CONSTANTS Threads,        \* the callers of reserve()
          Processes,      \* the worker processes they run in
          ProcessOf,      \* thread -> process
          CandidateLists, \* the candidate lists reserve() is called with
          Free,           \* not a thread: nobody holds the lock
          NoReservation,  \* not a reservation id: None
          MaxInterruptions \* bound: process crashes and failing calls in a behaviour

ASSUME EngineAssumption ==
    /\ Weight \in [Triggers -> Int]
    /\ Specificity \in [Triggers -> Nat]
    /\ ProcessOf \in [Threads -> Processes]
    /\ Free \notin Threads
    /\ NoReservation \notin ResIds
    /\ CandidateLists \subseteq SUBSET Candidate(Triggers, Times)
    /\ MaxInterruptions \in Nat

VARIABLES lock,   \* process -> customer -> the thread in the critical section
          call,   \* thread -> its current call of reserve()
          fires,  \* the reservation ids M08 has received in a FireMessage
          interruptions  \* process crashes and calls that failed so far

vars == <<ledger, lock, call, fires, interruptions>>

-----------------------------------------------------------------------------
(* A call of reserve() *)

Reason == {"frequency_cap", "global_cap", "cooldown", "precedence_loss"}

\* What an EngagementDecision tells: `losers` maps a trigger to "none" when it is
\* not a key of the dict, `suppression_reason` is "none" for None.
Decision == [reservation_id : ResIds \cup {NoReservation},
             suppression_reason : Reason \cup {"none"},
             losers : [Triggers -> Reason \cup {"none"}]]

NoLosers == [t \in Triggers |-> "none"]

NotApproved == [reservation_id |-> NoReservation, suppression_reason |-> "none",
                losers |-> NoLosers]

\* At "raising" an exception is on its way out of the `with` block.
PC == {"idle", "lock", "cooldown", "global_cap", "filter", "unlock", "raising", "decided"}

Critical == {"cooldown", "global_cap", "filter", "unlock", "raising"}

\* `todo` holds the candidates the filter loop has not reached.
Call == [pc : PC, customer : Customers, now : Times,
         candidates : SUBSET Candidate(Triggers, Times),
         todo : SUBSET Candidate(Triggers, Times),
         eligible : SUBSET Candidate(Triggers, Times),
         decision : Decision]

Idle == [pc |-> "idle"]

At(p, pc) == call[p].pc = pc

\* The thread's call becomes `new`.
Update(p, new) == call' = [call EXCEPT ![p] = new]

Goto(p, pc) == Update(p, [call[p] EXCEPT !.pc = pc])

TriggersOf(candidates) == {c.trigger : c \in candidates}

\* losers[t] = reason, for each of the triggers.
Drop(decision, triggers, reason) ==
    [decision EXCEPT !.losers = [t \in Triggers |-> IF t \in triggers THEN reason ELSE @[t]]]

\* Reservation r for the winner; the other eligible triggers lost the arbitration.
Approve(decision, eligible, winner, r) ==
    [Drop(decision, TriggersOf(eligible \ {winner}), "precedence_loss")
        EXCEPT !.reservation_id = r]

\* _suppress_all(reason)
SuppressAll(candidates, reason) ==
    [reservation_id |-> NoReservation, suppression_reason |-> reason,
     losers |-> [t \in Triggers |-> IF t \in TriggersOf(candidates) THEN reason ELSE "none"]]

Suppress(p, reason) ==
    Update(p, [call[p] EXCEPT !.pc = "unlock",
                              !.decision = SuppressAll(call[p].candidates, reason)])

-----------------------------------------------------------------------------
(* The steps of reserve() *)

\* Calls that may yet insert a row.
Undecided == {p \in Threads : call[p].pc \in {"lock", "cooldown", "global_cap", "filter"}}

\* Bound: when ResIds is finite, a call starts only if an id is left for it.
IdLeft == IsFiniteSet(ResIds) => Cardinality(Undecided) < Cardinality(ResIds \ DOMAIN ledger)

\* The call itself: an empty list is answered at once, outside the lock.
Reserve(p) ==
    /\ At(p, "idle")
    /\ IdLeft
    /\ \E c \in Customers, now \in Times, candidates \in CandidateLists :
          Update(p, [pc |-> IF candidates = {} THEN "decided" ELSE "lock",
                     customer |-> c, now |-> now, candidates |-> candidates,
                     todo |-> candidates, eligible |-> {}, decision |-> NotApproved])
    /\ UNCHANGED <<ledger, lock, fires, interruptions>>

LockOf(p) == lock[ProcessOf[p]][call[p].customer]

\* Bug: the default is NullLock.
Acquire_nullLock(p) ==
    /\ At(p, "lock")
    /\ Goto(p, "cooldown")
    /\ UNCHANGED <<ledger, lock, fires, interruptions>>

\* PerCustomerLock.__call__: wait for the customer's lock and take it.
Acquire(p) ==
    /\ At(p, "lock")
    /\ LockOf(p) = Free
    /\ lock' = [lock EXCEPT ![ProcessOf[p]][call[p].customer] = p]
    /\ Goto(p, "cooldown")
    /\ UNCHANGED <<ledger, fires, interruptions>>

\* Bug: the quiet period is looked up and not acted on.
CheckCooldown_ignored(p) ==
    /\ At(p, "cooldown")
    /\ Goto(p, "global_cap")
    /\ UNCHANGED <<ledger, lock, fires, interruptions>>

CheckCooldown(p) ==
    /\ At(p, "cooldown")
    /\ IF InCooldown(call[p].customer, call[p].now)
       THEN Suppress(p, "cooldown")
       ELSE Goto(p, "global_cap")
    /\ UNCHANGED <<ledger, lock, fires, interruptions>>

\* Bug: the global cap sees the first candidate's trigger only.
CheckGlobalCap_perTrigger(p) ==
    /\ At(p, "global_cap")
    /\ IF \E cap \in GlobalCap, c \in call[p].candidates :
             ~WouldFire(CountedRowsOf(call[p].customer, c.trigger), call[p].now, cap)
       THEN Suppress(p, "global_cap")
       ELSE Goto(p, "filter")
    /\ UNCHANGED <<ledger, lock, fires, interruptions>>

CheckGlobalCap(p) ==
    /\ At(p, "global_cap")
    /\ IF \E cap \in GlobalCap :
             ~WouldFire(CountedRows(call[p].customer), call[p].now, cap)
       THEN Suppress(p, "global_cap")
       ELSE Goto(p, "filter")
    /\ UNCHANGED <<ledger, lock, fires, interruptions>>

\* One turn of the filter loop: each candidate's fire_times is a query of its own.
\* The order of the list is the caller's; here it is any order.
FilterOne(p) ==
    /\ At(p, "filter")
    /\ \E c \in call[p].todo :
          IF WouldFire(CountedRowsOf(call[p].customer, c.trigger), call[p].now,
                       TriggerCap[c.trigger])
          THEN Update(p, [call[p] EXCEPT !.todo = @ \ {c}, !.eligible = @ \cup {c}])
          ELSE Update(p, [call[p] EXCEPT !.todo = @ \ {c},
                                         !.decision = Drop(@, {c.trigger}, "frequency_cap")])
    /\ UNCHANGED <<ledger, lock, fires, interruptions>>

NoneEligible(p) ==
    /\ At(p, "filter")
    /\ call[p].todo = {}
    /\ call[p].eligible = {}
    /\ Update(p, [call[p] EXCEPT !.pc = "unlock",
                                 !.decision.suppression_reason = "frequency_cap"])
    /\ UNCHANGED <<ledger, lock, fires, interruptions>>

\* choose_winner is a pure function of the list: the winner is chosen and its row
\* inserted in one step.
RecordWinner(p) ==
    /\ At(p, "filter")
    /\ call[p].todo = {}
    /\ \E w \in call[p].eligible, r \in FreshIds :
          /\ IsWinner(w, call[p].eligible)
          /\ InsertRow(r, call[p].customer, w.trigger, call[p].now)
          /\ Update(p, [call[p] EXCEPT !.pc = "unlock",
                                       !.decision = Approve(@, call[p].eligible, w, r)])
    /\ UNCHANGED <<lock, fires, interruptions>>

\* The `with` block's finally; every return of reserve() passes through it.
Unlock(p) ==
    /\ At(p, "unlock")
    /\ lock' = [lock EXCEPT ![ProcessOf[p]][call[p].customer] = Free]
    /\ Goto(p, "decided")
    /\ UNCHANGED <<ledger, fires, interruptions>>

-----------------------------------------------------------------------------
(* Calls that fail *)

Interrupt ==
    /\ interruptions < MaxInterruptions
    /\ interruptions' = interruptions + 1

\* The thread is about to read the ledger.
Reading(p) ==
    \/ At(p, "cooldown") /\ Cooldown # {}
    \/ At(p, "global_cap") /\ GlobalCap # {}
    \/ At(p, "filter") /\ call[p].todo # {}

\* A query raises inside the `with` block.
QueryFails(p) ==
    /\ Reading(p)
    /\ Interrupt
    /\ Goto(p, "raising")
    /\ UNCHANGED <<ledger, lock, fires>>

\* The INSERT raises, or its commit does: then the row may have been written.
RecordFails(p) ==
    /\ At(p, "filter")
    /\ call[p].todo = {}
    /\ call[p].eligible # {}
    /\ Interrupt
    /\ \/ UNCHANGED ledger
       \/ \E w \in call[p].eligible, r \in FreshIds :
             /\ IsWinner(w, call[p].eligible)
             /\ InsertRow(r, call[p].customer, w.trigger, call[p].now)
    /\ Goto(p, "raising")
    /\ UNCHANGED <<lock, fires>>

\* Bug: the lock is released after the yield and not in a finally.
Raise_keepsLock(p) ==
    /\ At(p, "raising")
    /\ Update(p, Idle)
    /\ UNCHANGED <<ledger, lock, fires, interruptions>>

\* The exception leaves through the same finally, and reaches the caller.
Raise(p) ==
    /\ At(p, "raising")
    /\ lock' = [lock EXCEPT ![ProcessOf[p]][call[p].customer] = Free]
    /\ Update(p, Idle)
    /\ UNCHANGED <<ledger, fires, interruptions>>

-----------------------------------------------------------------------------
(* Around the engine *)

\* Bug: only a decision without losers is taken for an approval.
Emit_onlyUncontested(p) ==
    /\ At(p, "decided")
    /\ fires' = fires \cup (IF call[p].decision.losers = NoLosers
                            THEN {call[p].decision.reservation_id} \ {NoReservation}
                            ELSE {})
    /\ Update(p, Idle)
    /\ UNCHANGED <<ledger, lock, interruptions>>

\* Bug: a decision that engages nobody is emitted as well.
Emit_whateverDecided(p) ==
    /\ At(p, "decided")
    /\ fires' = fires \cup {call[p].decision.reservation_id}
    /\ Update(p, Idle)
    /\ UNCHANGED <<ledger, lock, interruptions>>

\* The caller acts on the decision: an approved one goes to M08 as a FireMessage,
\* any other to the suppression sink.
Emit(p) ==
    /\ At(p, "decided")
    /\ fires' = fires \cup ({call[p].decision.reservation_id} \ {NoReservation})
    /\ Update(p, Idle)
    /\ UNCHANGED <<ledger, lock, interruptions>>

\* The sink raises, with or without the message on its way; nobody gives the
\* reservation back. (A suppression sink that raises loses an entry for M14 only.)
EmitFails(p) ==
    /\ At(p, "decided")
    /\ call[p].decision.reservation_id # NoReservation
    /\ Interrupt
    /\ fires' \in {fires, fires \cup {call[p].decision.reservation_id}}
    /\ Update(p, Idle)
    /\ UNCHANGED <<ledger, lock>>

\* M08 reports a delivery, or a failure, of a reservation it received: as often as
\* its retries have it, in any order, at any time.
Confirm(r) ==
    /\ SetStatus(r, "confirmed", {"reserved"})
    /\ UNCHANGED <<lock, call, fires, interruptions>>

Rollback(r) ==
    /\ SetStatus(r, "rolled_back", {"reserved"})
    /\ UNCHANGED <<lock, call, fires, interruptions>>

\* A worker process dies and comes back: its threads forget their calls and its
\* locks are new. The ledger is in Postgres and stays.
Crash(w) ==
    /\ Interrupt
    /\ lock' = [lock EXCEPT ![w] = [c \in Customers |-> Free]]
    /\ call' = [p \in Threads |-> IF ProcessOf[p] = w THEN Idle ELSE call[p]]
    /\ UNCHANGED <<ledger, fires>>

\* Bound: every id is used up, and no call is under way.
OutOfIds ==
    /\ ~IdLeft
    /\ \A p \in Threads : At(p, "idle")
    /\ UNCHANGED vars

-----------------------------------------------------------------------------

Init ==
    /\ LedgerInit
    /\ lock = [w \in Processes |-> [c \in Customers |-> Free]]
    /\ call = [p \in Threads |-> Idle]
    /\ fires = {}
    /\ interruptions = 0

Step(p) ==
    \/ Acquire(p) \/ CheckCooldown(p) \/ CheckGlobalCap(p) \/ FilterOne(p)
    \/ NoneEligible(p) \/ RecordWinner(p) \/ Unlock(p) \/ Raise(p) \/ Emit(p)

Fail(p) == QueryFails(p) \/ RecordFails(p) \/ EmitFails(p)

Next ==
    \/ \E p \in Threads : Reserve(p) \/ Step(p) \/ Fail(p)
    \/ \E r \in fires : Confirm(r) \/ Rollback(r)
    \/ \E w \in Processes : Crash(w)
    \/ OutOfIds

Spec == Init /\ [][Next]_vars

\* Threads that can go on do; nothing is assumed of who gets a contended lock, of
\* new calls, of M08, of crashes or of calls that fail.
Fairness == \A p \in Threads : WF_vars(Step(p))

LiveSpec == Spec /\ Fairness

-----------------------------------------------------------------------------
(* Properties *)

TypeOK ==
    /\ LedgerType
    /\ lock \in [Processes -> [Customers -> Threads \cup {Free}]]
    /\ call \in [Threads -> Call \cup {Idle}]
    /\ fires \subseteq ResIds
    /\ interruptions \in 0..MaxInterruptions

\* A thread in the critical section holds its customer's lock, in its process.
LockHeld ==
    \A p \in Threads : call[p].pc \in Critical => lock[ProcessOf[p]][call[p].customer] = p

Checked(p) ==
    /\ call[p].pc \in {"global_cap", "filter"} => ~InCooldown(call[p].customer, call[p].now)
    /\ call[p].pc = "filter" =>
          \A cap \in GlobalCap : WouldFire(CountedRows(call[p].customer), call[p].now, cap)
    /\ call[p].pc = "filter" =>
          \A c \in call[p].eligible :
             WouldFire(CountedRowsOf(call[p].customer, c.trigger), call[p].now,
                       TriggerCap[c.trigger])
    /\ call[p].pc \in {"lock", "cooldown", "global_cap"} => call[p].eligible = {}

\* What a thread has found out about its customer stays true until it acts on it
\* (engine.py:60-94): M08's answers, other customers' calls and crashes may come
\* between any two of its steps, and none of them can close the gap it has seen.
ChecksStand == \A p \in Threads : Checked(p)

\* The engine's steps, seen through the ledger, are the indivisible ones of
\* EngagementCap: whatever confirm and rollback do between its queries and its
\* insert, reserve() never acts on a count that would forbid what it does.
Promise == INSTANCE EngagementCap WITH ledger <- ledger

ActsAtomically == Promise!Spec

\* Reservations that count against the caps while M08 cannot settle them, because
\* no FireMessage carries them and no caller is about to send one.
Stranded ==
    {r \in DOMAIN ledger :
        /\ ledger[r].status = "reserved"
        /\ r \notin fires
        /\ \A p \in Threads :
              ~(call[p].pc \in {"unlock", "decided"} /\ call[p].decision.reservation_id = r)}

\* The step is an interruption that ends p's call while it is at one of the pcs.
CutShort(p, pcs) ==
    interruptions' > interruptions /\ call[p].pc \in pcs /\ call'[p].pc \in {"raising", "idle"}

\* Every approved reservation is on its way to M08 (engine.py:94, evaluator.py:125):
\* one is left counted with nobody to settle it only by an interruption of the call
\* that inserts or carries it. A failing query, a refused candidate, another thread's
\* failure and M08's answers leave none.
OnlyInterruptionsStrand ==
    [][\A r \in Stranded' \ Stranded : \E p \in Threads :
          \/ CutShort(p, {"filter"}) /\ call[p].todo = {} /\ r \notin DOMAIN ledger
          \/ CutShort(p, {"unlock", "decided"}) /\ call[p].decision.reservation_id = r]_vars

\* Whatever path a call takes through reserve(), by a return, by an exception or by the
\* death of its process, the customer's lock comes free again (lock.py:26-31,
\* engine.py:58).
LockGivenBack ==
    \A w \in Processes, c \in Customers : lock[w][c] # Free ~> lock[w][c] = Free

\* The decision accounts for every candidate (engine.py:74-90, POA/05 2): with
\* distinct triggers in the list, the losers are the triggers that did not win,
\* one that lost the arbitration is outranked by the winner, and a decision that
\* engages nobody carries a reason.
DecisionAccounts ==
    \A p \in Threads :
        (call[p].pc = "decided" /\ call[p].candidates # {}) =>
            LET d     == call[p].decision
                won   == {c \in call[p].candidates :
                            /\ d.reservation_id # NoReservation
                            /\ c.trigger = ledger[d.reservation_id].trigger}
                lost  == {c \in call[p].candidates : d.losers[c.trigger] # "none"}
            IN  /\ (d.suppression_reason = "none") = (won # {})
                /\ (\A a, b \in call[p].candidates : a.trigger = b.trigger => a = b)
                      => lost = call[p].candidates \ won
                /\ \A w \in won, c \in lost :
                      d.losers[c.trigger] = "precedence_loss" => Weight[w.trigger] >= Weight[c.trigger]

=============================================================================
