-------------------------- MODULE PendingScheduler --------------------------
(***************************************************************************)
(* The deferred engagements (A7 / M06):                                    *)
(* services/event_pipeline/pending/queue.py, scheduler.py and tasks.py.    *)
(*                                                                         *)
(* Matches of deferred triggers wait in a table. When the customer logs in *)
(* within an entry's window the scheduler has the engine arbitrate, marks  *)
(* the winner's entry and fires it; a periodic sweep expires the overdue.  *)
(* Logins of one customer may overlap each other and the sweep; any        *)
(* statement may raise, and the scheduler's process may die between two.   *)
(***************************************************************************)
EXTENDS AtomicReserve

CONSTANTS EntryIds,     \* the values uuid4 can return for an entry
          Wait, Expiry, \* trigger -> the rule's wait_period and expiry
          Logins,       \* the threads that call on_login
          Free,         \* not a thread: nobody holds the lock
          Removable,    \* bound: the triggers that may leave the configuration
          MaxInterruptions \* bound: deaths of the process and failing calls

ASSUME PendingAssumption ==
    /\ Wait \in [Triggers -> Nat]
    /\ Expiry \in [Triggers -> Nat]
    /\ Free \notin Logins
    /\ MaxInterruptions \in Nat

VARIABLES queue,  \* the `pending_engagements` table: id -> the row's other columns
          rules,  \* the triggers RuleSource.active() returns
          clock,  \* the time of day
          lock,   \* the lock object: customer -> the thread in the critical section
          login,  \* thread -> its call of on_login
          sweep,  \* the sweep: the rows it selected and has yet to update
          fires,  \* the FireMessages emitted, with the thread each came from
          interruptions  \* deaths of the process and calls that failed so far

vars == <<ledger, queue, rules, clock, lock, login, sweep, fires, interruptions>>

Entry == [customer : Customers, trigger : Triggers, created_at : Times,
          eligible_at : Int, expires_at : Int,
          status : {"pending", "raised", "expired"}]

\* `entries` are the rows eligible_pending returned, later those that have a rule;
\* `gone` the others, until they are discarded; `entry` and `reservation` what the
\* engine approved.
Call == [pc : {"lock", "read", "rules", "discard", "reserve", "mark", "emit", "unlock"},
         customer : Customers, now : Times,
         entries : SUBSET EntryIds, gone : SUBSET EntryIds,
         entry : SUBSET EntryIds, reservation : SUBSET ResIds]

Idle == [pc |-> "idle"]

At(p, pc) == login[p].pc = pc

Goto(p, pc) == login' = [login EXCEPT ![p].pc = pc]

\* The call leaves the `with` block, and what it has found out is of no more use.
Leave(p) ==
    login' = [login EXCEPT ![p] = [@ EXCEPT !.pc = "unlock", !.entries = {}, !.gone = {},
                                            !.entry = {}, !.reservation = {}]]

\* The scheduler's default locks nothing; it may be given a PerCustomerLock.
NullLock == [c \in {} |-> Free]

PerCustomerLock == [c \in Customers |-> Free]

PerCustomer == DOMAIN lock = Customers

Interrupt ==
    /\ interruptions < MaxInterruptions
    /\ interruptions' = interruptions + 1

Marked(ids, status) ==
    [e \in DOMAIN queue |-> IF e \in ids THEN [queue[e] EXCEPT !.status = status] ELSE queue[e]]

-----------------------------------------------------------------------------
(* The queue *)

\* Bound: every entry expires within Times.
ExpiresInTime(created, t) == created + Expiry[t] \in Times

\* A uuid4 that no entry has; which one tells nothing.
FreshEntry ==
    LET unused == EntryIds \ DOMAIN queue
    IN  {e \in unused : e = CHOOSE x \in unused : TRUE}

\* A5 defers a match. The event happened some time before it gets here.
Enqueue ==
    /\ \E e \in FreshEntry, c \in Customers, t \in rules, created \in Times :
          /\ created <= clock
          /\ ExpiresInTime(created, t)
          /\ queue' = [x \in DOMAIN queue \cup {e} |->
                         IF x = e
                         THEN [customer |-> c, trigger |-> t, created_at |-> created,
                               eligible_at |-> created + Wait[t],
                               expires_at |-> created + Expiry[t], status |-> "pending"]
                         ELSE queue[x]]
    /\ UNCHANGED <<ledger, rules, clock, lock, login, sweep, fires, interruptions>>

\* Bug: the wait period is not looked at.
EligiblePending_noWait(c, now) ==
    {e \in DOMAIN queue : /\ queue[e].customer = c /\ queue[e].status = "pending"
                          /\ now < queue[e].expires_at}

EligiblePending(c, now) ==
    {e \in DOMAIN queue : /\ queue[e].customer = c /\ queue[e].status = "pending"
                          /\ queue[e].eligible_at <= now /\ now < queue[e].expires_at}

\* Bug: an entry whose window ends now is left for later.
Overdue_strict(now) ==
    {e \in DOMAIN queue : queue[e].status = "pending" /\ queue[e].expires_at < now}

Overdue(now) ==
    {e \in DOMAIN queue : queue[e].status = "pending" /\ queue[e].expires_at <= now}

\* expire_due is one transaction of two statements; what the first selected, the
\* second updates by id alone.
SweepSelect ==
    /\ sweep = {}
    /\ Overdue(clock) # {}
    /\ sweep' = Overdue(clock)
    /\ UNCHANGED <<ledger, queue, rules, clock, lock, login, fires, interruptions>>

SweepUpdate ==
    /\ sweep # {}
    /\ queue' = Marked(sweep, "expired")
    /\ sweep' = {}
    /\ UNCHANGED <<ledger, rules, clock, lock, login, fires, interruptions>>

\* The second statement fails, or the worker dies: the transaction is rolled back.
SweepFails ==
    /\ sweep # {}
    /\ Interrupt
    /\ sweep' = {}
    /\ UNCHANGED <<ledger, queue, rules, clock, lock, login, fires>>

\* The rows reconcile_stuck looks for. No statement of the program writes their status,
\* so there are none.
Stuck == {e \in DOMAIN queue : queue[e].status = "raising"}

\* reconcile_stuck: those that have been left for long enough go back to pending.
Reconcile ==
    /\ \E old \in SUBSET Stuck : queue' = Marked(old, "pending")
    /\ UNCHANGED <<ledger, rules, clock, lock, login, sweep, fires, interruptions>>

CeleryTasks == SweepSelect \/ SweepUpdate \/ Reconcile

-----------------------------------------------------------------------------
(* on_login *)

\* Calls that may yet take a reservation id.
Undecided == {p \in Logins : login[p].pc \in {"lock", "read", "rules", "discard", "reserve"}}

\* Bound: when ResIds is finite, a login starts only if an id is left for it.
IdLeft == IsFiniteSet(ResIds) => Cardinality(Undecided) < Cardinality(ResIds \ DOMAIN ledger)

OnLogin(p) ==
    /\ At(p, "idle")
    /\ IdLeft
    /\ \E c \in Customers :
          login' = [login EXCEPT ![p] = [pc |-> "lock", customer |-> c, now |-> clock,
                                         entries |-> {}, gone |-> {},
                                         entry |-> {}, reservation |-> {}]]
    /\ UNCHANGED <<ledger, queue, rules, clock, lock, sweep, fires, interruptions>>

\* NullLock never makes anyone wait.
Acquire(p) ==
    /\ At(p, "lock")
    /\ IF PerCustomer
       THEN /\ lock[login[p].customer] = Free
            /\ lock' = [lock EXCEPT ![login[p].customer] = p]
       ELSE UNCHANGED lock
    /\ Goto(p, "read")
    /\ UNCHANGED <<ledger, queue, rules, clock, sweep, fires, interruptions>>

Read(p) ==
    LET found == EligiblePending(login[p].customer, login[p].now)
    IN  /\ At(p, "read")
        /\ IF found = {}
           THEN Leave(p)
           ELSE login' = [login EXCEPT ![p].entries = found, ![p].pc = "rules"]
        /\ UNCHANGED <<ledger, queue, rules, clock, lock, sweep, fires, interruptions>>

\* The rules are read once. An entry whose trigger has left them is to be discarded.
LookUpRules(p) ==
    LET gone == {e \in login[p].entries : queue[e].trigger \notin rules}
    IN  /\ At(p, "rules")
        /\ login' = [login EXCEPT ![p].entries = @ \ gone, ![p].gone = gone,
                                  ![p].pc = "discard"]
        /\ UNCHANGED <<ledger, queue, rules, clock, lock, sweep, fires, interruptions>>

\* set_status(e.id, "expired"), one entry after the other.
Discard(p) ==
    /\ At(p, "discard")
    /\ \E e \in login[p].gone :
          /\ queue' = Marked({e}, "expired")
          /\ login' = [login EXCEPT ![p].gone = @ \ {e}]
    /\ UNCHANGED <<ledger, rules, clock, lock, sweep, fires, interruptions>>

Discarded(p) ==
    /\ At(p, "discard")
    /\ login[p].gone = {}
    /\ IF login[p].entries = {} THEN Leave(p) ELSE Goto(p, "reserve")
    /\ UNCHANGED <<ledger, queue, rules, clock, lock, sweep, fires, interruptions>>

\* The candidate of an entry. Entries of one trigger and time are alike to the engine.
CandidateOf(e) == [pos |-> 0, trigger |-> queue[e].trigger, signal_at |-> queue[e].created_at]

CandidatesOf(entries) == {CandidateOf(e) : e \in entries}

\* entry_by_trigger[t]: the list is in order of created_at, and the last entry stays.
EntryOf(entries, t) ==
    {e \in entries : /\ queue[e].trigger = t
                     /\ \A x \in entries : queue[x].trigger = t =>
                                              queue[x].created_at <= queue[e].created_at}

\* reserve() has trigger t win and inserts row r.
Approve(p, t, r) ==
    LET candidates == CandidatesOf(login[p].entries)
    IN  \E w \in candidates :
           /\ w.trigger = t
           /\ Approved(login[p].customer, candidates, login[p].now, w, r)

Reserve(p) ==
    /\ At(p, "reserve")
    /\ \/ /\ Refused(login[p].customer, CandidatesOf(login[p].entries), login[p].now)
          /\ Leave(p)
          /\ UNCHANGED ledger
       \/ \E t \in Triggers, r \in FreshIds :
             /\ Approve(p, t, r)
             /\ \E e \in EntryOf(login[p].entries, t) :
                   login' = [login EXCEPT ![p] = [@ EXCEPT !.pc = "mark", !.entries = {},
                                                           !.entry = {e}, !.reservation = {r}]]
    /\ UNCHANGED <<queue, rules, clock, lock, sweep, fires, interruptions>>

\* Bug: the entry is marked only in the call's own list.
MarkRaised_forgotten(p) ==
    /\ At(p, "mark")
    /\ Goto(p, "emit")
    /\ UNCHANGED <<ledger, queue, rules, clock, lock, sweep, fires, interruptions>>

\* set_status(entry.id, "raised"), whatever the status has become.
MarkRaised(p) ==
    /\ At(p, "mark")
    /\ queue' = Marked(login[p].entry, "raised")
    /\ Goto(p, "emit")
    /\ UNCHANGED <<ledger, rules, clock, lock, sweep, fires, interruptions>>

\* The FireMessage for the entry the call has marked.
Message(p) ==
    {[entry |-> e, reservation |-> r, login |-> p] :
        e \in login[p].entry, r \in login[p].reservation}

\* Bug: an entry the sweep has got hold of meanwhile is not fired any more.
Emit_ifStillRaised(p) ==
    /\ At(p, "emit")
    /\ fires' = fires \cup {m \in Message(p) : queue[m.entry].status = "raised"}
    /\ Leave(p)
    /\ UNCHANGED <<ledger, queue, rules, clock, lock, sweep, interruptions>>

\* Bug: the message goes out without the reservation it stands for.
Emit_noReservation(p) ==
    /\ At(p, "emit")
    /\ fires' = fires \cup {[entry |-> e, login |-> p] : e \in login[p].entry}
    /\ Leave(p)
    /\ UNCHANGED <<ledger, queue, rules, clock, lock, sweep, interruptions>>

Emit(p) ==
    /\ At(p, "emit")
    /\ fires' = fires \cup Message(p)
    /\ Leave(p)
    /\ UNCHANGED <<ledger, queue, rules, clock, lock, sweep, interruptions>>

\* A statement of the call raises, before it has done anything or, its answer lost,
\* after. The exception leaves on_login through the lock's finally; nothing that the
\* call has done before is undone.
Fail(p) ==
    /\ login[p].pc \in {"read", "rules", "discard", "reserve", "mark", "emit"}
    /\ At(p, "discard") => login[p].gone # {}
    /\ Interrupt
    /\ Leave(p)
    /\ \/ UNCHANGED <<ledger, queue, fires>>
       \/ /\ At(p, "discard")
          /\ \E e \in login[p].gone : queue' = Marked({e}, "expired")
          /\ UNCHANGED <<ledger, fires>>
       \/ /\ At(p, "reserve")
          /\ \E t \in Triggers, r \in FreshIds : Approve(p, t, r)
          /\ UNCHANGED <<queue, fires>>
       \/ /\ At(p, "mark")
          /\ queue' = Marked(login[p].entry, "raised")
          /\ UNCHANGED <<ledger, fires>>
       \/ /\ At(p, "emit")
          /\ fires' = fires \cup Message(p)
          /\ UNCHANGED <<ledger, queue>>
    /\ UNCHANGED <<rules, clock, lock, sweep>>

Unlock(p) ==
    /\ At(p, "unlock")
    /\ lock' = IF PerCustomer THEN [lock EXCEPT ![login[p].customer] = Free] ELSE lock
    /\ login' = [login EXCEPT ![p] = Idle]
    /\ UNCHANGED <<ledger, queue, rules, clock, sweep, fires, interruptions>>

-----------------------------------------------------------------------------
(* Around the scheduler *)

\* M08 reports on a reservation it received.
Settle ==
    /\ \E m \in fires, status \in {"confirmed", "rolled_back"} :
          SetStatus(m.reservation, status, {"reserved"})
    /\ UNCHANGED <<queue, rules, clock, lock, login, sweep, fires, interruptions>>

\* A trigger is taken out of the configuration.
RemoveRule ==
    /\ \E t \in rules \cap Removable : rules' = rules \ {t}
    /\ UNCHANGED <<ledger, queue, clock, lock, login, sweep, fires, interruptions>>

Tick ==
    /\ clock + 1 \in Times
    /\ clock' = clock + 1
    /\ UNCHANGED <<ledger, queue, rules, lock, login, sweep, fires, interruptions>>

\* The process dies: its calls are gone, its locks are new. The sweep's transaction
\* runs in a Celery worker and is left alone.
Crash ==
    /\ Interrupt
    /\ login' = [p \in Logins |-> Idle]
    /\ lock' = [c \in DOMAIN lock |-> Free]
    /\ UNCHANGED <<ledger, queue, rules, clock, sweep, fires>>

\* Bound: every reservation id is used up, and no call is under way.
OutOfIds ==
    /\ ~IdLeft
    /\ \A p \in Logins : At(p, "idle")
    /\ UNCHANGED vars

-----------------------------------------------------------------------------

Init ==
    /\ LedgerInit
    /\ queue = [e \in {} |-> {}]
    /\ rules = Triggers
    /\ clock \in Times
    /\ lock \in {NullLock, PerCustomerLock}
    /\ login = [p \in Logins |-> Idle]
    /\ sweep = {}
    /\ fires = {}
    /\ interruptions = 0

LoginStep(p) ==
    \/ Acquire(p) \/ Read(p) \/ LookUpRules(p) \/ Discard(p) \/ Discarded(p)
    \/ Reserve(p) \/ MarkRaised(p) \/ Emit(p) \/ Unlock(p)

Next ==
    \/ Enqueue
    \/ CeleryTasks
    \/ \E p \in Logins : OnLogin(p) \/ LoginStep(p) \/ Fail(p)
    \/ Settle \/ RemoveRule \/ Tick \/ Crash \/ SweepFails
    \/ OutOfIds

Spec == Init /\ [][Next]_vars

\* Time passes, Celery Beat goes on running the sweep, and calls of on_login end.
\* Nobody has to log in, and nobody is owed a contended lock.
Fairness ==
    /\ WF_vars(Tick)
    /\ WF_vars(SweepSelect \/ SweepUpdate)
    /\ \A p \in Logins : WF_vars(LoginStep(p))

LiveSpec == Spec /\ Fairness

-----------------------------------------------------------------------------
(* Properties *)

TypeOK ==
    /\ LedgerType
    /\ DOMAIN queue \subseteq EntryIds
    /\ queue \in [DOMAIN queue -> Entry]
    /\ rules \subseteq Triggers
    /\ clock \in Times
    /\ DOMAIN lock \in {{}, Customers}
    /\ lock \in [DOMAIN lock -> Logins \cup {Free}]
    /\ login \in [Logins -> Call \cup {Idle}]
    /\ sweep \subseteq DOMAIN queue
    /\ fires \subseteq [entry : DOMAIN queue, reservation : DOMAIN ledger, login : Logins]
    /\ interruptions \in 0..MaxInterruptions

\* How often one entry is raised (POA/06 26-28, scheduler.py:6-7, 39): with a
\* PerCustomerLock no two FireMessages come from one entry, however logins, sweeps,
\* failures and crashes fall; with the default NullLock two logins that overlap may
\* both raise it, but no thread raises it twice, so its later logins find it taken.
RaisedOnce ==
    \A m, n \in fires :
        m.entry = n.entry /\ (PerCustomer \/ m.login = n.login) => m = n

\* "Concurrent logins never double-raise the same entry" (scheduler.py:6-7).
NeverRaisedTwice == \A m, n \in fires : m.entry = n.entry => m = n

\* A deferred match is engaged by a reservation of its own customer and trigger, made
\* within its window (queue.py:70-80, scheduler.py:44-75): by the time of the login the
\* wait has elapsed and the expiry has not, whatever has become of the row, the rules or
\* the lock between the query and the message.
EngagedInWindow ==
    \A m \in fires :
        LET e == queue[m.entry]  row == ledger[m.reservation]
        IN  /\ row.customer = e.customer /\ row.trigger = e.trigger
            /\ e.eligible_at <= row.reserved_at /\ row.reserved_at < e.expires_at

\* Entries and reservations that are used up without a message, and that no call is
\* about to send.
Lost ==
    {e \in DOMAIN queue :
        /\ queue[e].status = "raised"
        /\ \A m \in fires : m.entry # e
        /\ \A p \in Logins : ~(login[p].pc = "emit" /\ e \in login[p].entry)}

Stranded ==
    {r \in DOMAIN ledger :
        /\ ledger[r].status = "reserved"
        /\ \A m \in fires : m.reservation # r
        /\ \A p \in Logins : ~(login[p].pc \in {"mark", "emit"} /\ r \in login[p].reservation)}

\* The step is an interruption that ends p's call while it is at one of the pcs.
Interrupted(p, pcs) ==
    interruptions' > interruptions /\ login[p].pc \in pcs /\ login'[p].pc \in {"unlock", "idle"}

\* A deferred match is lost, or a reservation left counted with nobody to settle it, only
\* by an interruption of the very call that holds it between reserve() and emit()
\* (scheduler.py:61-76): overlapping logins, the sweep, a refusal, a failure of another
\* call or before the reservation, lose nothing, whichever lock there is.
OnlyInterruptionsLose ==
    [][/\ \A e \in Lost' \ Lost : \E p \in Logins :
             Interrupted(p, {"mark", "emit"}) /\ e \in login[p].entry
       /\ \A r \in Stranded' \ Stranded : \E p \in Logins :
             \/ Interrupted(p, {"reserve"}) /\ r \notin DOMAIN ledger
             \/ Interrupted(p, {"mark", "emit"}) /\ r \in login[p].reservation]_vars

\* No entry waits for ever: its customer logs in in time, or the sweep expires it.
NothingPendingForever ==
    \A e \in EntryIds :
        (e \in DOMAIN queue /\ queue[e].status = "pending")
            ~> (e \in DOMAIN queue /\ queue[e].status # "pending")

=============================================================================
