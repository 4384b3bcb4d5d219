----------------------- MODULE PendingSchedulerProofs -----------------------
(***************************************************************************)
(* The scheduler engages a deferred match within its window only, keeps    *)
(* the engine's caps and loses nothing but by an interruption of the call  *)
(* that holds it; with a PerCustomerLock it raises a match at most once,   *)
(* with the default NullLock at most once from each thread. All of it for  *)
(* every number of logins, customers, entries, crashes and failing calls.  *)
(***************************************************************************)
EXTENDS PendingScheduler, EngagementLedgerProofs

-----------------------------------------------------------------------------
(* The inductive invariant *)

Critical == {"read", "rules", "discard", "reserve", "mark", "emit", "unlock"}

\* Which of the two locks the scheduler has is plain from the object.
USE DEF PerCustomer

\* Who is in the critical section holds its customer's lock, if there are locks.
LockHeld ==
    PerCustomer => \A p \in Logins : login[p].pc \in Critical => lock[login[p].customer] = p

\* Entry e has been raised by p, or by whom p would have waited for.
Taken(p, e) == \E m \in fires : m.entry = e /\ (PerCustomer \/ m.login = p)

\* What eligible_pending found out about entry e is true of p's call q: its status may
\* have become another since.
Ready(p, q, e) ==
    /\ e \in DOMAIN queue /\ queue[e].customer = q.customer
    /\ queue[e].eligible_at <= q.now /\ q.now < queue[e].expires_at
    /\ ~Taken(p, e)

\* Reservation r was made for entry e by p's call q.
Engages(p, q, e, r) ==
    /\ q.entry = {e} /\ q.reservation = {r}
    /\ Ready(p, q, e)
    /\ r \in DOMAIN ledger /\ ledger[r].customer = q.customer
    /\ ledger[r].trigger = queue[e].trigger /\ ledger[r].reserved_at = q.now

CallOK(p, q) ==
    /\ q.pc \in {"rules", "discard", "reserve"} => \A e \in q.entries : Ready(p, q, e)
    /\ q.pc \in {"mark", "emit"} => \E e, r : Engages(p, q, e, r)
    /\ q.pc = "emit" => \A e \in q.entry : queue[e].status # "pending"

CallsOK == \A p \in Logins : CallOK(p, login[p])

FiredGone == \A m \in fires : queue[m.entry].status # "pending"

FiresOK == FiredGone /\ RaisedOnce /\ EngagedInWindow

PendingInv == TypeOK /\ LockHeld /\ CallsOK /\ FiresOK

-----------------------------------------------------------------------------
(* What no step does to a row *)

QueueKept ==
    \A e \in DOMAIN queue :
        /\ e \in DOMAIN queue'
        /\ queue'[e].customer = queue[e].customer /\ queue'[e].trigger = queue[e].trigger
        /\ queue'[e].eligible_at = queue[e].eligible_at
        /\ queue'[e].expires_at = queue[e].expires_at
        /\ queue[e].status # "pending" => queue'[e].status # "pending"

LedgerKept ==
    \A r \in DOMAIN ledger :
        /\ r \in DOMAIN ledger'
        /\ ledger'[r].customer = ledger[r].customer /\ ledger'[r].trigger = ledger[r].trigger
        /\ ledger'[r].reserved_at = ledger[r].reserved_at

LEMMA SameQueueKept == ASSUME queue' = queue PROVE QueueKept
BY DEF QueueKept

LEMMA SameLedgerKept == ASSUME ledger' = ledger PROVE LedgerKept
BY DEF LedgerKept

LEMMA MarkedKept ==
    ASSUME TypeOK, NEW ids, NEW status \in {"raised", "expired"}, queue' = Marked(ids, status)
    PROVE  /\ QueueKept /\ DOMAIN queue' = DOMAIN queue
           /\ queue' \in [DOMAIN queue' -> Entry]
           /\ \A e \in ids \cap DOMAIN queue : queue'[e].status = status
<1>1. DOMAIN queue' = DOMAIN queue
  BY DEF Marked
<1>2. \A e \in DOMAIN queue : queue[e] \in Entry
  BY DEF TypeOK
<1>3. \A e \in DOMAIN queue :
         queue'[e] = IF e \in ids THEN [queue[e] EXCEPT !.status = status] ELSE queue[e]
  BY DEF Marked
<1>4. \A e \in DOMAIN queue : queue'[e] \in Entry
  BY <1>2, <1>3 DEF Entry
<1>5. queue' \in [DOMAIN queue' -> Entry]
  BY <1>1, <1>4 DEF Marked
<1>6. QueueKept
  BY <1>1, <1>2, <1>3 DEF QueueKept, Entry
<1>7. \A e \in ids \cap DOMAIN queue : queue'[e].status = status
  BY <1>2, <1>3 DEF Entry
<1> QED
  BY <1>1, <1>5, <1>6, <1>7

\* A call that does not move stays right, if no entry of its customer is taken from it.
LEMMA CallKept ==
    ASSUME NEW p, NEW q, CallOK(p, q), QueueKept, LedgerKept,
           \A e \in DOMAIN queue : queue[e].customer = q.customer /\ Taken(p, e)' => Taken(p, e)
    PROVE  CallOK(p, q)'
<1>1. \A e : Ready(p, q, e) => Ready(p, q, e)'
  BY DEF Ready, QueueKept
<1>2. \A e, r : Engages(p, q, e, r) => Engages(p, q, e, r)'
  BY <1>1 DEF Engages, Ready, QueueKept, LedgerKept
<1>3. ASSUME q.pc = "emit", NEW e \in q.entry PROVE queue'[e].status # "pending"
  <2>1. e \in DOMAIN queue /\ queue[e].status # "pending"
    BY <1>3 DEF CallOK, Engages, Ready
  <2> QED
    BY <2>1 DEF QueueKept
<1> QED
  BY <1>1, <1>2, <1>3 DEF CallOK

LEMMA FiresKept ==
    ASSUME TypeOK, FiresOK, QueueKept, LedgerKept, fires' = fires, DOMAIN lock' = DOMAIN lock
    PROVE  FiresOK'
<1>1. \A m \in fires : m.entry \in DOMAIN queue /\ m.reservation \in DOMAIN ledger
  BY DEF TypeOK
<1> QED
  BY <1>1 DEF FiresOK, FiredGone, RaisedOnce, EngagedInWindow, QueueKept, LedgerKept

\* A step of call p that sends no message leaves everything right, if it leaves that
\* call right.
LEMMA StepKept ==
    ASSUME PendingInv, QueueKept, LedgerKept, fires' = fires, DOMAIN lock' = DOMAIN lock, NEW p,
           \A o \in Logins \ {p} : login'[o] = login[o],
           p \in Logins => CallOK(p, login[p])'
    PROVE  CallsOK' /\ FiresOK'
<1>1. ASSUME NEW o \in Logins \ {p} PROVE CallOK(o, login[o])'
  <2>1. PICK q : q = login[o]
    OBVIOUS
  <2>2. CallOK(o, q)
    BY <2>1 DEF PendingInv, CallsOK
  <2>3. CallOK(o, q)'
    BY <2>2, CallKept DEF Taken
  <2> QED
    BY <2>1, <2>3 DEF CallOK, Engages, Ready
<1>2. CallsOK'
  BY <1>1 DEF CallsOK
<1> QED
  BY <1>2, FiresKept DEF PendingInv

-----------------------------------------------------------------------------
(* Types *)

LEMMA CallType ==
    ASSUME TypeOK, NEW p \in Logins, login[p].pc # "idle"
    PROVE  login[p] \in Call
BY DEF TypeOK, Idle

LEMMA LoginType ==
    ASSUME TypeOK, NEW p \in Logins, NEW q \in Call \cup {Idle}, login' = [login EXCEPT ![p] = q]
    PROVE  /\ login' \in [Logins -> Call \cup {Idle}]
           /\ login'[p] = q /\ \A o \in Logins \ {p} : login'[o] = login[o]
BY DEF TypeOK

\* A step inside the critical section that sends no message: what is left to show is
\* that the moved call is right, and the other variables' types.
LEMMA MoveKept ==
    ASSUME PendingInv, NEW p \in Logins, login[p].pc \in Critical,
           NEW q \in Call, login' = [login EXCEPT ![p] = q], q.customer = login[p].customer,
           lock' = lock, fires' = fires, QueueKept, LedgerKept, CallOK(p, q)'
    PROVE  /\ LockHeld' /\ CallsOK' /\ FiresOK'
           /\ login' \in [Logins -> Call \cup {Idle}]
<1>1. TypeOK
  BY DEF PendingInv
<1>2. /\ login' \in [Logins -> Call \cup {Idle}]
      /\ login'[p] = q /\ \A o \in Logins \ {p} : login'[o] = login[o]
  BY <1>1, LoginType
<1>3. LockHeld'
  BY <1>2 DEF PendingInv, LockHeld
<1>4. CallOK(p, login[p])'
  BY <1>2 DEF CallOK, Engages, Ready
<1>5. CallsOK' /\ FiresOK'
  BY <1>2, <1>4, StepKept
<1> QED
  BY <1>2, <1>3, <1>5

\* So it is with a call that leaves.
LEMMA LeaveKept ==
    ASSUME PendingInv, NEW p \in Logins, login[p].pc \in Critical, Leave(p),
           lock' = lock, fires' = fires, QueueKept, LedgerKept
    PROVE  /\ LockHeld' /\ CallsOK' /\ FiresOK'
           /\ login' \in [Logins -> Call \cup {Idle}]
<1>1. login[p] \in Call
  BY CallType DEF PendingInv, Critical
<1>2. PICK q : q = [login[p] EXCEPT !.pc = "unlock", !.entries = {}, !.gone = {}, !.entry = {},
                                    !.reservation = {}]
  OBVIOUS
<1>3. q \in Call /\ q.pc = "unlock" /\ q.customer = login[p].customer
  BY <1>1, <1>2 DEF Call
<1>4. login' = [login EXCEPT ![p] = q]
  BY <1>2 DEF Leave
<1>5. CallOK(p, q)'
  BY <1>3 DEF CallOK
<1> QED
  BY <1>3, <1>4, <1>5, MoveKept

-----------------------------------------------------------------------------
(* on_login, statement by statement *)

LEMMA OnLoginKept ==
    ASSUME PendingAssumption, PendingInv, NEW p \in Logins, OnLogin(p)
    PROVE  PendingInv'
<1>1. PICK c \in Customers :
         login' = [login EXCEPT ![p] = [pc |-> "lock", customer |-> c, now |-> clock,
                                        entries |-> {}, gone |-> {},
                                        entry |-> {}, reservation |-> {}]]
  BY DEF OnLogin
<1>2. PICK q : q = [pc |-> "lock", customer |-> c, now |-> clock, entries |-> {}, gone |-> {},
                    entry |-> {}, reservation |-> {}]
  OBVIOUS
<1>3. q \in Call /\ q.pc = "lock"
  BY <1>2 DEF PendingInv, TypeOK, Call
<1>4. /\ login' \in [Logins -> Call \cup {Idle}]
      /\ login'[p] = q /\ \A o \in Logins \ {p} : login'[o] = login[o]
  BY <1>1, <1>2, <1>3, LoginType DEF PendingInv
<1>5. UNCHANGED <<ledger, queue, rules, clock, lock, sweep, fires, interruptions>>
  BY DEF OnLogin
<1>6. CallOK(p, login[p])'
  BY <1>3, <1>4 DEF CallOK
<1>7. CallsOK' /\ FiresOK'
  BY <1>4, <1>5, <1>6, StepKept, SameQueueKept, SameLedgerKept
<1>8. LockHeld'
  BY <1>3, <1>4, <1>5 DEF PendingInv, LockHeld, Critical
<1>9. TypeOK'
  BY <1>4, <1>5 DEF PendingInv, TypeOK, LedgerType
<1> QED
  BY <1>7, <1>8, <1>9 DEF PendingInv

LEMMA AcquireKept ==
    ASSUME PendingAssumption, PendingInv, NEW p \in Logins, Acquire(p)
    PROVE  PendingInv'
<1>1. login[p].pc = "lock" /\ login[p] \in Call
  BY CallType DEF PendingInv, Acquire, At
<1>2. PICK q : q = [login[p] EXCEPT !.pc = "read"]
  OBVIOUS
<1>3. q \in Call /\ q.pc = "read" /\ q.customer = login[p].customer /\ q.customer \in Customers
  BY <1>1, <1>2 DEF Call
<1>4. login' = [login EXCEPT ![p] = q]
  BY <1>2 DEF Acquire, Goto
<1>5. /\ login' \in [Logins -> Call \cup {Idle}]
      /\ login'[p] = q /\ \A o \in Logins \ {p} : login'[o] = login[o]
  BY <1>3, <1>4, LoginType DEF PendingInv
<1>6. /\ IF PerCustomer
         THEN lock[q.customer] = Free /\ lock' = [lock EXCEPT ![q.customer] = p]
         ELSE lock' = lock
      /\ UNCHANGED <<ledger, queue, rules, clock, sweep, fires, interruptions>>
  BY <1>3 DEF Acquire
<1>7. CallOK(p, login[p])'
  BY <1>3, <1>5 DEF CallOK
<1>8. CallsOK' /\ FiresOK'
  BY <1>5, <1>6, <1>7, StepKept, SameQueueKept, SameLedgerKept
<1>9. LockHeld'
  <2> SUFFICES ASSUME PerCustomer, NEW o \in Logins, login'[o].pc \in Critical
               PROVE  lock'[login'[o].customer] = o
    BY <1>6 DEF LockHeld
  <2>1. lock \in [Customers -> Logins \cup {Free}] /\ Free \notin Logins
    BY <1>6 DEF PendingInv, TypeOK, PendingAssumption
  <2>2. lock[q.customer] = Free /\ lock' = [lock EXCEPT ![q.customer] = p]
    BY <1>6
  <2>3. CASE o = p
    BY <1>3, <1>5, <2>1, <2>2, <2>3
  <2>4. CASE o # p
    <3>1. lock[login[o].customer] = o
      BY <1>5, <2>4 DEF PendingInv, LockHeld
    <3>2. login[o].customer # q.customer
      BY <2>1, <2>2, <3>1
    <3> QED
      BY <1>5, <2>1, <2>2, <2>4, <3>1, <3>2
  <2> QED
    BY <2>3, <2>4
<1>10. TypeOK'
  BY <1>3, <1>5, <1>6 DEF PendingInv, TypeOK, LedgerType
<1> QED
  BY <1>8, <1>9, <1>10 DEF PendingInv

LEMMA ReadKept ==
    ASSUME PendingAssumption, PendingInv, NEW p \in Logins, Read(p)
    PROVE  PendingInv'
<1>1. login[p].pc = "read" /\ login[p] \in Call
  BY CallType DEF PendingInv, Read, At
<1>2. PICK found : found = EligiblePending(login[p].customer, login[p].now)
  OBVIOUS
<1>3. found \subseteq DOMAIN queue /\ found \subseteq EntryIds
  BY <1>2 DEF EligiblePending, PendingInv, TypeOK
<1>4. /\ Leave(p) \/ login' = [login EXCEPT ![p].entries = found, ![p].pc = "rules"]
      /\ UNCHANGED <<ledger, queue, rules, clock, lock, sweep, fires, interruptions>>
  BY <1>2 DEF Read
<1>5. QueueKept /\ LedgerKept
  BY <1>4, SameQueueKept, SameLedgerKept
<1>6. LockHeld' /\ CallsOK' /\ FiresOK' /\ login' \in [Logins -> Call \cup {Idle}]
  <2>1. CASE Leave(p)
    BY <1>1, <1>4, <1>5, <2>1, LeaveKept DEF Critical
  <2>2. CASE ~Leave(p)
    <3>1. PICK q : q = [login[p] EXCEPT !.entries = found, !.pc = "rules"]
      OBVIOUS
    <3>2. /\ q \in Call /\ q.pc = "rules" /\ q.customer = login[p].customer
          /\ q.now = login[p].now /\ q.entries = found
      BY <1>1, <1>3, <3>1 DEF Call
    <3>3. login' = [login EXCEPT ![p] = q]
      BY <1>4, <2>2, <3>1
    <3>4. \A e \in found : Ready(p, q, e)
      BY <1>2, <3>2 DEF EligiblePending, Ready, Taken, PendingInv, FiresOK, FiredGone
    <3>5. CallOK(p, q)'
      BY <1>4, <3>2, <3>4 DEF CallOK, Ready, Taken
    <3> QED
      BY <1>1, <1>4, <1>5, <3>2, <3>3, <3>5, MoveKept DEF Critical
  <2> QED
    BY <2>1, <2>2
<1>7. TypeOK'
  BY <1>4, <1>6 DEF PendingInv, TypeOK, LedgerType
<1> QED
  BY <1>6, <1>7 DEF PendingInv

LEMMA LookUpRulesKept ==
    ASSUME PendingAssumption, PendingInv, NEW p \in Logins, LookUpRules(p)
    PROVE  PendingInv'
<1>1. login[p].pc = "rules" /\ login[p] \in Call
  BY CallType DEF PendingInv, LookUpRules, At
<1>2. PICK gone : gone = {e \in login[p].entries : queue[e].trigger \notin rules}
  OBVIOUS
<1>3. PICK q : q = [login[p] EXCEPT !.entries = login[p].entries \ gone, !.gone = gone,
                                    !.pc = "discard"]
  OBVIOUS
<1>4. gone \subseteq EntryIds /\ login[p].entries \subseteq EntryIds
  BY <1>1, <1>2 DEF Call
<1>5. /\ q \in Call /\ q.pc = "discard" /\ q.customer = login[p].customer
      /\ q.now = login[p].now /\ q.entries \subseteq login[p].entries
  BY <1>1, <1>3, <1>4 DEF Call
<1>6. /\ login' = [login EXCEPT ![p] = q]
      /\ UNCHANGED <<ledger, queue, rules, clock, lock, sweep, fires, interruptions>>
  BY <1>1, <1>2, <1>3 DEF LookUpRules, PendingInv, TypeOK
<1>7. \A e \in login[p].entries : Ready(p, login[p], e)
  BY <1>1 DEF PendingInv, CallsOK, CallOK
<1>8. CallOK(p, q)'
  BY <1>5, <1>6, <1>7 DEF CallOK, Ready, Taken
<1>9. QueueKept /\ LedgerKept
  BY <1>6, SameQueueKept, SameLedgerKept
<1>10. LockHeld' /\ CallsOK' /\ FiresOK' /\ login' \in [Logins -> Call \cup {Idle}]
  BY <1>1, <1>5, <1>6, <1>8, <1>9, MoveKept DEF Critical
<1>11. TypeOK'
  BY <1>6, <1>10 DEF PendingInv, TypeOK, LedgerType
<1> QED
  BY <1>10, <1>11 DEF PendingInv

LEMMA DiscardKept ==
    ASSUME PendingAssumption, PendingInv, NEW p \in Logins, Discard(p)
    PROVE  PendingInv'
<1>1. login[p].pc = "discard" /\ login[p] \in Call
  BY CallType DEF PendingInv, Discard, At
<1>2. PICK e \in login[p].gone : /\ queue' = Marked({e}, "expired")
                                 /\ login' = [login EXCEPT ![p].gone = @ \ {e}]
  BY DEF Discard
<1>3. PICK q : q = [login[p] EXCEPT !.gone = login[p].gone \ {e}]
  OBVIOUS
<1>4. login[p].gone \subseteq EntryIds
  BY <1>1 DEF Call
<1>5. /\ q \in Call /\ q.pc = "discard" /\ q.customer = login[p].customer
      /\ q.now = login[p].now /\ q.entries = login[p].entries
  BY <1>1, <1>3, <1>4 DEF Call
<1>6. /\ login' = [login EXCEPT ![p] = q]
      /\ UNCHANGED <<ledger, rules, clock, lock, sweep, fires, interruptions>>
  BY <1>2, <1>3 DEF Discard
<1>7. /\ QueueKept /\ DOMAIN queue' = DOMAIN queue /\ queue' \in [DOMAIN queue' -> Entry]
      /\ LedgerKept
  BY <1>2, <1>6, MarkedKept, SameLedgerKept DEF PendingInv
<1>8. CallOK(p, q)
  BY <1>1, <1>5 DEF PendingInv, CallsOK, CallOK, Ready
<1>9. CallOK(p, q)'
  BY <1>6, <1>7, <1>8, CallKept DEF Taken
<1>10. LockHeld' /\ CallsOK' /\ FiresOK' /\ login' \in [Logins -> Call \cup {Idle}]
  BY <1>1, <1>5, <1>6, <1>7, <1>9, MoveKept DEF Critical
<1>11. TypeOK'
  BY <1>6, <1>7, <1>10 DEF PendingInv, TypeOK, LedgerType
<1> QED
  BY <1>10, <1>11 DEF PendingInv

LEMMA DiscardedKept ==
    ASSUME PendingAssumption, PendingInv, NEW p \in Logins, Discarded(p)
    PROVE  PendingInv'
<1>1. login[p].pc = "discard" /\ login[p] \in Call
  BY CallType DEF PendingInv, Discarded, At
<1>2. /\ Leave(p) \/ Goto(p, "reserve")
      /\ UNCHANGED <<ledger, queue, rules, clock, lock, sweep, fires, interruptions>>
  BY DEF Discarded
<1>3. QueueKept /\ LedgerKept
  BY <1>2, SameQueueKept, SameLedgerKept
<1>4. LockHeld' /\ CallsOK' /\ FiresOK' /\ login' \in [Logins -> Call \cup {Idle}]
  <2>1. CASE Leave(p)
    BY <1>1, <1>2, <1>3, <2>1, LeaveKept DEF Critical
  <2>2. CASE Goto(p, "reserve")
    <3>1. PICK q : q = [login[p] EXCEPT !.pc = "reserve"]
      OBVIOUS
    <3>2. /\ q \in Call /\ q.pc = "reserve" /\ q.customer = login[p].customer
          /\ q.now = login[p].now /\ q.entries = login[p].entries
      BY <1>1, <3>1 DEF Call
    <3>3. login' = [login EXCEPT ![p] = q]
      BY <2>2, <3>1 DEF Goto
    <3>4. CallOK(p, q)
      BY <1>1, <3>2 DEF PendingInv, CallsOK, CallOK, Ready
    <3>5. CallOK(p, q)'
      BY <1>2, <1>3, <3>4, CallKept DEF Taken
    <3> QED
      BY <1>1, <1>2, <1>3, <3>2, <3>3, <3>5, MoveKept DEF Critical
  <2> QED
    BY <1>2, <2>1, <2>2
<1>5. TypeOK'
  BY <1>2, <1>4 DEF PendingInv, TypeOK, LedgerType
<1> QED
  BY <1>4, <1>5 DEF PendingInv

\* The row reserve() inserts is a new one, with room for it.
LEMMA ApprovedRow ==
    ASSUME NEW p \in Logins, NEW t \in Triggers, NEW r \in FreshIds, Approve(p, t, r)
    PROVE  /\ r \in ResIds \ DOMAIN ledger
           /\ InsertRow(r, login[p].customer, t, login[p].now)
           /\ ~InCooldown(login[p].customer, login[p].now)
           /\ \A cap \in GlobalCap : WouldFire(CountedRows(login[p].customer), login[p].now, cap)
           /\ WouldFire(CountedRowsOf(login[p].customer, t), login[p].now, TriggerCap[t])
<1> DEFINE candidates == CandidatesOf(login[p].entries)
<1>1. PICK w \in candidates :
         w.trigger = t /\ Approved(login[p].customer, candidates, login[p].now, w, r)
  BY DEF Approve
<1>2. /\ ~Refused(login[p].customer, candidates, login[p].now)
      /\ w \in Eligible(login[p].customer, candidates, login[p].now)
      /\ InsertRow(r, login[p].customer, t, login[p].now)
  BY <1>1 DEF Approved, IsWinner
<1> QED
  BY <1>1, <1>2 DEF Refused, Eligible, FreshIds

\* reserve() either refuses, and leaves the ledger alone, or approves.
LEMMA ReserveDecides ==
    ASSUME NEW p \in Logins, Reserve(p)
    PROVE  \/ Leave(p) /\ UNCHANGED ledger
           \/ \E t \in Triggers, r \in FreshIds, e \in login[p].entries :
                /\ queue[e].trigger = t /\ Approve(p, t, r)
                /\ login' = [login EXCEPT ![p] = [login[p] EXCEPT !.pc = "mark", !.entries = {},
                                                     !.entry = {e}, !.reservation = {r}]]
BY DEF Reserve, EntryOf

LEMMA ReserveKept ==
    ASSUME PendingAssumption, PendingInv, NEW p \in Logins, Reserve(p)
    PROVE  PendingInv'
<1>1. login[p].pc = "reserve" /\ login[p] \in Call
  BY CallType DEF PendingInv, Reserve, At
<1>2. UNCHANGED <<queue, rules, clock, lock, sweep, fires, interruptions>>
  BY DEF Reserve
<1>3. \A e \in login[p].entries : Ready(p, login[p], e)
  BY <1>1 DEF PendingInv, CallsOK, CallOK
<1>4. CASE Leave(p) /\ UNCHANGED ledger
  <2>1. QueueKept /\ LedgerKept
    BY <1>2, <1>4, SameQueueKept, SameLedgerKept
  <2>2. LockHeld' /\ CallsOK' /\ FiresOK' /\ login' \in [Logins -> Call \cup {Idle}]
    BY <1>1, <1>2, <1>4, <2>1, LeaveKept DEF Critical
  <2>3. TypeOK'
    BY <1>2, <1>4, <2>2 DEF PendingInv, TypeOK, LedgerType
  <2> QED
    BY <2>2, <2>3 DEF PendingInv
<1>5. ASSUME NEW t \in Triggers, NEW r \in FreshIds, NEW e \in login[p].entries,
             queue[e].trigger = t, Approve(p, t, r),
             login' = [login EXCEPT ![p] = [login[p] EXCEPT !.pc = "mark", !.entries = {},
                                              !.entry = {e}, !.reservation = {r}]]
      PROVE  PendingInv'
  <2>1. r \in ResIds \ DOMAIN ledger /\ InsertRow(r, login[p].customer, t, login[p].now)
    BY <1>5, ApprovedRow
  <2>2. PICK q : q = [login[p] EXCEPT !.pc = "mark", !.entries = {}, !.entry = {e},
                                      !.reservation = {r}]
    OBVIOUS
  <2>3. login[p].customer \in Customers /\ login[p].now \in Times /\ e \in EntryIds
    BY <1>1 DEF Call
  <2>4. /\ q \in Call /\ q.pc = "mark" /\ q.customer = login[p].customer
        /\ q.now = login[p].now /\ q.entry = {e} /\ q.reservation = {r}
    BY <1>1, <2>1, <2>2, <2>3 DEF Call
  <2>5. login' = [login EXCEPT ![p] = q]
    BY <1>5, <2>2
  <2>6. LedgerType' /\ \A x \in DOMAIN ledger : ledger'[x] = ledger[x]
    BY <2>1, <2>3, InsertedRows DEF PendingInv, TypeOK
  <2>7. /\ DOMAIN ledger' = DOMAIN ledger \cup {r}
        /\ ledger'[r].customer = q.customer /\ ledger'[r].trigger = t
        /\ ledger'[r].reserved_at = q.now
    BY <2>1, <2>4 DEF InsertRow
  <2>8. QueueKept /\ LedgerKept
    BY <1>2, <2>6, <2>7, SameQueueKept DEF LedgerKept
  <2>9. Ready(p, q, e)'
    BY <1>2, <1>3, <2>4 DEF Ready, Taken
  <2>10. Engages(p, q, e, r)'
    BY <1>2, <1>5, <2>4, <2>7, <2>9 DEF Engages
  <2>11. CallOK(p, q)'
    BY <2>4, <2>10 DEF CallOK
  <2>12. LockHeld' /\ CallsOK' /\ FiresOK' /\ login' \in [Logins -> Call \cup {Idle}]
    BY <1>1, <1>2, <2>4, <2>5, <2>8, <2>11, MoveKept DEF Critical
  <2>13. TypeOK'
    BY <1>2, <2>6, <2>7, <2>12 DEF PendingInv, TypeOK
  <2> QED
    BY <2>12, <2>13 DEF PendingInv
<1> QED
  BY <1>4, <1>5, ReserveDecides

LEMMA MarkRaisedKept ==
    ASSUME PendingAssumption, PendingInv, NEW p \in Logins, MarkRaised(p)
    PROVE  PendingInv'
<1>1. login[p].pc = "mark" /\ login[p] \in Call
  BY CallType DEF PendingInv, MarkRaised, At
<1>2. PICK q : q = [login[p] EXCEPT !.pc = "emit"]
  OBVIOUS
<1>3. /\ q \in Call /\ q.pc = "emit" /\ q.customer = login[p].customer /\ q.now = login[p].now
      /\ q.entry = login[p].entry /\ q.reservation = login[p].reservation
  BY <1>1, <1>2 DEF Call
<1>4. /\ login' = [login EXCEPT ![p] = q]
      /\ queue' = Marked(q.entry, "raised")
      /\ UNCHANGED <<ledger, rules, clock, lock, sweep, fires, interruptions>>
  BY <1>2, <1>3 DEF MarkRaised, Goto
<1>5. /\ QueueKept /\ DOMAIN queue' = DOMAIN queue /\ queue' \in [DOMAIN queue' -> Entry]
      /\ \A e \in q.entry \cap DOMAIN queue : queue'[e].status = "raised"
      /\ LedgerKept
  BY <1>4, MarkedKept, SameLedgerKept DEF PendingInv
<1>6. PICK e, r : Engages(p, login[p], e, r)
  BY <1>1 DEF PendingInv, CallsOK, CallOK
<1>7. e \in DOMAIN queue /\ q.entry = {e}
  BY <1>3, <1>6 DEF Engages, Ready
<1>8. Ready(p, q, e)'
  BY <1>3, <1>4, <1>5, <1>6 DEF Engages, Ready, QueueKept, Taken
<1>9. Engages(p, q, e, r)'
  BY <1>3, <1>4, <1>5, <1>6, <1>7, <1>8 DEF Engages, QueueKept
<1>10. CallOK(p, q)'
  BY <1>3, <1>5, <1>7, <1>9 DEF CallOK
<1>11. LockHeld' /\ CallsOK' /\ FiresOK' /\ login' \in [Logins -> Call \cup {Idle}]
  BY <1>1, <1>3, <1>4, <1>5, <1>10, MoveKept DEF Critical
<1>12. TypeOK'
  BY <1>4, <1>5, <1>11 DEF PendingInv, TypeOK, LedgerType
<1> QED
  BY <1>11, <1>12 DEF PendingInv

\* With locks the others' calls are of other customers, as this one holds its own; without
\* them the entry is taken from this thread alone.
LEMMA SentKept ==
    ASSUME PendingInv, NEW p \in Logins, At(p, "emit"), Leave(p),
           fires' = fires \cup Message(p), UNCHANGED <<ledger, queue, lock>>
    PROVE  /\ LockHeld' /\ CallsOK' /\ FiresOK'
           /\ login' \in [Logins -> Call \cup {Idle}]
           /\ fires' \subseteq [entry : DOMAIN queue, reservation : DOMAIN ledger, login : Logins]
<1>1. login[p].pc = "emit" /\ login[p] \in Call
  BY CallType DEF PendingInv, At
<1>2. PICK q : q = [login[p] EXCEPT !.pc = "unlock", !.entries = {}, !.gone = {}, !.entry = {},
                                    !.reservation = {}]
  OBVIOUS
<1>3. q \in Call /\ q.pc = "unlock" /\ q.customer = login[p].customer
  BY <1>1, <1>2 DEF Call
<1>4. login' = [login EXCEPT ![p] = q]
  BY <1>2 DEF Leave
<1>5. /\ login' \in [Logins -> Call \cup {Idle}]
      /\ login'[p] = q /\ \A o \in Logins \ {p} : login'[o] = login[o]
  BY <1>3, <1>4, LoginType DEF PendingInv
<1>6. PICK e, r : Engages(p, login[p], e, r)
  BY <1>1 DEF PendingInv, CallsOK, CallOK
<1>7. fires' = fires \cup {[entry |-> e, reservation |-> r, login |-> p]}
  BY <1>6 DEF Message, Engages
<1>8. /\ e \in DOMAIN queue /\ r \in DOMAIN ledger /\ ~Taken(p, e) /\ queue[e].status # "pending"
      /\ queue[e].customer = login[p].customer
  BY <1>1, <1>6 DEF Engages, Ready, PendingInv, CallsOK, CallOK
<1>9. QueueKept /\ LedgerKept
  BY SameQueueKept, SameLedgerKept
<1>10. LockHeld'
  BY <1>1, <1>3, <1>4, <1>5 DEF PendingInv, LockHeld, Critical
<1>11. CallsOK'
  <2> SUFFICES ASSUME NEW o \in Logins PROVE CallOK(o, login[o])'
    BY DEF CallsOK
  <2>1. CASE o = p
    BY <1>3, <1>5, <2>1 DEF CallOK
  <2>2. CASE o # p
    <3>1. PICK x : x = login[o]
      OBVIOUS
    <3>2. CallOK(o, x) /\ login'[o] = x
      BY <1>5, <2>2, <3>1 DEF PendingInv, CallsOK
    <3>3. CASE x.pc \in Critical
      <4>1. PerCustomer => lock[x.customer] = o /\ lock[login[p].customer] = p
        BY <1>1, <3>1, <3>3 DEF PendingInv, LockHeld, Critical
      <4>2. \A y \in DOMAIN queue :
               queue[y].customer = x.customer /\ Taken(o, y)' => Taken(o, y)
        BY <1>7, <1>8, <2>2, <4>1 DEF Taken
      <4>3. CallOK(o, x)'
        BY <1>9, <3>2, <4>2, CallKept
      <4> QED
        BY <3>2, <4>3 DEF CallOK, Engages, Ready
    <3>4. CASE x.pc \notin Critical
      BY <3>2, <3>4 DEF CallOK, Critical
    <3> QED
      BY <3>3, <3>4
  <2> QED
    BY <2>1, <2>2
<1>12. FiresOK'
  <2>1. FiredGone'
    BY <1>7, <1>8 DEF PendingInv, FiresOK, FiredGone
  <2>2. RaisedOnce'
    BY <1>7, <1>8 DEF PendingInv, FiresOK, RaisedOnce, Taken
  <2>3. EngagedInWindow'
    BY <1>6, <1>7 DEF PendingInv, FiresOK, EngagedInWindow, Engages, Ready
  <2> QED
    BY <2>1, <2>2, <2>3 DEF FiresOK
<1>13. fires' \subseteq [entry : DOMAIN queue, reservation : DOMAIN ledger, login : Logins]
  BY <1>7, <1>8 DEF PendingInv, TypeOK
<1> QED
  BY <1>5, <1>10, <1>11, <1>12, <1>13

LEMMA EmitKept ==
    ASSUME PendingAssumption, PendingInv, NEW p \in Logins, Emit(p)
    PROVE  PendingInv'
<1>1. /\ At(p, "emit") /\ Leave(p) /\ fires' = fires \cup Message(p)
      /\ UNCHANGED <<ledger, queue, rules, clock, lock, sweep, interruptions>>
  BY DEF Emit
<1>2. /\ LockHeld' /\ CallsOK' /\ FiresOK' /\ login' \in [Logins -> Call \cup {Idle}]
      /\ fires' \subseteq [entry : DOMAIN queue, reservation : DOMAIN ledger, login : Logins]
  BY <1>1, SentKept
<1>3. TypeOK'
  BY <1>1, <1>2 DEF PendingInv, TypeOK, LedgerType
<1> QED
  BY <1>2, <1>3 DEF PendingInv

LEMMA InterruptType ==
    ASSUME PendingAssumption, PendingInv, Interrupt
    PROVE  interruptions' \in 0..MaxInterruptions /\ interruptions' > interruptions
BY DEF Interrupt, PendingInv, TypeOK, PendingAssumption

\* A statement that raises leaves what it found, or what the same statement would have
\* left, and the call has forgotten about it.
LEMMA FailKept ==
    ASSUME PendingAssumption, PendingInv, NEW p \in Logins, Fail(p)
    PROVE  PendingInv'
<1>1. /\ login[p].pc \in Critical /\ login[p] \in Call
      /\ Leave(p) /\ UNCHANGED <<rules, clock, lock, sweep>>
      /\ interruptions' \in 0..MaxInterruptions
  BY CallType, InterruptType DEF PendingInv, Fail, Critical
<1>2. CASE UNCHANGED <<ledger, queue, fires>>
  <2>1. LockHeld' /\ CallsOK' /\ FiresOK' /\ login' \in [Logins -> Call \cup {Idle}]
    BY <1>1, <1>2, LeaveKept, SameQueueKept, SameLedgerKept
  <2>2. TypeOK'
    BY <1>1, <1>2, <2>1 DEF PendingInv, TypeOK, LedgerType
  <2> QED
    BY <2>1, <2>2 DEF PendingInv
<1>3. ASSUME NEW ids, NEW status \in {"raised", "expired"}, queue' = Marked(ids, status),
             UNCHANGED <<ledger, fires>>
      PROVE  PendingInv'
  <2>1. /\ QueueKept /\ DOMAIN queue' = DOMAIN queue /\ queue' \in [DOMAIN queue' -> Entry]
        /\ LedgerKept
    BY <1>3, MarkedKept, SameLedgerKept DEF PendingInv
  <2>2. LockHeld' /\ CallsOK' /\ FiresOK' /\ login' \in [Logins -> Call \cup {Idle}]
    BY <1>1, <1>3, <2>1, LeaveKept
  <2>3. TypeOK'
    BY <1>1, <1>3, <2>1, <2>2 DEF PendingInv, TypeOK, LedgerType
  <2> QED
    BY <2>2, <2>3 DEF PendingInv
<1>4. ASSUME NEW t \in Triggers, NEW r \in FreshIds, Approve(p, t, r), UNCHANGED <<queue, fires>>
      PROVE  PendingInv'
  <2>1. r \in ResIds \ DOMAIN ledger /\ InsertRow(r, login[p].customer, t, login[p].now)
    BY <1>4, ApprovedRow
  <2>2. /\ LedgerType' /\ DOMAIN ledger \subseteq DOMAIN ledger'
        /\ \A x \in DOMAIN ledger : ledger'[x] = ledger[x]
    BY <1>1, <2>1, InsertedRows DEF PendingInv, TypeOK, Call, InsertRow
  <2>3. QueueKept /\ LedgerKept
    BY <1>4, <2>2, SameQueueKept DEF LedgerKept
  <2>4. LockHeld' /\ CallsOK' /\ FiresOK' /\ login' \in [Logins -> Call \cup {Idle}]
    BY <1>1, <1>4, <2>3, LeaveKept
  <2>5. TypeOK'
    BY <1>1, <1>4, <2>2, <2>4 DEF PendingInv, TypeOK
  <2> QED
    BY <2>4, <2>5 DEF PendingInv
<1>5. ASSUME At(p, "emit"), fires' = fires \cup Message(p), UNCHANGED <<ledger, queue>>
      PROVE  PendingInv'
  <2>1. /\ LockHeld' /\ CallsOK' /\ FiresOK' /\ login' \in [Logins -> Call \cup {Idle}]
        /\ fires' \subseteq [entry : DOMAIN queue, reservation : DOMAIN ledger, login : Logins]
    BY <1>1, <1>5, SentKept
  <2>2. TypeOK'
    BY <1>1, <1>5, <2>1 DEF PendingInv, TypeOK, LedgerType
  <2> QED
    BY <2>1, <2>2 DEF PendingInv
<1> QED
  BY <1>2, <1>3, <1>4, <1>5 DEF Fail

LEMMA UnlockKept ==
    ASSUME PendingAssumption, PendingInv, NEW p \in Logins, Unlock(p)
    PROVE  PendingInv'
<1>1. login[p].pc = "unlock" /\ login[p] \in Call
  BY CallType DEF PendingInv, Unlock, At
<1>2. /\ login' = [login EXCEPT ![p] = Idle]
      /\ lock' = IF PerCustomer THEN [lock EXCEPT ![login[p].customer] = Free] ELSE lock
      /\ UNCHANGED <<ledger, queue, rules, clock, sweep, fires, interruptions>>
  BY DEF Unlock
<1>3. /\ login' \in [Logins -> Call \cup {Idle}]
      /\ login'[p] = Idle /\ \A o \in Logins \ {p} : login'[o] = login[o]
  BY <1>2, LoginType DEF PendingInv
<1>4. CallOK(p, login[p])'
  BY <1>3 DEF CallOK, Idle
<1>5. CallsOK' /\ FiresOK'
  BY <1>2, <1>3, <1>4, StepKept, SameQueueKept, SameLedgerKept
<1>6. LockHeld'
  <2> SUFFICES ASSUME PerCustomer, NEW o \in Logins, login'[o].pc \in Critical
               PROVE  lock'[login'[o].customer] = o
    BY <1>2 DEF LockHeld
  <2>1. o # p /\ login'[o] = login[o]
    BY <1>3 DEF Idle, Critical
  <2>2. lock[login[o].customer] = o /\ lock[login[p].customer] = p
    BY <1>1, <2>1 DEF PendingInv, LockHeld, Critical
  <2> QED
    BY <1>2, <2>1, <2>2 DEF PendingInv, TypeOK
<1>7. TypeOK'
  BY <1>1, <1>2, <1>3 DEF PendingInv, TypeOK, LedgerType, Call
<1> QED
  BY <1>5, <1>6, <1>7 DEF PendingInv

-----------------------------------------------------------------------------
(* The other actions *)

\* A step of nobody's call that sends no message: what is left to show is the types.
LEMMA ElsewhereKept ==
    ASSUME PendingInv, QueueKept, LedgerKept, UNCHANGED <<lock, login, fires>>
    PROVE  LockHeld' /\ CallsOK' /\ FiresOK'
<1>1. Free \notin Logins
  BY PendingAssumption DEF PendingAssumption
<1>2. CallsOK' /\ FiresOK'
  BY <1>1, StepKept
<1> QED
  BY <1>2 DEF PendingInv, LockHeld

LEMMA EnqueueKept ==
    ASSUME LedgerAssumption, PendingAssumption, PendingInv, Enqueue
    PROVE  PendingInv'
<1>1. PICK e \in EntryIds \ DOMAIN queue, c \in Customers, t \in rules, created \in Times :
         /\ ExpiresInTime(created, t)
         /\ queue' = [x \in DOMAIN queue \cup {e} |->
                        IF x = e
                        THEN [customer |-> c, trigger |-> t, created_at |-> created,
                              eligible_at |-> created + Wait[t],
                              expires_at |-> created + Expiry[t], status |-> "pending"]
                        ELSE queue[x]]
  BY DEF Enqueue, FreshEntry
<1>2. UNCHANGED <<ledger, rules, clock, lock, login, sweep, fires, interruptions>>
  BY DEF Enqueue
<1>3. t \in Triggers /\ created \in Int /\ created + Expiry[t] \in Times
  BY <1>1 DEF PendingInv, TypeOK, LedgerAssumption, ExpiresInTime
<1>4. Wait[t] \in Nat
  BY <1>3 DEF PendingAssumption
<1>5. created + Wait[t] \in Int
  BY <1>3, <1>4
<1>6. /\ DOMAIN queue' = DOMAIN queue \cup {e}
      /\ \A x \in DOMAIN queue : queue'[x] = queue[x]
      /\ queue'[e] \in Entry
  BY <1>1, <1>3, <1>5 DEF Entry
<1>7. QueueKept /\ LedgerKept
  BY <1>2, <1>6, SameLedgerKept DEF QueueKept
<1>8. LockHeld' /\ CallsOK' /\ FiresOK'
  BY <1>2, <1>7, ElsewhereKept
<1>9. queue' \in [DOMAIN queue' -> Entry]
  <2>1. \A x \in DOMAIN queue' : queue'[x] \in Entry
    BY <1>6 DEF PendingInv, TypeOK
  <2> QED
    BY <1>1, <2>1
<1>10. TypeOK'
  BY <1>1, <1>2, <1>6, <1>9 DEF PendingInv, TypeOK, LedgerType
<1> QED
  BY <1>8, <1>10 DEF PendingInv

LEMMA CeleryKept ==
    ASSUME PendingInv, CeleryTasks
    PROVE  PendingInv'
<1>1. CASE SweepSelect
  <2>1. UNCHANGED <<ledger, queue, rules, clock, lock, login, fires, interruptions>>
        /\ sweep' \subseteq DOMAIN queue
    BY <1>1 DEF SweepSelect, Overdue
  <2>2. LockHeld' /\ CallsOK' /\ FiresOK'
    BY <2>1, ElsewhereKept, SameQueueKept, SameLedgerKept
  <2>3. TypeOK'
    BY <2>1 DEF PendingInv, TypeOK, LedgerType
  <2> QED
    BY <2>2, <2>3 DEF PendingInv
<1>2. CASE SweepUpdate
  <2>1. /\ queue' = Marked(sweep, "expired") /\ sweep' = {}
        /\ UNCHANGED <<ledger, rules, clock, lock, login, fires, interruptions>>
    BY <1>2 DEF SweepUpdate
  <2>2. /\ QueueKept /\ DOMAIN queue' = DOMAIN queue /\ queue' \in [DOMAIN queue' -> Entry]
        /\ LedgerKept
    BY <2>1, MarkedKept, SameLedgerKept DEF PendingInv
  <2>3. LockHeld' /\ CallsOK' /\ FiresOK'
    BY <2>1, <2>2, ElsewhereKept
  <2>4. TypeOK'
    BY <2>1, <2>2 DEF PendingInv, TypeOK, LedgerType
  <2> QED
    BY <2>3, <2>4 DEF PendingInv
<1>3. CASE Reconcile
  <2>1. Stuck = {}
    BY DEF Stuck, PendingInv, TypeOK, Entry
  <2>2. queue' = Marked({}, "pending")
    BY <1>3, <2>1 DEF Reconcile
  <2>3. queue' = queue
    BY <2>2 DEF Marked, PendingInv, TypeOK
  <2>4. UNCHANGED <<ledger, rules, clock, lock, login, sweep, fires, interruptions>>
    BY <1>3 DEF Reconcile
  <2>5. LockHeld' /\ CallsOK' /\ FiresOK'
    BY <2>3, <2>4, ElsewhereKept, SameQueueKept, SameLedgerKept
  <2>6. TypeOK'
    BY <2>3, <2>4 DEF PendingInv, TypeOK, LedgerType
  <2> QED
    BY <2>5, <2>6 DEF PendingInv
<1> QED
  BY <1>1, <1>2, <1>3 DEF CeleryTasks

LEMMA SettleKept ==
    ASSUME PendingInv, Settle
    PROVE  PendingInv'
<1>1. PICK m \in fires, status \in {"confirmed", "rolled_back"} :
         SetStatus(m.reservation, status, {"reserved"})
  BY DEF Settle
<1>2. UNCHANGED <<queue, rules, clock, lock, login, sweep, fires, interruptions>>
  BY DEF Settle
<1>3. LedgerType' /\ DOMAIN ledger' = DOMAIN ledger
  BY <1>1, SettledRows DEF PendingInv, TypeOK
<1>4. \A x \in DOMAIN ledger : ledger[x] \in Row
  BY DEF PendingInv, TypeOK, LedgerType
<1>5. LedgerKept
  BY <1>1, <1>3, <1>4 DEF LedgerKept, SetStatus, Row
<1>6. LockHeld' /\ CallsOK' /\ FiresOK'
  BY <1>2, <1>5, ElsewhereKept, SameQueueKept
<1>7. TypeOK'
  BY <1>2, <1>3 DEF PendingInv, TypeOK
<1> QED
  BY <1>6, <1>7 DEF PendingInv

LEMMA AroundKept ==
    ASSUME PendingInv, RemoveRule \/ Tick
    PROVE  PendingInv'
<1>1. /\ UNCHANGED <<ledger, queue, lock, login, sweep, fires, interruptions>>
      /\ rules' \subseteq Triggers /\ clock' \in Times
  BY DEF RemoveRule, Tick, PendingInv, TypeOK
<1>2. LockHeld' /\ CallsOK' /\ FiresOK'
  BY <1>1, ElsewhereKept, SameQueueKept, SameLedgerKept
<1>3. TypeOK'
  BY <1>1 DEF PendingInv, TypeOK, LedgerType
<1> QED
  BY <1>2, <1>3 DEF PendingInv

LEMMA SweepFailsKept ==
    ASSUME PendingAssumption, PendingInv, SweepFails
    PROVE  PendingInv'
<1>1. /\ UNCHANGED <<ledger, queue, rules, clock, lock, login, fires>> /\ sweep' = {}
      /\ interruptions' \in 0..MaxInterruptions
  BY InterruptType DEF SweepFails
<1>2. LockHeld' /\ CallsOK' /\ FiresOK'
  BY <1>1, ElsewhereKept, SameQueueKept, SameLedgerKept
<1>3. TypeOK'
  BY <1>1 DEF PendingInv, TypeOK, LedgerType
<1> QED
  BY <1>2, <1>3 DEF PendingInv

LEMMA CrashKept ==
    ASSUME PendingAssumption, PendingInv, Crash
    PROVE  PendingInv'
<1>1. /\ interruptions' \in 0..MaxInterruptions
      /\ login' = [p \in Logins |-> Idle] /\ lock' = [c \in DOMAIN lock |-> Free]
      /\ UNCHANGED <<ledger, queue, rules, clock, sweep, fires>>
  BY InterruptType DEF Crash
<1>2. LockHeld' /\ CallsOK'
  BY <1>1 DEF LockHeld, CallsOK, CallOK, Idle, Critical
<1>3. FiresOK'
  BY <1>1, FiresKept, SameQueueKept, SameLedgerKept DEF PendingInv
<1>4. TypeOK'
  BY <1>1 DEF PendingInv, TypeOK, LedgerType
<1> QED
  BY <1>2, <1>3, <1>4 DEF PendingInv

LEMMA PendingInvInit == ASSUME PendingAssumption, Init PROVE PendingInv
<1>1. LedgerType
  BY CapInit DEF Init, CapInv
<1>2. TypeOK
  <2>1. DOMAIN lock \in {{}, Customers} /\ lock \in [DOMAIN lock -> Logins \cup {Free}]
    BY DEF Init, NullLock, PerCustomerLock
  <2>2. DOMAIN queue = {} /\ queue \in [DOMAIN queue -> Entry]
    BY DEF Init
  <2> QED
    BY <1>1, <2>1, <2>2 DEF TypeOK, Init, PendingAssumption
<1>3. LockHeld /\ CallsOK
  BY DEF Init, LockHeld, CallsOK, CallOK, Idle, Critical
<1>4. FiresOK
  BY DEF Init, FiresOK, FiredGone, RaisedOnce, EngagedInWindow
<1> QED
  BY <1>2, <1>3, <1>4 DEF PendingInv

LEMMA PendingInvNext ==
    ASSUME LedgerAssumption, PendingAssumption, PendingInv, [Next]_vars
    PROVE  PendingInv'
<1>1. CASE Enqueue
  BY <1>1, EnqueueKept
<1>2. CASE CeleryTasks
  BY <1>2, CeleryKept
<1>3. ASSUME NEW p \in Logins, OnLogin(p) \/ LoginStep(p) \/ Fail(p) PROVE PendingInv'
  BY <1>3, FailKept, OnLoginKept, AcquireKept, ReadKept, LookUpRulesKept, DiscardKept, DiscardedKept,
     ReserveKept, MarkRaisedKept, EmitKept, UnlockKept DEF LoginStep
<1>4. CASE Settle
  BY <1>4, SettleKept
<1>5. CASE RemoveRule \/ Tick
  BY <1>5, AroundKept
<1>6. CASE Crash \/ SweepFails
  BY <1>6, CrashKept, SweepFailsKept
<1>7. CASE OutOfIds \/ UNCHANGED vars
  <2>1. UNCHANGED <<ledger, queue, rules, clock, lock, login, sweep, fires, interruptions>>
    BY <1>7 DEF OutOfIds, vars
  <2>2. LockHeld' /\ CallsOK' /\ FiresOK'
    BY <2>1, ElsewhereKept, SameQueueKept, SameLedgerKept
  <2>3. TypeOK'
    BY <2>1 DEF PendingInv, TypeOK, LedgerType
  <2> QED
    BY <2>2, <2>3 DEF PendingInv
<1> QED
  BY <1>1, <1>2, <1>3, <1>4, <1>5, <1>6, <1>7 DEF Next

-----------------------------------------------------------------------------
(* What only an interruption loses *)

\* The call is about to send entry e's message; it has reservation r in hand.
Sends(p, e) == login[p].pc = "emit" /\ e \in login[p].entry

Holds(p, r) == login[p].pc \in {"mark", "emit"} /\ r \in login[p].reservation

\* The step interrupts p's call between reserve() and the end of emit(), or within
\* reserve().
CutShort(p) == Interrupted(p, {"mark", "emit"})

InsertLost(p, r) == Interrupted(p, {"reserve"}) /\ r \notin DOMAIN ledger

\* A call's step leaves the other calls alone.
LEMMA OthersCalls ==
    ASSUME NEW p \in Logins, OnLogin(p) \/ LoginStep(p) \/ Fail(p),
           NEW o, o # p, o \in DOMAIN login
    PROVE  login'[o] = login[o]
<1>1. CASE OnLogin(p) \/ Acquire(p)
  BY <1>1 DEF OnLogin, Acquire, Goto
<1>2. CASE LookUpRules(p) \/ Discard(p)
  BY <1>2 DEF LookUpRules, Discard
<1>3. CASE Read(p) \/ Discarded(p)
  BY <1>3 DEF Read, Discarded, Leave, Goto
<1>4. CASE Reserve(p)
  BY <1>4 DEF Reserve, Leave
<1>5. CASE MarkRaised(p) \/ Emit(p) \/ Unlock(p)
  BY <1>5 DEF MarkRaised, Emit, Unlock, Goto, Leave
<1>6. CASE Fail(p)
  BY <1>6 DEF Fail, Leave
<1> QED
  BY <1>1, <1>2, <1>3, <1>4, <1>5, <1>6 DEF LoginStep

\* Only the calls' steps, their failures and a crash touch a call.
LEMMA CallsElsewhere ==
    ASSUME PendingInv, [Next]_vars, ~Crash,
           \A p \in Logins : ~(OnLogin(p) \/ LoginStep(p) \/ Fail(p))
    PROVE  login' = login
<1>1. CASE Enqueue \/ Settle \/ RemoveRule \/ Tick
  BY <1>1 DEF Enqueue, Settle, RemoveRule, Tick
<1>2. CASE CeleryTasks \/ SweepFails
  BY <1>2 DEF CeleryTasks, SweepSelect, SweepUpdate, SweepFails, Reconcile
<1>3. CASE OutOfIds \/ UNCHANGED vars
  BY <1>3 DEF OutOfIds, vars
<1> QED
  BY <1>1, <1>2, <1>3 DEF Next

\* A call that has marked or is to mark its entry goes on, or sends the message, or is
\* interrupted.
LEMMA HeldOn ==
    ASSUME PendingAssumption, PendingInv, [Next]_vars, NEW p \in Logins, ~CutShort(p)
    PROVE  /\ \A e : Sends(p, e) => Sends(p, e)' \/ \E m \in fires' : m.entry = e
           /\ \A r : Holds(p, r) => Holds(p, r)' \/ \E m \in fires' : m.reservation = r
<1>1. CASE login'[p] = login[p]
  BY <1>1 DEF Sends, Holds
<1>2. CASE login'[p] # login[p]
  <2>1. Logins = DOMAIN login
    BY DEF PendingInv, TypeOK
  <2> SUFFICES ASSUME login[p].pc \in {"mark", "emit"}
               PROVE  /\ \A e : Sends(p, e) => Sends(p, e)' \/ \E m \in fires' : m.entry = e
                      /\ \A r : Holds(p, r) => Holds(p, r)' \/ \E m \in fires' : m.reservation = r
    BY DEF Sends, Holds
  <2>2. ~Crash
    BY InterruptType DEF Crash, CutShort, Interrupted, Idle
  <2>3. OnLogin(p) \/ LoginStep(p) \/ Fail(p)
    BY <1>2, <2>1, <2>2, OthersCalls, CallsElsewhere
  <2>4. login[p] \in Call /\ login \in [Logins -> Call \cup {Idle}]
    BY CallType DEF PendingInv, TypeOK
  <2>5. ASSUME Fail(p) PROVE FALSE
    <3>1. login'[p].pc = "unlock"
      BY <2>4, <2>5 DEF Fail, Leave, Call
    <3>2. interruptions' > interruptions
      BY <2>5, InterruptType DEF Fail
    <3> QED
      BY <3>1, <3>2 DEF CutShort, Interrupted
  <2>6. MarkRaised(p) \/ Emit(p)
    BY <2>3, <2>5 DEF OnLogin, LoginStep, Acquire, Read, LookUpRules, Discard, Discarded, Reserve,
                Unlock, At
  <2>7. CASE MarkRaised(p)
    <3>1. login[p].pc = "mark" /\ login'[p] = [login[p] EXCEPT !.pc = "emit"]
      BY <2>1, <2>7 DEF MarkRaised, Goto, At
    <3>2. login'[p].pc = "emit" /\ login'[p].reservation = login[p].reservation
      BY <2>4, <3>1 DEF Call
    <3> QED
      BY <3>1, <3>2 DEF Sends, Holds
  <2>8. CASE Emit(p)
    <3>1. PICK e, r : Engages(p, login[p], e, r)
      BY <2>8 DEF PendingInv, CallsOK, CallOK, Emit, At
    <3>2. login[p].entry = {e} /\ login[p].reservation = {r}
      BY <3>1 DEF Engages
    <3>3. [entry |-> e, reservation |-> r, login |-> p] \in fires'
      BY <2>8, <3>2 DEF Emit, Message
    <3> QED
      BY <3>2, <3>3 DEF Sends, Holds
  <2> QED
    BY <2>6, <2>7, <2>8
<1> QED
  BY <1>1, <1>2

\* An entry becomes raised in the hands of the call that is about to send its message, or
\* is interrupted as it marks it.
LEMMA RaisedInHand ==
    ASSUME PendingAssumption, PendingInv, [Next]_vars,
           NEW e \in DOMAIN queue', queue'[e].status = "raised"
    PROVE  \/ e \in DOMAIN queue /\ queue[e].status = "raised"
           \/ \E p \in Logins : Sends(p, e)'
           \/ \E p \in Logins : CutShort(p) /\ e \in login[p].entry
<1>1. ASSUME NEW ids, queue' = Marked(ids, "expired")
      PROVE  e \in DOMAIN queue /\ queue[e].status = "raised"
  <2>1. e \in DOMAIN queue /\ queue[e] \in Entry
    BY <1>1 DEF Marked, PendingInv, TypeOK
  <2>2. queue'[e] = IF e \in ids THEN [queue[e] EXCEPT !.status = "expired"] ELSE queue[e]
    BY <1>1, <2>1 DEF Marked
  <2> QED
    BY <2>1, <2>2 DEF Entry
<1>2. CASE SweepUpdate \/ \E p \in Logins : Discard(p)
  BY <1>1, <1>2 DEF SweepUpdate, Discard
<1>3. CASE Reconcile
  <2>1. Stuck = {}
    BY DEF Stuck, PendingInv, TypeOK, Entry
  <2>2. queue' = Marked({}, "pending")
    BY <1>3, <2>1 DEF Reconcile
  <2> QED
    BY <2>2 DEF Marked
<1>4. CASE Enqueue
  BY <1>4 DEF Enqueue
<1>5. ASSUME NEW p \in Logins, queue' = Marked(login[p].entry, "raised"), e \notin login[p].entry
      PROVE  e \in DOMAIN queue /\ queue[e].status = "raised"
  BY <1>5 DEF Marked
<1>6. ASSUME NEW p \in Logins, MarkRaised(p), e \in login[p].entry PROVE Sends(p, e)'
  <2>1. login[p] \in Call /\ login \in [Logins -> Call \cup {Idle}]
    BY <1>6, CallType DEF PendingInv, MarkRaised, At, TypeOK
  <2>2. login'[p].pc = "emit" /\ login'[p].entry = login[p].entry
    BY <1>6, <2>1 DEF MarkRaised, Goto, Call
  <2> QED
    BY <1>6, <2>2 DEF Sends
<1>7. ASSUME NEW p \in Logins, Fail(p), At(p, "mark") PROVE CutShort(p)
  <2>1. login[p] \in Call /\ login \in [Logins -> Call \cup {Idle}]
    BY <1>7, CallType DEF PendingInv, At, TypeOK
  <2> QED
    BY <1>7, <2>1, InterruptType DEF Fail, Leave, At, Call, CutShort, Interrupted
<1>8. ASSUME NEW p \in Logins, Fail(p)
      PROVE  \/ queue' = queue
             \/ At(p, "mark") /\ queue' = Marked(login[p].entry, "raised")
             \/ \E x : queue' = Marked({x}, "expired")
  BY <1>8 DEF Fail
<1>9. ASSUME NEW p \in Logins,
             OnLogin(p) \/ Acquire(p) \/ Read(p) \/ LookUpRules(p) \/ Discarded(p)
      PROVE  queue' = queue
  BY <1>9 DEF OnLogin, Acquire, Read, LookUpRules, Discarded
<1>10. ASSUME NEW p \in Logins, Reserve(p) \/ Emit(p) \/ Unlock(p) PROVE queue' = queue
  BY <1>10 DEF Reserve, Emit, Unlock
<1>11. ASSUME \/ SweepSelect \/ SweepFails \/ Settle \/ RemoveRule \/ Tick \/ Crash
              \/ OutOfIds \/ UNCHANGED vars
       PROVE  queue' = queue
  BY <1>11 DEF SweepSelect, SweepFails, Settle, RemoveRule, Tick, Crash, OutOfIds, vars
<1>12. ASSUME NEW p \in Logins, MarkRaised(p) PROVE queue' = Marked(login[p].entry, "raised")
  BY <1>12 DEF MarkRaised
<1>13. CASE \E p \in Logins : Fail(p)
  BY <1>1, <1>5, <1>7, <1>8, <1>13
<1>14. CASE \E p \in Logins : MarkRaised(p)
  BY <1>5, <1>6, <1>12, <1>14
<1> QED
  BY <1>2, <1>3, <1>4, <1>9, <1>10, <1>11, <1>13, <1>14 DEF Next, CeleryTasks, LoginStep

\* A row is reserved in the hands of the call that is about to mark its entry, or is
\* interrupted as it inserts it.
LEMMA ReservedInHand ==
    ASSUME PendingAssumption, PendingInv, [Next]_vars,
           NEW r \in DOMAIN ledger', ledger'[r].status = "reserved"
    PROVE  \/ r \in DOMAIN ledger /\ ledger[r].status = "reserved"
           \/ \E p \in Logins : Holds(p, r)' \/ InsertLost(p, r)
<1>1. ASSUME NEW p \in Logins, NEW t \in Triggers, NEW x \in FreshIds, Approve(p, t, x), r # x
      PROVE  r \in DOMAIN ledger /\ ledger[r].status = "reserved"
  <2>1. InsertRow(x, login[p].customer, t, login[p].now)
    BY <1>1, ApprovedRow
  <2> QED
    BY <1>1, <2>1 DEF InsertRow
<1>2. ASSUME NEW p \in Logins, Reserve(p), ~UNCHANGED ledger
      PROVE  \/ r \in DOMAIN ledger /\ ledger[r].status = "reserved"
             \/ Holds(p, r)'
  <2>1. login[p] \in Call /\ login \in [Logins -> Call \cup {Idle}]
    BY <1>2, CallType DEF PendingInv, Reserve, At, TypeOK
  <2>2. PICK t \in Triggers, x \in FreshIds, e \in login[p].entries :
          /\ queue[e].trigger = t /\ Approve(p, t, x)
          /\ login' = [login EXCEPT ![p] = [login[p] EXCEPT !.pc = "mark", !.entries = {},
                                              !.entry = {e}, !.reservation = {x}]]
    BY <1>2, ReserveDecides
  <2>3. login'[p].pc = "mark" /\ login'[p].reservation = {x}
    BY <2>1, <2>2 DEF Call
  <2> QED
    BY <1>1, <2>2, <2>3 DEF Holds
<1>3. ASSUME NEW p \in Logins, Fail(p), ~UNCHANGED ledger
      PROVE  \/ r \in DOMAIN ledger /\ ledger[r].status = "reserved"
             \/ InsertLost(p, r)
  <2>1. PICK t \in Triggers, x \in FreshIds : Approve(p, t, x)
    BY <1>3 DEF Fail
  <2>2. At(p, "reserve")
    BY <1>3 DEF Fail
  <2>3. login[p] \in Call /\ login \in [Logins -> Call \cup {Idle}]
    BY <2>2, CallType DEF PendingInv, At, TypeOK
  <2>4. Interrupted(p, {"reserve"})
    BY <1>3, <2>2, <2>3, InterruptType DEF Fail, Leave, At, Call, Interrupted
  <2>5. x \notin DOMAIN ledger
    BY <2>1, ApprovedRow
  <2> QED
    BY <1>1, <2>1, <2>4, <2>5 DEF InsertLost
<1>4. ASSUME Settle PROVE r \in DOMAIN ledger /\ ledger[r].status = "reserved"
  <2>1. PICK m \in fires, status \in {"confirmed", "rolled_back"} :
          SetStatus(m.reservation, status, {"reserved"})
    BY <1>4 DEF Settle
  <2>2. \A y \in DOMAIN ledger : ledger[y] \in Row
    BY DEF PendingInv, TypeOK, LedgerType
  <2> QED
    BY <2>1, <2>2 DEF SetStatus, Row
<1>5. ASSUME NEW p \in Logins, OnLogin(p) \/ Acquire(p) \/ Read(p) \/ LookUpRules(p)
      PROVE  ledger' = ledger
  BY <1>5 DEF OnLogin, Acquire, Read, LookUpRules
<1>6. ASSUME NEW p \in Logins, Discard(p) \/ Discarded(p) \/ MarkRaised(p) \/ Emit(p) \/ Unlock(p)
      PROVE  ledger' = ledger
  BY <1>6 DEF Discard, Discarded, MarkRaised, Emit, Unlock
<1>7. ASSUME Enqueue \/ CeleryTasks \/ SweepFails \/ RemoveRule \/ Tick \/ Crash
      PROVE  ledger' = ledger
  BY <1>7 DEF Enqueue, CeleryTasks, SweepSelect, SweepUpdate, SweepFails, Reconcile, RemoveRule,
              Tick, Crash
<1>8. ASSUME OutOfIds \/ UNCHANGED vars PROVE ledger' = ledger
  BY <1>8 DEF OutOfIds, vars
<1> QED
  BY <1>2, <1>3, <1>4, <1>5, <1>6, <1>7, <1>8 DEF Next, LoginStep

\* Messages stay sent.
LEMMA SentStays ==
    ASSUME [Next]_vars
    PROVE  fires \subseteq fires'
<1>1. CASE Enqueue \/ CeleryTasks \/ SweepFails
  BY <1>1 DEF Enqueue, CeleryTasks, SweepSelect, SweepUpdate, SweepFails, Reconcile
<1>2. ASSUME NEW p \in Logins, OnLogin(p) \/ Acquire(p) \/ Read(p) \/ LookUpRules(p)
      PROVE  fires \subseteq fires'
  BY <1>2 DEF OnLogin, Acquire, Read, LookUpRules
<1>3. ASSUME NEW p \in Logins, Discard(p) \/ Discarded(p) \/ Reserve(p)
      PROVE  fires \subseteq fires'
  BY <1>3 DEF Discard, Discarded, Reserve
<1>4. ASSUME NEW p \in Logins, MarkRaised(p) \/ Emit(p) \/ Unlock(p) \/ Fail(p)
      PROVE  fires \subseteq fires'
  BY <1>4 DEF MarkRaised, Emit, Unlock, Fail
<1>5. CASE Settle \/ RemoveRule \/ Tick \/ Crash
  BY <1>5 DEF Settle, RemoveRule, Tick, Crash
<1>6. CASE OutOfIds \/ UNCHANGED vars
  BY <1>6 DEF OutOfIds, vars
<1> QED
  BY <1>1, <1>2, <1>3, <1>4, <1>5, <1>6 DEF Next, LoginStep

-----------------------------------------------------------------------------
(* What the scheduler promises *)

\* on_login, the sweep, the consumer's enqueues, M08's answers, crashes and failing calls
\* keep the invariant, with and without locks.
THEOREM SchedulerInvariant == Spec => []PendingInv
<1>1. Init => PendingInv
  BY PendingInvInit, PendingAssumption
<1>2. PendingInv /\ [Next]_vars => PendingInv'
  BY PendingInvNext, LedgerAssumption, PendingAssumption
<1> QED
  BY <1>1, <1>2, PTL DEF Spec

\* The tables, the calls, the locks and the messages keep their types.
THEOREM SchedulerTypes == Spec => []TypeOK
<1>1. PendingInv => TypeOK
  BY DEF PendingInv
<1> QED
  BY <1>1, SchedulerInvariant, PTL

\* However many logins, sweeps, failures and crashes there are: with a PerCustomerLock no
\* two FireMessages come from one entry (scheduler.py:6-7), and with the scheduler's
\* default, NullLock (scheduler.py:39), no two from one entry and one thread.
THEOREM EntriesRaisedOnce == Spec => []RaisedOnce
<1>1. PendingInv => RaisedOnce
  BY DEF PendingInv, FiresOK
<1> QED
  BY <1>1, SchedulerInvariant, PTL

\* A deferred match is only ever engaged by a reservation of its own customer and
\* trigger, made within its window (queue.py:70-80), whatever happens to the row or the
\* rules during the call and whichever lock the scheduler was given.
THEOREM EngagedInTheirWindow == Spec => []EngagedInWindow
<1>1. PendingInv => EngagedInWindow
  BY DEF PendingInv, FiresOK
<1> QED
  BY <1>1, SchedulerInvariant, PTL

\* Deferred matches count against the caps and the quiet period like any others.
THEOREM SchedulerCapsHold == Spec => [](TriggerCapHolds /\ GlobalCapHolds /\ CooldownHolds)
<1>1. Init => CapInv
  BY CapInit DEF Init
<1>2. PendingInv /\ CapInv /\ [Next]_vars => CapInv'
  <2> SUFFICES ASSUME PendingInv, CapInv, [Next]_vars PROVE CapInv'
    OBVIOUS
  <2>1. ASSUME UNCHANGED ledger PROVE CapInv'
    BY <2>1 DEF CapInv, LedgerType, TriggerCapHolds, GlobalCapHolds, CooldownHolds, Within,
                Period, CountedRows, CountedRowsOf
  <2>2. ASSUME NEW p \in Logins, Reserve(p) \/ Fail(p) PROVE CapInv'
    <3>1. login[p].customer \in Customers /\ login[p].now \in Times
      BY <2>2, CallType DEF Reserve, Fail, At, PendingInv, Call
    <3>2. ASSUME NEW t \in Triggers, NEW r \in FreshIds, Approve(p, t, r) PROVE CapInv'
      <4>1. /\ r \in ResIds \ DOMAIN ledger
            /\ InsertRow(r, login[p].customer, t, login[p].now)
            /\ ~InCooldown(login[p].customer, login[p].now)
            /\ \A cap \in GlobalCap : WouldFire(CountedRows(login[p].customer), login[p].now, cap)
            /\ WouldFire(CountedRowsOf(login[p].customer, t), login[p].now, TriggerCap[t])
        BY <3>2, ApprovedRow
      <4> QED
        BY <3>1, <4>1, InsertKeepsCaps, LedgerAssumption
    <3>3. UNCHANGED ledger \/ \E t \in Triggers, r \in FreshIds : Approve(p, t, r)
      BY <2>2 DEF Reserve, Fail
    <3> QED
      BY <2>1, <3>2, <3>3
  <2>3. CASE Settle
    <3>1. PICK m \in fires, status \in {"confirmed", "rolled_back"} :
            SetStatus(m.reservation, status, {"reserved"})
      BY <2>3 DEF Settle
    <3> QED
      BY <3>1, SettleKeepsCaps, LedgerAssumption
  <2>4. ASSUME NEW p \in Logins,
               \/ OnLogin(p) \/ Acquire(p) \/ Read(p) \/ LookUpRules(p) \/ Discard(p)
               \/ Discarded(p) \/ MarkRaised(p) \/ Emit(p) \/ Unlock(p)
        PROVE  UNCHANGED ledger
    <3>1. OnLogin(p) \/ Acquire(p) \/ Read(p) => UNCHANGED ledger
      BY DEF OnLogin, Acquire, Read
    <3>2. LookUpRules(p) => UNCHANGED ledger
      BY DEF LookUpRules
    <3>3. Discard(p) \/ Discarded(p) => UNCHANGED ledger
      BY DEF Discard, Discarded
    <3>4. MarkRaised(p) \/ Emit(p) \/ Unlock(p) => UNCHANGED ledger
      BY DEF MarkRaised, Emit, Unlock
    <3> QED
      BY <2>4, <3>1, <3>2, <3>3, <3>4
  <2>5. Enqueue \/ CeleryTasks \/ SweepFails \/ RemoveRule \/ Tick \/ Crash \/ OutOfIds
          \/ UNCHANGED vars => UNCHANGED ledger
    BY DEF Enqueue, CeleryTasks, SweepSelect, SweepUpdate, SweepFails, Reconcile, RemoveRule,
           Tick, Crash, OutOfIds, vars
  <2> QED
    BY <2>1, <2>2, <2>3, <2>4, <2>5 DEF Next, LoginStep
<1>3. CapInv => TriggerCapHolds /\ GlobalCapHolds /\ CooldownHolds
  BY DEF CapInv
<1> QED
  BY <1>1, <1>2, <1>3, SchedulerInvariant, PTL DEF Spec

\* An entry marked without a message, or a reservation nobody will settle, is the work of
\* an interruption, a crash or a raising call, of the very call that holds it
\* (scheduler.py:61-76): for every number of logins, with and without locks, nothing that
\* happens to the others, the queue or the rules has that effect.
THEOREM InterruptionsAloneLose == Spec => OnlyInterruptionsLose
<1>1. ASSUME PendingInv, [Next]_vars, NEW e \in Lost' \ Lost
      PROVE  \E p \in Logins : CutShort(p) /\ e \in login[p].entry
  <2> SUFFICES ASSUME \A p \in Logins : CutShort(p) => e \notin login[p].entry PROVE FALSE
    OBVIOUS
  <2>1. /\ e \in DOMAIN queue' /\ queue'[e].status = "raised"
        /\ \A m \in fires' : m.entry # e
        /\ \A p \in Logins : ~Sends(p, e)'
    BY <1>1 DEF Lost, Sends
  <2>2. e \in DOMAIN queue /\ queue[e].status = "raised"
    BY <1>1, <2>1, RaisedInHand, PendingAssumption
  <2>3. \A p \in Logins : ~Sends(p, e)
    BY <1>1, <2>1, HeldOn, PendingAssumption DEF Sends
  <2>4. \A m \in fires : m.entry # e
    BY <1>1, <2>1, SentStays
  <2> QED
    BY <1>1, <2>2, <2>3, <2>4 DEF Lost, Sends
<1>2. ASSUME PendingInv, [Next]_vars, NEW r \in Stranded' \ Stranded
      PROVE  \E p \in Logins : InsertLost(p, r) \/ (CutShort(p) /\ r \in login[p].reservation)
  <2> SUFFICES ASSUME \A p \in Logins : ~InsertLost(p, r),
                      \A p \in Logins : CutShort(p) => r \notin login[p].reservation
               PROVE  FALSE
    OBVIOUS
  <2>1. /\ r \in DOMAIN ledger' /\ ledger'[r].status = "reserved"
        /\ \A m \in fires' : m.reservation # r
        /\ \A p \in Logins : ~Holds(p, r)'
    BY <1>2 DEF Stranded, Holds
  <2>2. r \in DOMAIN ledger /\ ledger[r].status = "reserved"
    BY <1>2, <2>1, ReservedInHand, PendingAssumption
  <2>3. \A p \in Logins : ~Holds(p, r)
    BY <1>2, <2>1, HeldOn, PendingAssumption DEF Holds
  <2>4. \A m \in fires : m.reservation # r
    BY <1>2, <2>1, SentStays
  <2> QED
    BY <1>2, <2>2, <2>3, <2>4 DEF Stranded, Holds
<1>3. PendingInv /\ [Next]_vars =>
         [/\ \A e \in Lost' \ Lost : \E p \in Logins :
                Interrupted(p, {"mark", "emit"}) /\ e \in login[p].entry
          /\ \A r \in Stranded' \ Stranded : \E p \in Logins :
                \/ Interrupted(p, {"reserve"}) /\ r \notin DOMAIN ledger
                \/ Interrupted(p, {"mark", "emit"}) /\ r \in login[p].reservation]_vars
  BY <1>1, <1>2 DEF CutShort, InsertLost
<1> QED
  BY <1>3, SchedulerInvariant, PTL DEF Spec, OnlyInterruptionsLose

=============================================================================
