----------------------- MODULE FrequencyEngineProofs -----------------------
(***************************************************************************)
(* reserve() implements the indivisible engagement of EngagementCap when   *)
(* all its callers share one lock object, for every number of threads,     *)
(* customers, triggers and reservations; so the caps and the cooldown hold *)
(* in every state of the engine. Its decisions account for every candidate *)
(* and only interruptions strand a reservation, with any locking.          *)
(* The arbitration has one winner, whatever order its list is in.          *)
(***************************************************************************)
EXTENDS FrequencyEngine, EngagementLedgerProofs, WellFoundedInduction

\* The callers run in one process, and so lock the same objects.
OneProcess == \A p, q \in Threads : ProcessOf[p] = ProcessOf[q]

-----------------------------------------------------------------------------
(* Arbitration *)

\* a comes before b when the candidates have been sorted.
Ahead(a, b) == Outranks(a, b) \/ (~Outranks(b, a) /\ a.pos < b.pos)

\* _sort_key is a total order up to equal keys, and of equal keys are only candidates of
\* one trigger with one signal time.
LEMMA RankOrder ==
    ASSUME LedgerAssumption, EngineAssumption,
           NEW a \in Candidate(Triggers, Times), NEW b \in Candidate(Triggers, Times),
           NEW c \in Candidate(Triggers, Times)
    PROVE  /\ ~(Outranks(a, b) /\ Outranks(b, a))
           /\ \/ Outranks(a, b) \/ Outranks(b, a)
              \/ a.trigger = b.trigger /\ a.signal_at = b.signal_at
           /\ Outranks(a, b) /\ Outranks(b, c) => Outranks(a, c)
<1>1. ASSUME NEW d \in Candidate(Triggers, Times)
      PROVE  /\ d.trigger \in Int /\ d.signal_at \in Int
             /\ Weight[d.trigger] \in Int /\ Specificity[d.trigger] \in Int
  <2>1. d.trigger \in Triggers /\ d.signal_at \in Times
    BY DEF Candidate
  <2>2. Triggers \subseteq Int /\ Times \subseteq Int
    BY DEF LedgerAssumption
  <2>3. Weight \in [Triggers -> Int] /\ Specificity \in [Triggers -> Nat]
    BY DEF EngineAssumption
  <2>4. d.trigger \in Int /\ d.signal_at \in Int
    BY <2>1, <2>2
  <2>5. Weight[d.trigger] \in Int /\ Specificity[d.trigger] \in Nat
    BY <2>1, <2>3
  <2> QED
    BY <2>4, <2>5
<1>2. \A d \in {a, b, c} : /\ d.trigger \in Int /\ d.signal_at \in Int
                           /\ Weight[d.trigger] \in Int /\ Specificity[d.trigger] \in Int
  BY <1>1
<1> QED
  BY <1>2 DEF Outranks

\* The sorted list is a strict order: no two places in a list are alike.
LEMMA AheadOrder ==
    ASSUME LedgerAssumption, EngineAssumption,
           NEW a \in Candidate(Triggers, Times), NEW b \in Candidate(Triggers, Times),
           NEW c \in Candidate(Triggers, Times)
    PROVE  /\ ~(Ahead(a, b) /\ Ahead(b, a))
           /\ a.pos # b.pos => Ahead(a, b) \/ Ahead(b, a)
           /\ Ahead(a, b) /\ Ahead(b, c) => Ahead(a, c)
<1>1. a.pos \in Nat /\ b.pos \in Nat /\ c.pos \in Nat
  BY DEF Candidate
<1>2. ~(Outranks(a, b) /\ Outranks(b, a))
  BY RankOrder
<1>3. ASSUME Ahead(a, b), Ahead(b, c) PROVE Ahead(a, c)
  <2>1. \A x, y \in {a, b, c} :
           \/ Outranks(x, y) \/ Outranks(y, x)
           \/ x.trigger = y.trigger /\ x.signal_at = y.signal_at
    BY RankOrder
  <2>2. \A x, y \in {a, b, c} : ~(Outranks(x, y) /\ Outranks(y, x))
    BY RankOrder
  <2>3. \A x, y, z \in {a, b, c} : Outranks(x, y) /\ Outranks(y, z) => Outranks(x, z)
    BY RankOrder
  <2>4. \A x, y, z \in {a, b, c} :
           y.trigger = z.trigger /\ y.signal_at = z.signal_at =>
              (Outranks(x, y) <=> Outranks(x, z)) /\ (Outranks(y, x) <=> Outranks(z, x))
    BY DEF Outranks
  <2>5. CASE Outranks(a, b)
    BY <1>3, <2>1, <2>2, <2>3, <2>4, <2>5 DEF Ahead
  <2>6. CASE ~Outranks(a, b)
    <3>1. ~Outranks(b, a) /\ a.pos < b.pos /\ a.trigger = b.trigger /\ a.signal_at = b.signal_at
      BY <1>3, <2>1, <2>6 DEF Ahead
    <3>2. (Outranks(a, c) <=> Outranks(b, c)) /\ (Outranks(c, a) <=> Outranks(c, b))
      BY <3>1, <2>4
    <3> QED
      BY <1>1, <1>3, <3>1, <3>2 DEF Ahead
  <2> QED
    BY <2>5, <2>6
<1> QED
  BY <1>1, <1>2, <1>3 DEF Ahead

\* A list is a finite set of candidates in places of their own.
IsList(candidates) ==
    /\ candidates \in SUBSET Candidate(Triggers, Times)
    /\ IsFiniteSet(candidates)
    /\ \A a, b \in candidates : a.pos = b.pos => a = b

\* A set of numbers that is not empty has a least one.
LEMMA LeastNumber ==
    ASSUME NEW S \in SUBSET Nat, S # {}
    PROVE  \E n \in S : \A m \in S : n <= m
<1>1. PICK n \in S : \A m \in S : ~(<<m, n>> \in OpToRel(<, Nat))
  BY NatLessThanWellFounded, WFMin, Zenon
<1>2. \A m \in S : ~(m < n)
  BY <1>1 DEF OpToRel
<1> QED
  BY <1>2

\* Whoever is ahead of the first of the rest, or else that one, is the first of all.
LEMMA WinnerWithOneMore ==
    ASSUME LedgerAssumption, EngineAssumption, NEW list, IsList(list), NEW x \in list,
           NEW w \in list \ {x}, IsWinner(w, list \ {x})
    PROVE  \E v \in list : IsWinner(v, list)
<1>1. \A c \in list \ {x, w} : Ahead(w, c)
  BY DEF IsWinner, Ahead
<1>2. \A c \in list : c \in Candidate(Triggers, Times)
  BY DEF IsList
<1>3. x.pos # w.pos
  BY DEF IsList
<1>4. CASE Ahead(w, x)
  <2>1. \A c \in list \ {w} : Ahead(w, c)
    BY <1>1, <1>4
  <2> QED
    BY <2>1 DEF IsWinner, Ahead
<1>5. CASE Ahead(x, w)
  <2>1. \A c \in list \ {x} : Ahead(x, c)
    <3> TAKE c \in list \ {x}
    <3>1. CASE c = w
      BY <3>1, <1>5
    <3>2. CASE c # w
      <4>1. Ahead(w, c)
        BY <3>2, <1>1
      <4> QED
        BY <4>1, <1>2, <1>5, AheadOrder
    <3> QED
      BY <3>1, <3>2
  <2> QED
    BY <2>1 DEF IsWinner, Ahead
<1> QED
  BY <1>2, <1>3, <1>4, <1>5, AheadOrder

\* precedence.py:27-30: a list that is not empty has exactly one winner, so the decision
\* is never without one and never a matter of chance.
THEOREM OneWinner ==
    ASSUME LedgerAssumption, EngineAssumption, NEW candidates, IsList(candidates),
           candidates # {}
    PROVE  \E w \in candidates : /\ IsWinner(w, candidates)
                                 /\ \A v \in candidates : IsWinner(v, candidates) => v = w
<1> DEFINE Lists == {list \in SUBSET candidates : list # {} /\ ~\E w \in list : IsWinner(w, list)}
           Sizes == {Cardinality(list) : list \in Lists}
<1>1. \A list \in SUBSET candidates : IsList(list) /\ Cardinality(list) \in Nat
  BY FS_Subset, FS_CardinalityType DEF IsList
<1>2. ASSUME Sizes # {} PROVE FALSE
  <2>1. Sizes \subseteq Nat
    BY <1>1
  <2>2. PICK n \in Sizes : \A m \in Sizes : n <= m
    <3> HIDE DEF Sizes
    <3> QED
      BY <1>2, <2>1, LeastNumber
  <2>3. \A other \in Lists : Cardinality(other) \in Sizes
    OBVIOUS
  <2>4. PICK list \in Lists : Cardinality(list) = n
    OBVIOUS
  <2>5. PICK x \in list : TRUE
    BY <2>4
  <2>6. /\ list \in SUBSET candidates /\ list # {}
        /\ ~\E w \in list : IsWinner(w, list)
    BY <2>4
  <2> HIDE DEF Lists
  <2>7. IsList(list) /\ IsFiniteSet(list) /\ Cardinality(list) \in Nat
    BY <1>1, <2>6 DEF IsList
  <2>8. list \ {x} # {}
    <3> SUFFICES ASSUME list = {x} PROVE FALSE
      BY <2>5
    <3> QED
      BY <2>6 DEF IsWinner
  <2>9. Cardinality(list \ {x}) = Cardinality(list) - 1
    BY <2>5, <2>7, FS_RemoveElement
  <2>10. list \ {x} \in SUBSET candidates
    BY <2>6
  <2>11. list \ {x} \notin Lists
    <3> HIDE DEF Sizes
    <3> SUFFICES ASSUME list \ {x} \in Lists PROVE FALSE
      OBVIOUS
    <3>1. n <= Cardinality(list \ {x})
      BY <2>2, <2>3
    <3> QED
      BY <2>4, <2>7, <2>9, <3>1
  <2>12. PICK w \in list \ {x} : IsWinner(w, list \ {x})
    BY <2>8, <2>10, <2>11 DEF Lists
  <2> QED
    BY <2>5, <2>6, <2>7, <2>12, WinnerWithOneMore
<1>3. PICK w \in candidates : IsWinner(w, candidates)
  BY <1>2
<1>4. ASSUME NEW v \in candidates, IsWinner(v, candidates) PROVE v = w
  <2>1. v # w => Ahead(v, w) /\ Ahead(w, v)
    BY <1>3, <1>4 DEF IsWinner, Ahead
  <2>2. v \in Candidate(Triggers, Times) /\ w \in Candidate(Triggers, Times)
    BY DEF IsList
  <2> QED
    BY <2>1, <2>2, AheadOrder
<1> QED
  BY <1>3, <1>4

\* Two lists with the same triggers and signal times, in whatever order.
SameMatches(one, other) ==
    /\ \A c \in one : \E d \in other : d.trigger = c.trigger /\ d.signal_at = c.signal_at
    /\ \A d \in other : \E c \in one : d.trigger = c.trigger /\ d.signal_at = c.signal_at

\* "Fully deterministic - no reliance on input order" (precedence.py:5-6): of one set of
\* matches, the same trigger's wins in whatever order they are listed, and however often.
THEOREM OrderDoesNotDecide ==
    ASSUME LedgerAssumption, EngineAssumption,
           NEW one \in SUBSET Candidate(Triggers, Times),
           NEW other \in SUBSET Candidate(Triggers, Times), SameMatches(one, other),
           NEW w, IsWinner(w, one), NEW v, IsWinner(v, other)
    PROVE  w.trigger = v.trigger /\ w.signal_at = v.signal_at
<1>1. /\ w \in one /\ v \in other
      /\ \A c \in one : c \in Candidate(Triggers, Times)
      /\ \A d \in other : d \in Candidate(Triggers, Times)
  BY DEF IsWinner
<1>2. PICK d \in other : d.trigger = w.trigger /\ d.signal_at = w.signal_at
  BY <1>1 DEF SameMatches
<1>3. PICK c \in one : v.trigger = c.trigger /\ v.signal_at = c.signal_at
  BY <1>1 DEF SameMatches
<1>4. ~Outranks(c, w)
  BY <1>1, RankOrder DEF IsWinner
<1>5. ~Outranks(d, v)
  BY <1>1, RankOrder DEF IsWinner
<1>6. ~Outranks(v, w) /\ ~Outranks(w, v)
  BY <1>2, <1>3, <1>4, <1>5 DEF Outranks
<1> QED
  BY <1>1, <1>6, RankOrder

-----------------------------------------------------------------------------
(* Type correctness *)

\* A thread that is not idle has the fields of a call.
LEMMA CallFields ==
    ASSUME TypeOK, NEW p \in Threads, call[p].pc # "idle"
    PROVE  call[p] \in Call
BY DEF TypeOK, Idle

LEMMA TypeInit == ASSUME LedgerAssumption, EngineAssumption, Init PROVE TypeOK
<1>1. LedgerType
  <2>1. IsFiniteSet({})
    BY FS_EmptySet
  <2> QED
    BY <2>1 DEF Init, LedgerInit, LedgerType
<1> QED
  BY <1>1 DEF Init, TypeOK, EngineAssumption, LedgerInit

\* A thread under way that only moves on keeps the type of its call.
LEMMA GotoType ==
    ASSUME TypeOK, NEW p \in Threads, call[p].pc # "idle", NEW pc \in PC, Goto(p, pc)
    PROVE  call' \in [Threads -> Call \cup {Idle}]
<1>1. call[p] \in Call
  BY CallFields
<1>2. [call[p] EXCEPT !.pc = pc] \in Call
  BY <1>1 DEF Call
<1> QED
  BY <1>2 DEF Goto, Update, TypeOK

LEMMA DropType ==
    ASSUME NEW d \in Decision, NEW triggers, NEW reason \in Reason
    PROVE  Drop(d, triggers, reason) \in Decision
BY DEF Drop, Decision

LEMMA SuppressType ==
    ASSUME TypeOK, NEW p \in Threads, call[p].pc # "idle", NEW reason \in Reason,
           Suppress(p, reason)
    PROVE  call' \in [Threads -> Call \cup {Idle}]
<1>1. call[p] \in Call
  BY CallFields
<1>2. SuppressAll(call[p].candidates, reason) \in Decision
  BY DEF SuppressAll, Decision, Reason
<1>3. [call[p] EXCEPT !.pc = "unlock", !.decision = SuppressAll(call[p].candidates, reason)] \in Call
  BY <1>1, <1>2 DEF Call, PC
<1> QED
  BY <1>3 DEF Suppress, Update, TypeOK

LEMMA InterruptType ==
    ASSUME EngineAssumption, TypeOK, Interrupt
    PROVE  interruptions' \in 0..MaxInterruptions /\ interruptions' > interruptions
BY DEF Interrupt, TypeOK, EngineAssumption

LEMMA TypeStep ==
    ASSUME LedgerAssumption, EngineAssumption, TypeOK, [Next]_vars
    PROVE  TypeOK'
<1>1. ASSUME NEW p \in Threads, Reserve(p) PROVE TypeOK'
  <2>1. PICK c \in Customers, now \in Times, candidates \in CandidateLists :
          Update(p, [pc |-> IF candidates = {} THEN "decided" ELSE "lock",
                     customer |-> c, now |-> now, candidates |-> candidates,
                     todo |-> candidates, eligible |-> {}, decision |-> NotApproved])
    BY <1>1 DEF Reserve
  <2>2. NotApproved \in Decision
    BY DEF NotApproved, Decision, NoLosers
  <2>3. [pc |-> IF candidates = {} THEN "decided" ELSE "lock",
         customer |-> c, now |-> now, candidates |-> candidates,
         todo |-> candidates, eligible |-> {}, decision |-> NotApproved] \in Call
    BY <2>2 DEF Call, PC, EngineAssumption
  <2>4. call' \in [Threads -> Call \cup {Idle}]
    BY <2>1, <2>3 DEF TypeOK, Update
  <2> QED
    BY <1>1, <2>4 DEF Reserve, TypeOK, LedgerType
<1>2. ASSUME NEW p \in Threads, Acquire(p) PROVE TypeOK'
  <2>1. call[p].pc # "idle" /\ Goto(p, "cooldown")
    BY <1>2 DEF Acquire, At
  <2>2. call[p] \in Call
    BY <2>1, CallFields
  <2>3. lock' \in [Processes -> [Customers -> Threads \cup {Free}]]
    BY <1>2, <2>2 DEF Acquire, TypeOK, EngineAssumption, Call
  <2>4. call' \in [Threads -> Call \cup {Idle}]
    BY <2>1, GotoType DEF PC
  <2> QED
    BY <1>2, <2>3, <2>4 DEF Acquire, TypeOK, LedgerType
<1>3. ASSUME NEW p \in Threads, CheckCooldown(p) PROVE TypeOK'
  <2>1. call[p].pc # "idle"
    BY <1>3 DEF CheckCooldown, At
  <2>2. call' \in [Threads -> Call \cup {Idle}]
    BY <1>3, <2>1, GotoType, SuppressType DEF CheckCooldown, PC, Reason
  <2> QED
    BY <1>3, <2>2 DEF CheckCooldown, TypeOK, LedgerType
<1>4. ASSUME NEW p \in Threads, CheckGlobalCap(p) PROVE TypeOK'
  <2>1. call[p].pc # "idle"
    BY <1>4 DEF CheckGlobalCap, At
  <2>2. call' \in [Threads -> Call \cup {Idle}]
    BY <1>4, <2>1, GotoType, SuppressType DEF CheckGlobalCap, PC, Reason
  <2> QED
    BY <1>4, <2>2 DEF CheckGlobalCap, TypeOK, LedgerType
<1>5. ASSUME NEW p \in Threads, FilterOne(p) PROVE TypeOK'
  <2>1. call[p] \in Call
    BY <1>5, CallFields DEF FilterOne, At
  <2>2. PICK c \in call[p].todo :
          \/ Update(p, [call[p] EXCEPT !.todo = @ \ {c}, !.eligible = @ \cup {c}])
          \/ Update(p, [call[p] EXCEPT !.todo = @ \ {c},
                                       !.decision = Drop(@, {c.trigger}, "frequency_cap")])
    BY <1>5 DEF FilterOne
  <2>3. c \in Candidate(Triggers, Times)
    BY <2>1 DEF Call
  <2>4. [call[p] EXCEPT !.todo = @ \ {c}, !.eligible = @ \cup {c}] \in Call
    BY <2>1, <2>3 DEF Call
  <2>5. Drop(call[p].decision, {c.trigger}, "frequency_cap") \in Decision
    BY <2>1, DropType DEF Call, Reason
  <2>6. [call[p] EXCEPT !.todo = @ \ {c},
                        !.decision = Drop(@, {c.trigger}, "frequency_cap")] \in Call
    BY <2>1, <2>5 DEF Call
  <2>7. call' \in [Threads -> Call \cup {Idle}]
    BY <2>2, <2>4, <2>6 DEF TypeOK, Update
  <2> QED
    BY <1>5, <2>7 DEF FilterOne, TypeOK, LedgerType
<1>6. ASSUME NEW p \in Threads, NoneEligible(p) PROVE TypeOK'
  <2>1. call[p] \in Call
    BY <1>6, CallFields DEF NoneEligible, At
  <2>2. [call[p].decision EXCEPT !.suppression_reason = "frequency_cap"] \in Decision
    BY <2>1 DEF Call, Decision, Reason
  <2>3. [call[p] EXCEPT !.pc = "unlock",
                        !.decision.suppression_reason = "frequency_cap"] \in Call
    BY <2>1, <2>2 DEF Call, PC
  <2>4. call' \in [Threads -> Call \cup {Idle}]
    BY <1>6, <2>3 DEF NoneEligible, TypeOK, Update
  <2> QED
    BY <1>6, <2>4 DEF NoneEligible, TypeOK, LedgerType
<1>7. ASSUME NEW p \in Threads, RecordWinner(p) PROVE TypeOK'
  <2>1. call[p] \in Call
    BY <1>7, CallFields DEF RecordWinner, At
  <2>2. PICK w \in call[p].eligible, r \in ResIds \ DOMAIN ledger :
          /\ InsertRow(r, call[p].customer, w.trigger, call[p].now)
          /\ Update(p, [call[p] EXCEPT !.pc = "unlock",
                                       !.decision = Approve(@, call[p].eligible, w, r)])
    BY <1>7 DEF RecordWinner, FreshIds
  <2>3. /\ call[p].customer \in Customers /\ w.trigger \in Triggers /\ call[p].now \in Times
        /\ call[p].decision \in Decision
    BY <2>1 DEF Call, Candidate
  <2>4. LedgerType' /\ DOMAIN ledger \subseteq DOMAIN ledger'
    BY <2>2, <2>3, InsertedRows DEF TypeOK, InsertRow
  <2>5. Approve(call[p].decision, call[p].eligible, w, r) \in Decision
    <3>1. Drop(call[p].decision, TriggersOf(call[p].eligible \ {w}), "precedence_loss") \in Decision
      BY <2>3, DropType DEF Reason
    <3> QED
      BY <3>1 DEF Approve, Decision
  <2>8. [call[p] EXCEPT !.pc = "unlock",
                        !.decision = Approve(@, call[p].eligible, w, r)] \in Call
    BY <2>1, <2>5 DEF Call, PC
  <2>9. call' \in [Threads -> Call \cup {Idle}]
    BY <2>2, <2>8 DEF TypeOK, Update
  <2> QED
    BY <1>7, <2>4, <2>9 DEF RecordWinner, TypeOK
<1>8. ASSUME NEW p \in Threads, Unlock(p) PROVE TypeOK'
  <2>1. call[p].pc # "idle" /\ Goto(p, "decided")
    BY <1>8 DEF Unlock, At
  <2>2. call[p] \in Call
    BY <2>1, CallFields
  <2>3. lock' \in [Processes -> [Customers -> Threads \cup {Free}]]
    BY <1>8, <2>2 DEF Unlock, TypeOK, EngineAssumption, Call
  <2>4. call' \in [Threads -> Call \cup {Idle}]
    BY <2>1, GotoType DEF PC
  <2> QED
    BY <1>8, <2>3, <2>4 DEF Unlock, TypeOK, LedgerType
<1>9. ASSUME NEW p \in Threads, Emit(p) PROVE TypeOK'
  <2>1. call[p] \in Call
    BY <1>9, CallFields DEF Emit, At
  <2>2. fires' \subseteq ResIds
    BY <1>9, <2>1 DEF Emit, TypeOK, Call, Decision
  <2>3. call' \in [Threads -> Call \cup {Idle}]
    BY <1>9 DEF Emit, Update, TypeOK
  <2> QED
    BY <1>9, <2>2, <2>3 DEF Emit, TypeOK, LedgerType
<1>10. ASSUME NEW r \in fires, Confirm(r) \/ Rollback(r) PROVE TypeOK'
  <2>1. LedgerType' /\ DOMAIN ledger' = DOMAIN ledger
    BY <1>10, SettledRows DEF Confirm, Rollback, TypeOK
  <2> QED
    BY <1>10, <2>1 DEF Confirm, Rollback, TypeOK
<1>11. ASSUME NEW w \in Processes, Crash(w) PROVE TypeOK'
  <2>1. interruptions' \in 0..MaxInterruptions
    BY <1>11, InterruptType DEF Crash
  <2>2. lock' \in [Processes -> [Customers -> Threads \cup {Free}]]
    BY <1>11 DEF Crash, TypeOK
  <2>3. call' \in [Threads -> Call \cup {Idle}]
    BY <1>11 DEF Crash, TypeOK
  <2> QED
    BY <1>11, <2>1, <2>2, <2>3 DEF Crash, TypeOK, LedgerType
<1>12. CASE UNCHANGED vars \/ OutOfIds
  BY <1>12 DEF OutOfIds, vars, TypeOK, LedgerType
<1>13. ASSUME NEW p \in Threads, QueryFails(p) \/ RecordFails(p) PROVE TypeOK'
  <2>1. call[p].pc # "idle" /\ Goto(p, "raising") /\ Interrupt
    BY <1>13 DEF QueryFails, RecordFails, Reading, At
  <2>2. call' \in [Threads -> Call \cup {Idle}]
    BY <2>1, GotoType DEF PC
  <2>3. LedgerType'
    <3>1. CASE UNCHANGED ledger
      BY <3>1 DEF TypeOK, LedgerType
    <3>2. CASE ~UNCHANGED ledger
      <4>1. PICK w \in call[p].eligible, r \in ResIds \ DOMAIN ledger :
              InsertRow(r, call[p].customer, w.trigger, call[p].now)
        BY <1>13, <3>2 DEF QueryFails, RecordFails, FreshIds
      <4>2. call[p].customer \in Customers /\ w.trigger \in Triggers /\ call[p].now \in Times
        BY <2>1, CallFields DEF Call, Candidate
      <4> QED
        BY <4>1, <4>2, InsertedRows DEF TypeOK
    <3> QED
      BY <3>1, <3>2
  <2>4. UNCHANGED <<lock, fires>> /\ interruptions' \in 0..MaxInterruptions
    BY <1>13, <2>1, InterruptType DEF QueryFails, RecordFails
  <2> QED
    BY <2>2, <2>3, <2>4 DEF TypeOK
<1>14. ASSUME NEW p \in Threads, EmitFails(p) PROVE TypeOK'
  <2>1. call[p] \in Call
    BY <1>14, CallFields DEF EmitFails, At
  <2>2. fires' \subseteq ResIds
    BY <1>14, <2>1 DEF EmitFails, TypeOK, Call, Decision
  <2>3. call' \in [Threads -> Call \cup {Idle}]
    BY <1>14 DEF EmitFails, Update, TypeOK
  <2>4. interruptions' \in 0..MaxInterruptions
    BY <1>14, InterruptType DEF EmitFails
  <2> QED
    BY <1>14, <2>2, <2>3, <2>4 DEF EmitFails, TypeOK, LedgerType
<1>15. ASSUME NEW p \in Threads, Raise(p) PROVE TypeOK'
  <2>1. call[p] \in Call
    BY <1>15, CallFields DEF Raise, At
  <2>2. lock' \in [Processes -> [Customers -> Threads \cup {Free}]]
    BY <1>15, <2>1 DEF Raise, TypeOK, EngineAssumption, Call
  <2>3. call' \in [Threads -> Call \cup {Idle}]
    BY <1>15 DEF Raise, Update, TypeOK
  <2> QED
    BY <1>15, <2>2, <2>3 DEF Raise, TypeOK, LedgerType
<1> QED
  BY <1>1, <1>2, <1>3, <1>4, <1>5, <1>6, <1>7, <1>8, <1>9, <1>10, <1>11, <1>12, <1>13,
     <1>14, <1>15 DEF Next, Step, Fail

\* Every state has the types TypeOK gives it, however many processes run.
THEOREM TypeCorrect == Spec => []TypeOK
<1>1. Init => TypeOK
  BY TypeInit, LedgerAssumption, EngineAssumption
<1>2. TypeOK /\ [Next]_vars => TypeOK'
  BY TypeStep, LedgerAssumption, EngineAssumption
<1> QED
  BY <1>1, <1>2, PTL DEF Spec

-----------------------------------------------------------------------------
(* What a decision accounts for *)

\* The call has made up its mind about none of its candidates.
Unsifted(k) == k.todo = k.candidates /\ k.eligible = {} /\ k.decision = NotApproved

Distinct(candidates) == \A a, b \in candidates : a.trigger = b.trigger => a = b

\* Each candidate the filter loop is done with is eligible or a loser.
Sifted(k) ==
    /\ k.decision.reservation_id = NoReservation
    /\ k.decision.suppression_reason = "none"
    /\ k.todo \cup k.eligible \subseteq k.candidates
    /\ k.todo \cap k.eligible = {}
    /\ \A t \in Triggers : k.decision.losers[t] \in {"none", "frequency_cap"}
    /\ \A c \in k.candidates :
          c \in k.todo \cup k.eligible \/ k.decision.losers[c.trigger] = "frequency_cap"
    /\ Distinct(k.candidates) =>
          \A c \in k.todo \cup k.eligible : k.decision.losers[c.trigger] = "none"

\* Over a table `rows`; the definitions take it as a parameter to be read in two states.
Won(rows, k) ==
    {c \in k.candidates : /\ k.decision.reservation_id # NoReservation
                          /\ c.trigger = rows[k.decision.reservation_id].trigger}

Lost(k) == {c \in k.candidates : k.decision.losers[c.trigger] # "none"}

Accounted(rows, k) ==
    /\ k.decision.reservation_id \in DOMAIN rows \cup {NoReservation}
    /\ k.candidates # {} =>
          /\ (k.decision.suppression_reason = "none") = (Won(rows, k) # {})
          /\ Distinct(k.candidates) => Lost(k) = k.candidates \ Won(rows, k)
          /\ \A w \in Won(rows, k), c \in Lost(k) :
                k.decision.losers[c.trigger] = "precedence_loss"
                   => Weight[w.trigger] >= Weight[c.trigger]

Sound(rows, k) ==
    /\ k.pc \in {"lock", "cooldown", "global_cap"} => Unsifted(k)
    /\ k.pc = "filter" => Sifted(k)
    /\ k.pc \in {"unlock", "decided"} => Accounted(rows, k)

AccountInv == \A p \in Threads : Sound(ledger, call[p])

\* Rows are added and settled, and keep their triggers.
LEMMA SoundKept ==
    ASSUME NEW rows, NEW after, DOMAIN rows \subseteq DOMAIN after,
           \A r \in DOMAIN rows : after[r].trigger = rows[r].trigger,
           NEW k, Sound(rows, k)
    PROVE  Sound(after, k)
<1> SUFFICES ASSUME k.pc \in {"unlock", "decided"} PROVE Accounted(after, k)
  BY DEF Sound
<1>1. Accounted(rows, k)
  BY DEF Sound
<1>2. Won(after, k) = Won(rows, k)
  BY <1>1 DEF Accounted, Won
<1> QED
  BY <1>1, <1>2 DEF Accounted

LEMMA SoundLocal ==
    ASSUME TypeOK, AccountInv, NEW p \in Threads, DOMAIN ledger \subseteq DOMAIN ledger',
           \A r \in DOMAIN ledger : ledger'[r].trigger = ledger[r].trigger,
           NEW new, call' = [call EXCEPT ![p] = new], Sound(ledger', new)
    PROVE  AccountInv'
<1> SUFFICES ASSUME NEW q \in Threads PROVE Sound(ledger', call'[q])
  BY DEF AccountInv
<1>1. CASE q = p
  BY <1>1 DEF TypeOK
<1>2. CASE q # p
  <2>1. call'[q] = call[q] /\ Sound(ledger, call[q])
    BY <1>2 DEF TypeOK, AccountInv
  <2> QED
    BY <2>1, SoundKept
<1> QED
  BY <1>1, <1>2

\* Nobody wins, and every candidate loses for the reason given.
LEMMA SuppressedSound ==
    ASSUME NEW k \in Call, NEW reason \in Reason, NEW rows
    PROVE  Sound(rows, [k EXCEPT !.pc = "unlock", !.decision = SuppressAll(k.candidates, reason)])
<1> DEFINE d   == SuppressAll(k.candidates, reason)
           new == [k EXCEPT !.pc = "unlock", !.decision = d]
<1>1. new.pc = "unlock" /\ new.candidates = k.candidates /\ new.decision = d
  BY DEF Call
<1>2. d.reservation_id = NoReservation /\ d.suppression_reason = reason /\ reason # "none"
  BY DEF SuppressAll, Reason
<1>3. \A c \in k.candidates : c.trigger \in Triggers /\ d.losers[c.trigger] = reason
  <2>1. \A c \in k.candidates : c.trigger \in Triggers /\ c.trigger \in TriggersOf(k.candidates)
    BY DEF Call, Candidate, TriggersOf
  <2> QED
    BY <2>1 DEF SuppressAll
<1> HIDE DEF d, new
<1>4. Won(rows, new) = {}
  BY <1>1, <1>2 DEF Won
<1>5. Lost(new) = k.candidates
  BY <1>1, <1>2, <1>3 DEF Lost
<1>6. Accounted(rows, new)
  BY <1>1, <1>2, <1>4, <1>5 DEF Accounted
<1> QED
  BY <1>1, <1>6 DEF Sound, new, d

\* The winner outranks the other eligible candidates, and these are exactly the losers
\* that the cap did not drop.
LEMMA ApprovedSound ==
    ASSUME EngineAssumption, NEW k \in Call, Sifted(k), k.todo = {},
           NEW w \in k.eligible, IsWinner(w, k.eligible),
           NEW rows, NEW r \in DOMAIN rows, r # NoReservation, rows[r].trigger = w.trigger
    PROVE  Sound(rows, [k EXCEPT !.pc = "unlock",
                                 !.decision = Approve(k.decision, k.eligible, w, r)])
<1> DEFINE d     == Approve(k.decision, k.eligible, w, r)
           new   == [k EXCEPT !.pc = "unlock", !.decision = d]
           rival == TriggersOf(k.eligible \ {w})
<1>1. new.pc = "unlock" /\ new.candidates = k.candidates /\ new.decision = d
  BY DEF Call
<1>2. /\ k.decision \in Decision /\ k.eligible \subseteq k.candidates
      /\ k.candidates \subseteq Candidate(Triggers, Times)
      /\ \A t \in Triggers : k.decision.losers[t] \in {"none", "frequency_cap"}
      /\ \A c \in k.candidates : c \in k.eligible \/ k.decision.losers[c.trigger] = "frequency_cap"
      /\ Distinct(k.candidates) => \A c \in k.eligible : k.decision.losers[c.trigger] = "none"
      /\ k.decision.suppression_reason = "none"
  BY DEF Sifted, Call
<1>3. \A c \in k.candidates : c.trigger \in Triggers
  BY <1>2 DEF Candidate
<1>4. /\ d.reservation_id = r /\ d.suppression_reason = "none"
      /\ \A t \in Triggers :
            d.losers[t] = IF t \in rival THEN "precedence_loss" ELSE k.decision.losers[t]
  BY <1>2 DEF Approve, Drop, Decision
<1>5. \A t : t \in rival <=> \E e \in k.eligible \ {w} : e.trigger = t
  BY DEF TriggersOf
<1> HIDE DEF d, new, rival
<1>6. Won(rows, new) = {c \in k.candidates : c.trigger = w.trigger}
  BY <1>1, <1>4 DEF Won
<1>7. Won(rows, new) # {}
  BY <1>2, <1>6
<1>8. ASSUME Distinct(k.candidates) PROVE Lost(new) = k.candidates \ Won(rows, new)
  <2>1. Lost(new) = {c \in k.candidates : d.losers[c.trigger] # "none"}
    BY <1>1 DEF Lost
  <2> SUFFICES ASSUME NEW c \in k.candidates
               PROVE  d.losers[c.trigger] # "none" <=> c.trigger # w.trigger
    BY <1>6, <2>1
  <2>2. CASE c.trigger = w.trigger
    <3>1. w.trigger \notin rival
      BY <1>2, <1>5, <1>8 DEF Distinct
    <3>2. d.losers[w.trigger] = "none"
      BY <1>2, <1>3, <1>4, <1>8, <3>1
    <3> QED
      BY <2>2, <3>2
  <2>3. CASE c.trigger # w.trigger
    <3>1. CASE c \in k.eligible
      BY <1>3, <1>4, <1>5, <2>3, <3>1
    <3>2. CASE c \notin k.eligible
      BY <1>2, <1>3, <1>4, <2>3, <3>2
    <3> QED
      BY <3>1, <3>2
  <2> QED
    BY <2>2, <2>3
<1>9. ASSUME NEW x \in Won(rows, new), NEW c \in Lost(new),
             d.losers[c.trigger] = "precedence_loss"
      PROVE  Weight[x.trigger] >= Weight[c.trigger]
  <2>1. x.trigger = w.trigger /\ c \in k.candidates /\ c.trigger \in Triggers
    BY <1>1, <1>3, <1>6 DEF Lost
  <2>2. PICK e \in k.eligible \ {w} : e.trigger = c.trigger
    BY <1>2, <1>4, <1>5, <1>9, <2>1
  <2>3. Outranks(w, e) \/ ~Outranks(e, w)
    BY DEF IsWinner
  <2>4. w.trigger \in Triggers /\ e.trigger \in Triggers
    BY <1>2, <1>3
  <2>5. Weight[w.trigger] \in Int /\ Weight[e.trigger] \in Int
    BY <2>4 DEF EngineAssumption
  <2>6. Weight[w.trigger] >= Weight[e.trigger]
    BY <2>3, <2>5 DEF Outranks
  <2> QED
    BY <2>1, <2>2, <2>6
<1>10. Accounted(rows, new)
  BY <1>1, <1>4, <1>7, <1>8, <1>9 DEF Accounted
<1> QED
  BY <1>1, <1>10 DEF Sound, new, d

\* The filter loop's turn about c, which is eligible or dropped for its cap.
LEMMA FilteredSound ==
    ASSUME NEW k \in Call, k.pc = "filter", Sifted(k), NEW c \in k.todo, NEW rows
    PROVE  /\ Sound(rows, [k EXCEPT !.todo = @ \ {c}, !.eligible = @ \cup {c}])
           /\ Sound(rows, [k EXCEPT !.todo = @ \ {c},
                                    !.decision = Drop(@, {c.trigger}, "frequency_cap")])
<1>1. k.decision \in Decision /\ k.candidates \subseteq Candidate(Triggers, Times)
  BY DEF Call
<1>2. \A x \in k.candidates : x.trigger \in Triggers
  BY <1>1 DEF Candidate
<1>3. Sound(rows, [k EXCEPT !.todo = @ \ {c}, !.eligible = @ \cup {c}])
  <2> DEFINE new == [k EXCEPT !.todo = @ \ {c}, !.eligible = @ \cup {c}]
  <2>1. /\ new.pc = "filter" /\ new.candidates = k.candidates /\ new.decision = k.decision
        /\ new.todo = k.todo \ {c} /\ new.eligible = k.eligible \cup {c}
    BY DEF Call
  <2> HIDE DEF new
  <2>2. Sifted(new)
    BY <2>1 DEF Sifted
  <2> QED
    BY <2>1, <2>2 DEF Sound, new
<1>4. Sound(rows, [k EXCEPT !.todo = @ \ {c},
                            !.decision = Drop(@, {c.trigger}, "frequency_cap")])
  <2> DEFINE d   == Drop(k.decision, {c.trigger}, "frequency_cap")
             new == [k EXCEPT !.todo = @ \ {c}, !.decision = d]
  <2>1. /\ new.pc = "filter" /\ new.candidates = k.candidates /\ new.decision = d
        /\ new.todo = k.todo \ {c} /\ new.eligible = k.eligible
    BY DEF Call
  <2>2. /\ d.reservation_id = k.decision.reservation_id
        /\ d.suppression_reason = k.decision.suppression_reason
        /\ \A t \in Triggers :
              d.losers[t] = IF t = c.trigger THEN "frequency_cap" ELSE k.decision.losers[t]
    BY <1>1 DEF Drop, Decision
  <2> HIDE DEF d, new
  <2>3. c \in k.candidates /\ c \notin k.eligible
    BY DEF Sifted
  <2>4. /\ d.reservation_id = NoReservation /\ d.suppression_reason = "none"
        /\ new.todo \cup new.eligible \subseteq k.candidates
        /\ new.todo \cap new.eligible = {}
    BY <2>1, <2>2 DEF Sifted
  <2>5. \A t \in Triggers : d.losers[t] \in {"none", "frequency_cap"}
    BY <2>2 DEF Sifted
  <2>6. \A x \in k.candidates :
           x \in new.todo \cup new.eligible \/ d.losers[x.trigger] = "frequency_cap"
    BY <1>2, <2>1, <2>2, <2>3 DEF Sifted
  <2>7. ASSUME Distinct(k.candidates), NEW x \in new.todo \cup new.eligible
        PROVE  d.losers[x.trigger] = "none"
    <3>1. x \in k.candidates /\ x # c /\ x \in k.todo \cup k.eligible
      BY <2>1, <2>3, <2>4, <2>7
    <3>2. x.trigger # c.trigger
      BY <2>3, <2>7, <3>1 DEF Distinct
    <3> QED
      BY <1>2, <2>2, <2>7, <3>1, <3>2 DEF Sifted
  <2>8. Sifted(new)
    BY <2>1, <2>4, <2>5, <2>6, <2>7 DEF Sifted
  <2> QED
    BY <2>1, <2>8 DEF Sound, new, d
<1> QED
  BY <1>3, <1>4

LEMMA AccountStep ==
    ASSUME LedgerAssumption, EngineAssumption, TypeOK, AccountInv, [Next]_vars
    PROVE  AccountInv'
<1>1. ASSUME NEW p \in Threads, Reserve(p) PROVE AccountInv'
  <2>1. PICK c \in Customers, now \in Times, candidates \in CandidateLists :
          Update(p, [pc |-> IF candidates = {} THEN "decided" ELSE "lock",
                     customer |-> c, now |-> now, candidates |-> candidates,
                     todo |-> candidates, eligible |-> {}, decision |-> NotApproved])
    BY <1>1 DEF Reserve
  <2>2. UNCHANGED ledger
    BY <1>1 DEF Reserve
  <2>3. Sound(ledger', [pc |-> IF candidates = {} THEN "decided" ELSE "lock",
                        customer |-> c, now |-> now, candidates |-> candidates,
                        todo |-> candidates, eligible |-> {}, decision |-> NotApproved])
    BY DEF Sound, Unsifted, Accounted, NotApproved
  <2> QED
    BY <2>1, <2>2, <2>3, SoundLocal DEF Update
<1>2. ASSUME NEW p \in Threads, Acquire(p) \/ CheckCooldown(p) \/ CheckGlobalCap(p)
      PROVE  AccountInv'
  <2>1. /\ call[p] \in Call /\ UNCHANGED ledger /\ Unsifted(call[p])
        /\ call[p].pc \in {"lock", "cooldown", "global_cap"}
    BY <1>2, CallFields DEF Acquire, CheckCooldown, CheckGlobalCap, At, AccountInv, Sound
  <2>2. \/ \E pc \in {"cooldown", "global_cap", "filter"} : Goto(p, pc)
        \/ \E reason \in Reason : Suppress(p, reason)
    BY <1>2 DEF Acquire, CheckCooldown, CheckGlobalCap, Reason
  <2>3. ASSUME NEW pc \in {"cooldown", "global_cap", "filter"}, Goto(p, pc) PROVE AccountInv'
    <3> DEFINE new == [call[p] EXCEPT !.pc = pc]
    <3>1. /\ new.pc = pc /\ new.candidates = call[p].candidates /\ new.todo = call[p].todo
          /\ new.eligible = call[p].eligible /\ new.decision = call[p].decision
      BY <2>1 DEF Call
    <3> HIDE DEF new
    <3>2. Unsifted(new)
      BY <2>1, <3>1 DEF Unsifted
    <3>3. Sifted(new)
      <4>1. \A c \in new.candidates : c.trigger \in Triggers
        BY <2>1, <3>1 DEF Call, Candidate
      <4> QED
        BY <3>2, <4>1 DEF Unsifted, Sifted, NotApproved, NoLosers
    <3>4. Sound(ledger', new)
      BY <3>1, <3>2, <3>3 DEF Sound
    <3>5. call' = [call EXCEPT ![p] = new]
      BY <2>3 DEF Goto, Update, new
    <3> QED
      BY <2>1, <3>4, <3>5, SoundLocal
  <2>4. ASSUME NEW reason \in Reason, Suppress(p, reason) PROVE AccountInv'
    BY <2>1, <2>4, SuppressedSound, SoundLocal DEF Suppress, Update
  <2> QED
    BY <2>2, <2>3, <2>4
<1>3. ASSUME NEW p \in Threads, FilterOne(p) PROVE AccountInv'
  <2>1. /\ call[p] \in Call /\ UNCHANGED ledger /\ call[p].pc = "filter" /\ Sifted(call[p])
    BY <1>3, CallFields DEF FilterOne, At, AccountInv, Sound
  <2>2. PICK c \in call[p].todo :
          \/ Update(p, [call[p] EXCEPT !.todo = @ \ {c}, !.eligible = @ \cup {c}])
          \/ Update(p, [call[p] EXCEPT !.todo = @ \ {c},
                                       !.decision = Drop(@, {c.trigger}, "frequency_cap")])
    BY <1>3 DEF FilterOne
  <2>3. /\ Sound(ledger', [call[p] EXCEPT !.todo = @ \ {c}, !.eligible = @ \cup {c}])
        /\ Sound(ledger', [call[p] EXCEPT !.todo = @ \ {c},
                                          !.decision = Drop(@, {c.trigger}, "frequency_cap")])
    BY <2>1, FilteredSound
  <2> QED
    BY <2>1, <2>2, <2>3, SoundLocal DEF Update
<1>4. ASSUME NEW p \in Threads, NoneEligible(p) PROVE AccountInv'
  <2>1. /\ call[p] \in Call /\ UNCHANGED ledger /\ Sifted(call[p])
        /\ call[p].todo = {} /\ call[p].eligible = {}
    BY <1>4, CallFields DEF NoneEligible, At, AccountInv, Sound
  <2> DEFINE new == [call[p] EXCEPT !.pc = "unlock",
                                    !.decision.suppression_reason = "frequency_cap"]
  <2>2. /\ new.pc = "unlock" /\ new.candidates = call[p].candidates
        /\ new.decision.reservation_id = call[p].decision.reservation_id
        /\ new.decision.suppression_reason = "frequency_cap"
        /\ new.decision.losers = call[p].decision.losers
    BY <2>1 DEF Call, Decision
  <2> HIDE DEF new
  <2>3. Won(ledger', new) = {}
    BY <2>1, <2>2 DEF Won, Sifted
  <2>4. Lost(new) = new.candidates
    BY <2>1, <2>2 DEF Lost, Sifted
  <2>5. Sound(ledger', new)
    BY <2>1, <2>2, <2>3, <2>4 DEF Sound, Accounted, Sifted
  <2>6. call' = [call EXCEPT ![p] = new]
    BY <1>4 DEF NoneEligible, Update, new
  <2> QED
    BY <2>1, <2>5, <2>6, SoundLocal
<1>5. ASSUME NEW p \in Threads, RecordWinner(p) PROVE AccountInv'
  <2>1. call[p] \in Call /\ Sifted(call[p]) /\ call[p].todo = {}
    BY <1>5, CallFields DEF RecordWinner, At, AccountInv, Sound
  <2>2. PICK w \in call[p].eligible, r \in ResIds \ DOMAIN ledger :
          /\ IsWinner(w, call[p].eligible)
          /\ InsertRow(r, call[p].customer, w.trigger, call[p].now)
          /\ Update(p, [call[p] EXCEPT !.pc = "unlock",
                                       !.decision = Approve(@, call[p].eligible, w, r)])
    BY <1>5 DEF RecordWinner, FreshIds
  <2>3. /\ DOMAIN ledger' = DOMAIN ledger \cup {r} /\ ledger'[r].trigger = w.trigger
        /\ \A x \in DOMAIN ledger : ledger'[x].trigger = ledger[x].trigger
    BY <2>2 DEF InsertRow
  <2>4. r # NoReservation
    BY DEF EngineAssumption
  <2>5. Sound(ledger', [call[p] EXCEPT !.pc = "unlock",
                          !.decision = Approve(call[p].decision, call[p].eligible, w, r)])
    BY <2>1, <2>2, <2>3, <2>4, ApprovedSound
  <2> QED
    BY <2>2, <2>3, <2>5, SoundLocal DEF Update
<1>6. ASSUME NEW p \in Threads, Unlock(p) PROVE AccountInv'
  <2>1. call[p] \in Call /\ UNCHANGED ledger /\ Accounted(ledger, call[p])
    BY <1>6, CallFields DEF Unlock, At, AccountInv, Sound
  <2> DEFINE new == [call[p] EXCEPT !.pc = "decided"]
  <2>2. /\ new.pc = "decided" /\ new.candidates = call[p].candidates
        /\ new.decision = call[p].decision
    BY <2>1 DEF Call
  <2>3. call' = [call EXCEPT ![p] = new]
    BY <1>6 DEF Unlock, Goto, Update
  <2> HIDE DEF new
  <2>4. Sound(ledger', new)
    BY <2>1, <2>2 DEF Sound, Accounted, Won, Lost
  <2> QED
    BY <2>1, <2>3, <2>4, SoundLocal
<1>7. ASSUME NEW p \in Threads, Emit(p) PROVE AccountInv'
  <2>1. UNCHANGED ledger /\ call' = [call EXCEPT ![p] = Idle]
    BY <1>7 DEF Emit, Update
  <2>2. Sound(ledger', Idle)
    BY DEF Sound, Idle
  <2> QED
    BY <2>1, <2>2, SoundLocal
<1>8. ASSUME NEW r \in fires, Confirm(r) \/ Rollback(r) PROVE AccountInv'
  <2>1. PICK status : SetStatus(r, status, {"reserved"})
    BY <1>8 DEF Confirm, Rollback
  <2>2. \A x \in DOMAIN ledger : ledger[x] \in Row
    BY DEF TypeOK, LedgerType
  <2>3. /\ DOMAIN ledger' = DOMAIN ledger
        /\ \A x \in DOMAIN ledger : ledger'[x].trigger = ledger[x].trigger
    BY <2>1, <2>2 DEF SetStatus, Row
  <2>4. UNCHANGED call
    BY <1>8 DEF Confirm, Rollback
  <2> QED
    BY <2>3, <2>4, SoundKept DEF AccountInv
<1>9. ASSUME NEW w \in Processes, Crash(w) PROVE AccountInv'
  <2>1. UNCHANGED ledger /\ \A p \in Threads : call'[p] = Idle \/ call'[p] = call[p]
    BY <1>9 DEF Crash
  <2>2. Sound(ledger, Idle)
    BY DEF Sound, Idle
  <2> QED
    BY <2>1, <2>2 DEF AccountInv
<1>10. CASE UNCHANGED vars \/ OutOfIds
  BY <1>10 DEF OutOfIds, vars, AccountInv
<1>11. ASSUME NEW p \in Threads, QueryFails(p) \/ RecordFails(p) PROVE AccountInv'
  <2>1. call[p] \in Call
    BY <1>11, CallFields DEF QueryFails, RecordFails, Reading, At
  <2> DEFINE new == [call[p] EXCEPT !.pc = "raising"]
  <2>2. new.pc = "raising"
    BY <2>1 DEF Call
  <2>3. call' = [call EXCEPT ![p] = new]
    BY <1>11 DEF QueryFails, RecordFails, Goto, Update
  <2> HIDE DEF new
  <2>4. Sound(ledger', new)
    BY <2>2 DEF Sound
  <2>5. /\ DOMAIN ledger \subseteq DOMAIN ledger'
        /\ \A x \in DOMAIN ledger : ledger'[x].trigger = ledger[x].trigger
    BY <1>11 DEF QueryFails, RecordFails, FreshIds, InsertRow
  <2> QED
    BY <2>3, <2>4, <2>5, SoundLocal
<1>12. ASSUME NEW p \in Threads, EmitFails(p) \/ Raise(p) PROVE AccountInv'
  <2>1. UNCHANGED ledger /\ call' = [call EXCEPT ![p] = Idle]
    BY <1>12 DEF EmitFails, Raise, Update
  <2>2. Sound(ledger', Idle)
    BY DEF Sound, Idle
  <2> QED
    BY <2>1, <2>2, SoundLocal
<1> QED
  BY <1>1, <1>2, <1>3, <1>4, <1>5, <1>6, <1>7, <1>8, <1>9, <1>10, <1>11, <1>12
     DEF Next, Step, Fail

\* Every decision of reserve() accounts for its candidates (engine.py:60-94), in however
\* many threads and processes: somebody won or a reason is given, with distinct triggers
\* the losers are those who did not win, and nobody loses to a lower precedence.
THEOREM DecisionsAccount == Spec => []DecisionAccounts
<1>1. Init => AccountInv
  BY DEF Init, AccountInv, Sound, Idle
<1>2. TypeOK /\ AccountInv /\ [Next]_vars => AccountInv'
  BY AccountStep, LedgerAssumption, EngineAssumption
<1>3. AccountInv => DecisionAccounts
  BY DEF AccountInv, Sound, Accounted, DecisionAccounts, Won, Lost, Distinct
<1> QED
  BY <1>1, <1>2, <1>3, TypeCorrect, PTL DEF Spec

-----------------------------------------------------------------------------
(* What M08 never hears of *)

\* The thread is about to hand reservation r to M08.
Carries(p, r) ==
    p \in Threads /\ call[p].pc \in {"unlock", "decided"} /\ call[p].decision.reservation_id = r

\* What a thread carries it still carries after a step, unless it has sent it, or is
\* interrupted.
LEMMA CarriedOn ==
    ASSUME EngineAssumption, TypeOK, [Next]_vars, NEW p, NEW r \in ResIds, Carries(p, r)
    PROVE  Carries(p, r)' \/ r \in fires' \/ CutShort(p, {"unlock", "decided"})
<1> USE DEF Carries
<1>1. ASSUME NEW q \in Threads, q # p, \E new : Update(q, new) PROVE Carries(p, r)'
  BY <1>1 DEF Update, TypeOK
<1>2. ASSUME NEW q \in Threads, Reserve(q) \/ Step(q) \/ Fail(q) PROVE \E new : Update(q, new)
  <2>1. CASE Reserve(q)
    BY <2>1 DEF Reserve
  <2>2. CASE Acquire(q) \/ CheckCooldown(q) \/ CheckGlobalCap(q) \/ Unlock(q)
    BY <2>2 DEF Acquire, CheckCooldown, CheckGlobalCap, Unlock, Goto, Suppress
  <2>3. CASE FilterOne(q)
    BY <2>3 DEF FilterOne
  <2>4. CASE NoneEligible(q) \/ RecordWinner(q) \/ Emit(q) \/ Raise(q)
    BY <2>4 DEF NoneEligible, RecordWinner, Emit, Raise
  <2>5. CASE QueryFails(q) \/ RecordFails(q) \/ EmitFails(q)
    BY <2>5 DEF QueryFails, RecordFails, EmitFails, Goto
  <2> QED
    BY <1>2, <2>1, <2>2, <2>3, <2>4, <2>5 DEF Step, Fail
<1>3. ASSUME Reserve(p) \/ Step(p) \/ Fail(p)
      PROVE  Carries(p, r)' \/ r \in fires' \/ CutShort(p, {"unlock", "decided"})
  <2>1. call[p] \in Call
    BY CallFields
  <2>2. Unlock(p) \/ Emit(p) \/ EmitFails(p)
    BY <1>3 DEF Reserve, Step, Fail, Acquire, CheckCooldown, CheckGlobalCap, FilterOne,
                NoneEligible, RecordWinner, Raise, QueryFails, Reading, RecordFails, At
  <2>3. CASE Unlock(p)
    BY <2>1, <2>3 DEF Unlock, Goto, Update, TypeOK, Call
  <2>4. CASE Emit(p)
    BY <2>4 DEF Emit, EngineAssumption
  <2>5. CASE EmitFails(p)
    BY <2>5, InterruptType DEF EmitFails, At, CutShort, Update, Idle, TypeOK
  <2> QED
    BY <2>2, <2>3, <2>4, <2>5
<1>4. ASSUME NEW x \in fires, Confirm(x) \/ Rollback(x) PROVE Carries(p, r)'
  BY <1>4 DEF Confirm, Rollback
<1>5. ASSUME NEW w \in Processes, Crash(w)
      PROVE  Carries(p, r)' \/ CutShort(p, {"unlock", "decided"})
  BY <1>5, InterruptType DEF Crash, CutShort, Idle
<1>6. CASE UNCHANGED vars \/ OutOfIds
  BY <1>6 DEF OutOfIds, vars
<1> QED
  BY <1>1, <1>2, <1>3, <1>4, <1>5, <1>6 DEF Next

\* The thread's INSERT raises, and has written row r.
InsertLost(p, r) == CutShort(p, {"filter"}) /\ call[p].todo = {} /\ r \notin DOMAIN ledger

\* A row that is reserved after a step was so before, or is carried by the thread that
\* inserted it, or its INSERT raised.
LEMMA ReservedBefore ==
    ASSUME EngineAssumption, TypeOK, [Next]_vars,
           NEW r \in DOMAIN ledger', ledger'[r].status = "reserved"
    PROVE  \/ r \in DOMAIN ledger /\ ledger[r].status = "reserved"
           \/ \E p \in Threads : Carries(p, r)' \/ InsertLost(p, r)
<1>1. ASSUME NEW p \in Threads, RecordWinner(p), r \notin DOMAIN ledger PROVE Carries(p, r)'
  <2>1. call[p] \in Call
    BY <1>1, CallFields DEF RecordWinner, At
  <2>2. PICK w \in call[p].eligible, x \in FreshIds :
          /\ InsertRow(x, call[p].customer, w.trigger, call[p].now)
          /\ Update(p, [call[p] EXCEPT !.pc = "unlock",
                                       !.decision = Approve(@, call[p].eligible, w, x)])
    BY <1>1 DEF RecordWinner
  <2>3. x = r
    BY <1>1, <2>2 DEF InsertRow
  <2>4. Approve(call[p].decision, call[p].eligible, w, x).reservation_id = x
    BY <2>1 DEF Approve, Drop, Call, Decision
  <2>5. call'[p] = [call[p] EXCEPT !.pc = "unlock",
                                   !.decision = Approve(call[p].decision, call[p].eligible, w, x)]
    BY <2>2 DEF Update, TypeOK
  <2> QED
    BY <2>1, <2>3, <2>4, <2>5 DEF Carries, Call
<1>2. ASSUME NEW p \in Threads, RecordWinner(p), r \in DOMAIN ledger
      PROVE  ledger[r].status = "reserved"
  <2>1. PICK w \in call[p].eligible, x \in ResIds \ DOMAIN ledger :
          InsertRow(x, call[p].customer, w.trigger, call[p].now)
    BY <1>2 DEF RecordWinner, FreshIds
  <2> QED
    BY <1>2, <2>1 DEF InsertRow
<1>3. ASSUME NEW x \in fires, Confirm(x) \/ Rollback(x)
      PROVE  r \in DOMAIN ledger /\ ledger[r].status = "reserved"
  <2>1. PICK status \in {"confirmed", "rolled_back"} : SetStatus(x, status, {"reserved"})
    BY <1>3 DEF Confirm, Rollback
  <2>2. \A y \in DOMAIN ledger : ledger[y] \in Row
    BY DEF TypeOK, LedgerType
  <2> QED
    BY <2>1, <2>2 DEF SetStatus, Row
<1>4. ASSUME NEW p \in Threads, Reserve(p) \/ Acquire(p) \/ CheckCooldown(p)
      PROVE  UNCHANGED ledger
  BY <1>4 DEF Reserve, Acquire, CheckCooldown
<1>5. ASSUME NEW p \in Threads, CheckGlobalCap(p) \/ FilterOne(p) \/ NoneEligible(p)
      PROVE  UNCHANGED ledger
  BY <1>5 DEF CheckGlobalCap, FilterOne, NoneEligible
<1>6. ASSUME NEW p \in Threads, Unlock(p) \/ Emit(p) \/ EmitFails(p) \/ QueryFails(p) \/ Raise(p)
      PROVE  UNCHANGED ledger
  BY <1>6 DEF Unlock, Emit, EmitFails, QueryFails, Raise
<1>7. ASSUME (\E w \in Processes : Crash(w)) \/ UNCHANGED vars \/ OutOfIds PROVE UNCHANGED ledger
  BY <1>7 DEF Crash, OutOfIds, vars
<1>8. ASSUME NEW p \in Threads, RecordFails(p), r \notin DOMAIN ledger PROVE InsertLost(p, r)
  <2>1. call[p] \in Call /\ call[p].pc = "filter" /\ call[p].todo = {}
    BY <1>8, CallFields DEF RecordFails, At
  <2>2. call'[p].pc = "raising"
    BY <1>8, <2>1 DEF RecordFails, Goto, Update, TypeOK, Call
  <2> QED
    BY <1>8, <2>1, <2>2, InterruptType DEF RecordFails, InsertLost, CutShort
<1>9. ASSUME NEW p \in Threads, RecordFails(p), r \in DOMAIN ledger
      PROVE  ledger[r].status = "reserved"
  <2>1. UNCHANGED ledger \/ \E w \in call[p].eligible, x \in ResIds \ DOMAIN ledger :
           InsertRow(x, call[p].customer, w.trigger, call[p].now)
    BY <1>9 DEF RecordFails, FreshIds
  <2> QED
    BY <1>9, <2>1 DEF InsertRow
<1> QED
  BY <1>1, <1>2, <1>3, <1>4, <1>5, <1>6, <1>7, <1>8, <1>9 DEF Next, Step, Fail

\* An approved reservation is lost to M08 only by an interruption, a crash or a raising
\* call, of the very call that inserts or carries it (engine.py:94, evaluator.py:114-125);
\* no interleaving of threads, failures of others, confirmations or rollbacks strands one.
THEOREM InterruptionsAloneStrand == Spec => OnlyInterruptionsStrand
<1>1. ASSUME TypeOK, [Next]_vars, NEW r \in Stranded' \ Stranded
      PROVE  \E p \in Threads :
                \/ InsertLost(p, r)
                \/ CutShort(p, {"unlock", "decided"}) /\ call[p].decision.reservation_id = r
  <2> SUFFICES ASSUME \A p \in Threads : ~InsertLost(p, r)
               PROVE  \E p \in Threads : /\ CutShort(p, {"unlock", "decided"})
                                         /\ call[p].decision.reservation_id = r
    OBVIOUS
  <2>1. /\ r \in DOMAIN ledger' /\ ledger'[r].status = "reserved" /\ r \notin fires'
        /\ \A p \in Threads : ~Carries(p, r)'
    BY <1>1 DEF Stranded, Carries
  <2>2. r \in DOMAIN ledger /\ ledger[r].status = "reserved"
    BY <1>1, <2>1, ReservedBefore, EngineAssumption
  <2>3. r \in ResIds
    BY <1>1, <2>2 DEF TypeOK, LedgerType
  <2>4. r \notin fires
    <3>1. fires \subseteq fires'
      BY <1>1 DEF Next, Step, Fail, Reserve, Acquire, CheckCooldown, CheckGlobalCap, FilterOne,
                  NoneEligible, RecordWinner, Unlock, Raise, Emit, QueryFails, RecordFails,
                  EmitFails, Confirm, Rollback, Crash, OutOfIds, vars
    <3> QED
      BY <2>1, <3>1
  <2>5. PICK p \in Threads : Carries(p, r)
    BY <1>1, <2>2, <2>4 DEF Stranded, Carries
  <2> QED
    BY <1>1, <2>1, <2>3, <2>5, CarriedOn, EngineAssumption DEF Carries
<1>2. TypeOK /\ [Next]_vars =>
         [\A r \in Stranded' \ Stranded : \E p \in Threads :
             \/ CutShort(p, {"filter"}) /\ call[p].todo = {} /\ r \notin DOMAIN ledger
             \/ CutShort(p, {"unlock", "decided"}) /\ call[p].decision.reservation_id = r]_vars
  BY <1>1 DEF InsertLost
<1> QED
  BY <1>2, TypeCorrect, PTL DEF Spec, OnlyInterruptionsStrand

-----------------------------------------------------------------------------
(* The critical section *)

\* Moving on within the critical section, or leaving it, takes no lock away.
LEMMA LockHeldLocal ==
    ASSUME TypeOK, LockHeld, NEW p \in Threads, UNCHANGED lock,
           NEW new, call' = [call EXCEPT ![p] = new],
           \/ new.pc \notin Critical
           \/ call[p].pc \in Critical /\ new.customer = call[p].customer
    PROVE  LockHeld'
<1> SUFFICES ASSUME NEW q \in Threads, call'[q].pc \in Critical
             PROVE  lock[ProcessOf[q]][call'[q].customer] = q
  BY DEF LockHeld
<1>1. CASE q = p
  <2>1. call'[q] = new
    BY <1>1 DEF TypeOK
  <2> QED
    BY <1>1, <2>1 DEF LockHeld
<1>2. CASE q # p
  <2>1. call'[q] = call[q]
    BY <1>2 DEF TypeOK
  <2> QED
    BY <2>1 DEF LockHeld
<1> QED
  BY <1>1, <1>2

LEMMA LockHeldStep ==
    ASSUME LedgerAssumption, EngineAssumption, TypeOK, LockHeld, [Next]_vars
    PROVE  LockHeld'
<1>1. ASSUME NEW p \in Threads, Reserve(p) PROVE LockHeld'
  <2>1. PICK c \in Customers, now \in Times, candidates \in CandidateLists :
          Update(p, [pc |-> IF candidates = {} THEN "decided" ELSE "lock",
                     customer |-> c, now |-> now, candidates |-> candidates,
                     todo |-> candidates, eligible |-> {}, decision |-> NotApproved])
    BY <1>1 DEF Reserve
  <2> QED
    BY <1>1, <2>1, LockHeldLocal DEF Reserve, Update, Critical
<1>2. ASSUME NEW p \in Threads, Acquire(p) PROVE LockHeld'
  <2> DEFINE new == [call[p] EXCEPT !.pc = "cooldown"]
  <2>1. call[p] \in Call /\ new.customer = call[p].customer
    BY <1>2, CallFields DEF Acquire, At, Call
  <2>2. /\ call' = [call EXCEPT ![p] = new]
        /\ lock[ProcessOf[p]][call[p].customer] = Free
        /\ lock' = [lock EXCEPT ![ProcessOf[p]][call[p].customer] = p]
    BY <1>2 DEF Acquire, Goto, Update, LockOf
  <2> SUFFICES ASSUME NEW q \in Threads, call'[q].pc \in Critical
               PROVE  lock'[ProcessOf[q]][call'[q].customer] = q
    BY DEF LockHeld
  <2>3. CASE q = p
    <3>1. call'[q] = new
      BY <2>2, <2>3 DEF TypeOK
    <3>2. ProcessOf[p] \in Processes /\ call[p].customer \in Customers
      BY <2>1 DEF EngineAssumption, Call
    <3> QED
      BY <2>1, <2>2, <2>3, <3>1, <3>2 DEF TypeOK
  <2>4. CASE q # p
    <3>1. call'[q] = call[q]
      BY <2>2, <2>4 DEF TypeOK
    <3>2. lock[ProcessOf[q]][call[q].customer] = q
      BY <3>1 DEF LockHeld
    <3>3. q # Free
      BY DEF EngineAssumption
    <3>4. call[q].pc # "idle"
      BY <3>1 DEF Critical
    <3>5. call[q].customer \in Customers /\ ProcessOf[q] \in Processes
      BY <3>4, CallFields DEF Call, EngineAssumption
    <3> QED
      BY <2>2, <3>1, <3>2, <3>3, <3>5 DEF TypeOK
  <2> QED
    BY <2>3, <2>4
<1>3. ASSUME NEW p \in Threads, CheckCooldown(p) \/ CheckGlobalCap(p) PROVE LockHeld'
  <2>1. call[p] \in Call /\ call[p].pc \in Critical
    BY <1>3, CallFields DEF CheckCooldown, CheckGlobalCap, At, Critical
  <2>2. \/ \E pc \in PC : call' = [call EXCEPT ![p] = [call[p] EXCEPT !.pc = pc]]
        \/ \E pc \in PC, d \in Decision :
              call' = [call EXCEPT ![p] = [call[p] EXCEPT !.pc = pc, !.decision = d]]
    <3>1. \A reason \in Reason : SuppressAll(call[p].candidates, reason) \in Decision
      BY DEF SuppressAll, Decision
    <3> QED
      BY <1>3, <3>1 DEF CheckCooldown, CheckGlobalCap, Goto, Suppress, Update, PC, Reason
  <2>3. \A pc \in PC : [call[p] EXCEPT !.pc = pc].customer = call[p].customer
    BY <2>1 DEF Call
  <2>4. \A pc \in PC, d \in Decision :
           [call[p] EXCEPT !.pc = pc, !.decision = d].customer = call[p].customer
    BY <2>1 DEF Call
  <2>5. UNCHANGED lock
    BY <1>3 DEF CheckCooldown, CheckGlobalCap
  <2> QED
    BY <2>1, <2>2, <2>3, <2>4, <2>5, LockHeldLocal
<1>4. ASSUME NEW p \in Threads, FilterOne(p) \/ NoneEligible(p) \/ RecordWinner(p)
      PROVE  LockHeld'
  <2>1. call[p] \in Call /\ call[p].pc \in Critical
    BY <1>4, CallFields DEF FilterOne, NoneEligible, RecordWinner, At, Critical
  <2>2. UNCHANGED lock
    BY <1>4 DEF FilterOne, NoneEligible, RecordWinner
  <2>3. CASE FilterOne(p)
    <3>1. PICK c \in call[p].todo :
            \/ call' = [call EXCEPT ![p] =
                          [call[p] EXCEPT !.todo = @ \ {c}, !.eligible = @ \cup {c}]]
            \/ call' = [call EXCEPT ![p] =
                          [call[p] EXCEPT !.todo = @ \ {c},
                                          !.decision = Drop(@, {c.trigger}, "frequency_cap")]]
      BY <2>3 DEF FilterOne, Update
    <3>2. /\ [call[p] EXCEPT !.todo = @ \ {c}, !.eligible = @ \cup {c}].customer
                = call[p].customer
          /\ [call[p] EXCEPT !.todo = @ \ {c},
                             !.decision = Drop(@, {c.trigger}, "frequency_cap")].customer
                = call[p].customer
      BY <2>1 DEF Call
    <3> QED
      BY <2>1, <2>2, <3>1, <3>2, LockHeldLocal
  <2>4. CASE NoneEligible(p)
    <3>1. [call[p] EXCEPT !.pc = "unlock",
                          !.decision.suppression_reason = "frequency_cap"].customer
             = call[p].customer
      BY <2>1 DEF Call
    <3> QED
      BY <2>1, <2>2, <2>4, <3>1, LockHeldLocal DEF NoneEligible, Update
  <2>5. CASE RecordWinner(p)
    <3>1. PICK w \in call[p].eligible, r \in ResIds :
            call' = [call EXCEPT ![p] =
                       [call[p] EXCEPT !.pc = "unlock",
                                       !.decision = Approve(@, call[p].eligible, w, r)]]
      BY <2>5 DEF RecordWinner, FreshIds, Update
    <3>2. [call[p] EXCEPT !.pc = "unlock",
                          !.decision = Approve(@, call[p].eligible, w, r)].customer
             = call[p].customer
      BY <2>1 DEF Call
    <3> QED
      BY <2>1, <2>2, <3>1, <3>2, LockHeldLocal
  <2> QED
    BY <1>4, <2>3, <2>4, <2>5
<1>5. ASSUME NEW p \in Threads, Unlock(p) \/ Raise(p) PROVE LockHeld'
  <2>1. call[p] \in Call /\ call[p].pc \in Critical
    BY <1>5, CallFields DEF Unlock, Raise, At, Critical
  <2> DEFINE new == IF Unlock(p) THEN [call[p] EXCEPT !.pc = "decided"] ELSE Idle
  <2>2. /\ call' = [call EXCEPT ![p] = new] /\ new.pc \in {"decided", "idle"}
        /\ lock' = [lock EXCEPT ![ProcessOf[p]][call[p].customer] = Free]
    BY <1>5, <2>1 DEF Unlock, Raise, Goto, Update, Call, Idle
  <2> HIDE DEF new
  <2> SUFFICES ASSUME NEW q \in Threads, call'[q].pc \in Critical
               PROVE  lock'[ProcessOf[q]][call'[q].customer] = q
    BY DEF LockHeld
  <2>3. q # p
    BY <2>1, <2>2 DEF TypeOK, Critical
  <2>4. call'[q] = call[q]
    BY <2>2, <2>3 DEF TypeOK
  <2>5. /\ lock[ProcessOf[q]][call[q].customer] = q
        /\ lock[ProcessOf[p]][call[p].customer] = p
    BY <2>1, <2>4 DEF LockHeld
  <2> QED
    BY <2>2, <2>3, <2>4, <2>5 DEF TypeOK
<1>6. ASSUME NEW p \in Threads, Emit(p) PROVE LockHeld'
  BY <1>6, LockHeldLocal DEF Emit, Update, Idle, Critical
<1>7. ASSUME NEW r \in fires, Confirm(r) \/ Rollback(r) PROVE LockHeld'
  BY <1>7 DEF Confirm, Rollback, LockHeld
<1>8. ASSUME NEW w \in Processes, Crash(w) PROVE LockHeld'
  <2> SUFFICES ASSUME NEW q \in Threads, call'[q].pc \in Critical
               PROVE  lock'[ProcessOf[q]][call'[q].customer] = q
    BY DEF LockHeld
  <2>1. ProcessOf[q] # w /\ call'[q] = call[q]
    BY <1>8 DEF Crash, Idle, Critical
  <2> QED
    BY <1>8, <2>1 DEF Crash, TypeOK, LockHeld, EngineAssumption
<1>9. CASE UNCHANGED vars \/ OutOfIds
  BY <1>9 DEF vars, OutOfIds, LockHeld
<1>10. ASSUME NEW p \in Threads, QueryFails(p) \/ RecordFails(p) PROVE LockHeld'
  <2>1. call[p] \in Call /\ call[p].pc \in Critical
    BY <1>10, CallFields DEF QueryFails, RecordFails, Reading, At, Critical
  <2>2. [call[p] EXCEPT !.pc = "raising"].customer = call[p].customer
    BY <2>1 DEF Call
  <2> QED
    BY <1>10, <2>1, <2>2, LockHeldLocal DEF QueryFails, RecordFails, Goto, Update
<1>11. ASSUME NEW p \in Threads, EmitFails(p) PROVE LockHeld'
  BY <1>11, LockHeldLocal DEF EmitFails, Update, Idle, Critical
<1> QED
  BY <1>1, <1>2, <1>3, <1>4, <1>5, <1>6, <1>7, <1>8, <1>9, <1>10, <1>11 DEF Next, Step, Fail

\* No two threads are in the critical section for one customer.
LEMMA OneInside ==
    ASSUME OneProcess, LockHeld, NEW p \in Threads, NEW q \in Threads,
           call[p].pc \in Critical, call[q].pc \in Critical, call[p].customer = call[q].customer
    PROVE  p = q
BY DEF OneProcess, LockHeld

-----------------------------------------------------------------------------
(* What a thread has checked stays true *)

\* No counted row of customer d is added, and those that stay keep their time.
NoMoreRows(d) ==
    \A u : /\ CountedRows(d)' \subseteq CountedRows(d)
           /\ CountedRowsOf(d, u)' \subseteq CountedRowsOf(d, u)
           /\ \A x \in CountedRows(d) : ledger'[x].reserved_at = ledger[x].reserved_at

LEMMA CheckedKept ==
    ASSUME LedgerAssumption, TypeOK, NEW p \in Threads, Checked(p),
           call'[p] = call[p], NoMoreRows(call[p].customer)
    PROVE  Checked(p)'
<1> DEFINE d == call[p].customer   now == call[p].now
<1>1. /\ LedgerType /\ d = call'[p].customer /\ now = call'[p].now
      /\ call'[p].pc = call[p].pc /\ call'[p].eligible = call[p].eligible
  BY DEF TypeOK
<1>2. /\ CountedRows(d) \subseteq DOMAIN ledger
      /\ \A u : CountedRowsOf(d, u) \subseteq CountedRows(d)
  BY DEF CountedRows, CountedRowsOf
<1>3. InCooldown(d, now)' => InCooldown(d, now)
  BY <1>1 DEF InCooldown, NoMoreRows
<1>4. ASSUME NEW cap \in Cap, WouldFire(CountedRows(d), now, cap)
      PROVE  WouldFire(CountedRows(d), now, cap)'
  <2> DEFINE rows == CountedRows(d)   fewer == CountedRows(d)'
  <2>1. /\ rows \in SUBSET DOMAIN ledger /\ fewer \in SUBSET rows
        /\ \A x \in rows : ledger'[x].reserved_at = ledger[x].reserved_at
        /\ WouldFire(rows, now, cap)
    BY <1>2, <1>4 DEF NoMoreRows
  <2> HIDE DEF rows, fewer
  <2>2. Cardinality({x \in fewer : now - ledger'[x].reserved_at < cap.per}) < cap.max
    BY <1>1, <2>1, FewerFire
  <2> QED
    BY <1>1, <2>2 DEF fewer, WouldFire, Recent
<1>5. ASSUME NEW u, NEW cap \in Cap, WouldFire(CountedRowsOf(d, u), now, cap)
      PROVE  WouldFire(CountedRowsOf(d, u), now, cap)'
  <2> DEFINE rows == CountedRowsOf(d, u)   fewer == CountedRowsOf(d, u)'
  <2>1. /\ rows \in SUBSET DOMAIN ledger /\ fewer \in SUBSET rows
        /\ \A x \in rows : ledger'[x].reserved_at = ledger[x].reserved_at
        /\ WouldFire(rows, now, cap)
    BY <1>2, <1>5 DEF NoMoreRows
  <2> HIDE DEF rows, fewer
  <2>2. Cardinality({x \in fewer : now - ledger'[x].reserved_at < cap.per}) < cap.max
    BY <1>1, <2>1, FewerFire
  <2> QED
    BY <1>1, <2>2 DEF fewer, WouldFire, Recent
<1>6. \A c \in call[p].eligible : call[p].pc = "filter" => TriggerCap[c.trigger] \in Cap
  BY CallFields DEF LedgerAssumption, Call, Candidate
<1>7. GlobalCap \subseteq Cap
  BY DEF LedgerAssumption
<1>8. (call[p].pc \in {"global_cap", "filter"} => ~InCooldown(call[p].customer, call[p].now))'
  BY <1>1, <1>3 DEF Checked
<1>9. (call[p].pc = "filter" =>
          \A cap \in GlobalCap : WouldFire(CountedRows(call[p].customer), call[p].now, cap))'
  BY <1>1, <1>4, <1>7 DEF Checked
<1>10. (call[p].pc = "filter" =>
          \A c \in call[p].eligible :
             WouldFire(CountedRowsOf(call[p].customer, c.trigger), call[p].now,
                       TriggerCap[c.trigger]))'
  BY <1>1, <1>5, <1>6 DEF Checked
<1> QED
  BY <1>1, <1>8, <1>9, <1>10 DEF Checked

\* A step of p that leaves the ledger alone disturbs no other thread's checks.
LEMMA CheckedOthers ==
    ASSUME TypeOK, ChecksStand, NEW p \in Threads, UNCHANGED ledger,
           \A q \in Threads \ {p} : call'[q] = call[q], Checked(p)'
    PROVE  ChecksStand'
<1> SUFFICES ASSUME NEW q \in Threads PROVE Checked(q)'
  BY DEF ChecksStand
<1>1. CASE q # p
  BY <1>1 DEF ChecksStand, Checked, InCooldown, WouldFire, Recent, CountedRows, CountedRowsOf
<1> QED
  BY <1>1

LEMMA Updated ==
    ASSUME TypeOK, NEW p \in Threads, NEW new, Update(p, new)
    PROVE  call'[p] = new /\ \A q \in Threads \ {p} : call'[q] = call[q]
BY DEF TypeOK, Update

\* The fields of a call after a change of its pc, and of its decision.
LEMMA Moved ==
    ASSUME NEW c \in Call, NEW pc, NEW d
    PROVE  /\ [c EXCEPT !.pc = pc].pc = pc
           /\ [c EXCEPT !.pc = pc].customer = c.customer
           /\ [c EXCEPT !.pc = pc].now = c.now
           /\ [c EXCEPT !.pc = pc].eligible = c.eligible
           /\ [c EXCEPT !.pc = pc, !.decision = d].pc = pc
BY DEF Call

LEMMA ChecksStandStep ==
    ASSUME LedgerAssumption, EngineAssumption, OneProcess, TypeOK, LockHeld, ChecksStand,
           [Next]_vars
    PROVE  ChecksStand'
<1>1. ASSUME NEW p \in Threads, Reserve(p) PROVE ChecksStand'
  <2>1. call'[p].eligible = {} /\ call'[p].pc \in {"decided", "lock"}
    BY <1>1 DEF Reserve, Update, TypeOK
  <2>2. \A q \in Threads \ {p} : call'[q] = call[q]
    BY <1>1 DEF Reserve, Update, TypeOK
  <2> QED
    BY <1>1, <2>1, <2>2, CheckedOthers DEF Reserve, Checked
<1>2. ASSUME NEW p \in Threads, Acquire(p) PROVE ChecksStand'
  <2>1. call[p] \in Call /\ call[p].eligible = {}
    BY <1>2, CallFields DEF Acquire, At, ChecksStand, Checked
  <2>2. call'[p].eligible = {} /\ call'[p].pc = "cooldown"
    BY <1>2, <2>1 DEF Acquire, Goto, Update, TypeOK, Call
  <2>3. \A q \in Threads \ {p} : call'[q] = call[q]
    BY <1>2 DEF Acquire, Goto, Update, TypeOK
  <2> QED
    BY <1>2, <2>2, <2>3, CheckedOthers DEF Acquire, Checked
<1>3. ASSUME NEW p \in Threads, CheckCooldown(p) PROVE ChecksStand'
  <2>1. call[p] \in Call /\ call[p].pc = "cooldown" /\ call[p].eligible = {}
    BY <1>3, CallFields DEF CheckCooldown, At, ChecksStand, Checked
  <2>2. \A q \in Threads \ {p} : call'[q] = call[q]
    BY <1>3 DEF CheckCooldown, Goto, Suppress, Update, TypeOK
  <2>3. CASE InCooldown(call[p].customer, call[p].now)
    <3>1. call'[p].pc = "unlock"
      <4>1. Update(p, [call[p] EXCEPT !.pc = "unlock",
                         !.decision = SuppressAll(call[p].candidates, "cooldown")])
        BY <1>3, <2>3 DEF CheckCooldown, Suppress
      <4>2. call'[p] = [call[p] EXCEPT !.pc = "unlock",
                          !.decision = SuppressAll(call[p].candidates, "cooldown")]
        BY <4>1, Updated
      <4> QED
        BY <2>1, <4>2, Moved
    <3> QED
      BY <1>3, <2>2, <3>1, CheckedOthers DEF CheckCooldown, Checked
  <2>4. CASE ~InCooldown(call[p].customer, call[p].now)
    <3>1. /\ call'[p].pc = "global_cap" /\ call'[p].eligible = {}
          /\ call'[p].customer = call[p].customer /\ call'[p].now = call[p].now
      BY <1>3, <2>1, <2>4 DEF CheckCooldown, Goto, Update, TypeOK, Call
    <3>2. Checked(p)'
      BY <1>3, <2>4, <3>1 DEF CheckCooldown, Checked, InCooldown, CountedRows
    <3> QED
      BY <1>3, <2>2, <3>2, CheckedOthers DEF CheckCooldown
  <2> QED
    BY <2>3, <2>4
<1>4. ASSUME NEW p \in Threads, CheckGlobalCap(p) PROVE ChecksStand'
  <2>1. /\ call[p] \in Call /\ call[p].pc = "global_cap" /\ call[p].eligible = {}
        /\ ~InCooldown(call[p].customer, call[p].now)
    BY <1>4, CallFields DEF CheckGlobalCap, At, ChecksStand, Checked
  <2>2. \A q \in Threads \ {p} : call'[q] = call[q]
    BY <1>4 DEF CheckGlobalCap, Goto, Suppress, Update, TypeOK
  <2> DEFINE room == \A cap \in GlobalCap :
                        WouldFire(CountedRows(call[p].customer), call[p].now, cap)
  <2>3. CASE ~room
    <3>1. call'[p].pc = "unlock"
      <4>1. Update(p, [call[p] EXCEPT !.pc = "unlock",
                         !.decision = SuppressAll(call[p].candidates, "global_cap")])
        BY <1>4, <2>3 DEF CheckGlobalCap, Suppress
      <4>2. call'[p] = [call[p] EXCEPT !.pc = "unlock",
                          !.decision = SuppressAll(call[p].candidates, "global_cap")]
        BY <4>1, Updated
      <4> QED
        BY <2>1, <4>2, Moved
    <3> QED
      BY <1>4, <2>2, <3>1, CheckedOthers DEF CheckGlobalCap, Checked
  <2>4. CASE room
    <3>1. /\ call'[p].pc = "filter" /\ call'[p].eligible = {}
          /\ call'[p].customer = call[p].customer /\ call'[p].now = call[p].now
      <4>1. Update(p, [call[p] EXCEPT !.pc = "filter"])
        BY <1>4, <2>4 DEF CheckGlobalCap, Goto
      <4>2. call'[p] = [call[p] EXCEPT !.pc = "filter"]
        BY <4>1, Updated
      <4> QED
        BY <2>1, <4>2, Moved
    <3>2. Checked(p)'
      BY <1>4, <2>1, <2>4, <3>1
         DEF CheckGlobalCap, Checked, InCooldown, CountedRows, WouldFire, Recent
    <3> QED
      BY <1>4, <2>2, <3>2, CheckedOthers DEF CheckGlobalCap
  <2> QED
    BY <2>3, <2>4
<1>5. ASSUME NEW p \in Threads, FilterOne(p) PROVE ChecksStand'
  <2>1. call[p] \in Call /\ call[p].pc = "filter" /\ Checked(p)
    BY <1>5, CallFields DEF FilterOne, At, ChecksStand
  <2>2. \A q \in Threads \ {p} : call'[q] = call[q]
    BY <1>5 DEF FilterOne, Update, TypeOK
  <2>3. /\ call'[p].pc = "filter"
        /\ call'[p].customer = call[p].customer /\ call'[p].now = call[p].now
        /\ \A c \in call'[p].eligible : c \notin call[p].eligible =>
              WouldFire(CountedRowsOf(call[p].customer, c.trigger), call[p].now,
                        TriggerCap[c.trigger])
    <3> DEFINE room(c) == WouldFire(CountedRowsOf(call[p].customer, c.trigger), call[p].now,
                                    TriggerCap[c.trigger])
    <3>1. PICK c \in call[p].todo :
            IF room(c)
            THEN Update(p, [call[p] EXCEPT !.todo = @ \ {c}, !.eligible = @ \cup {c}])
            ELSE Update(p, [call[p] EXCEPT !.todo = @ \ {c},
                                           !.decision = Drop(@, {c.trigger}, "frequency_cap")])
      BY <1>5 DEF FilterOne
    <3> HIDE DEF room
    <3>2. CASE room(c)
      <4>1. call'[p] = [call[p] EXCEPT !.todo = @ \ {c}, !.eligible = @ \cup {c}]
        BY <3>1, <3>2, Updated
      <4>2. /\ call'[p].pc = "filter" /\ call'[p].customer = call[p].customer
            /\ call'[p].now = call[p].now /\ call'[p].eligible = call[p].eligible \cup {c}
        BY <2>1, <4>1 DEF Call
      <4> QED
        BY <3>2, <4>2 DEF room
    <3>3. CASE ~room(c)
      <4>1. call'[p] = [call[p] EXCEPT !.todo = @ \ {c},
                                       !.decision = Drop(@, {c.trigger}, "frequency_cap")]
        BY <3>1, <3>3, Updated
      <4>2. /\ call'[p].pc = "filter" /\ call'[p].customer = call[p].customer
            /\ call'[p].now = call[p].now /\ call'[p].eligible = call[p].eligible
        BY <2>1, <4>1 DEF Call
      <4> QED
        BY <4>2
    <3> QED
      BY <3>2, <3>3
  <2>4. Checked(p)'
    BY <1>5, <2>1, <2>3
       DEF FilterOne, Checked, InCooldown, CountedRows, CountedRowsOf, WouldFire, Recent
  <2> QED
    BY <1>5, <2>2, <2>4, CheckedOthers DEF FilterOne
<1>6. ASSUME NEW p \in Threads, NoneEligible(p) \/ Unlock(p) \/ Emit(p) PROVE ChecksStand'
  <2>2. call'[p].pc \in {"unlock", "decided", "idle"}
    <3>1. CASE NoneEligible(p)
      <4>1. call[p] \in Call
        BY <3>1, CallFields DEF NoneEligible, At
      <4>2. call'[p] = [call[p] EXCEPT !.pc = "unlock",
                                       !.decision.suppression_reason = "frequency_cap"]
        BY <3>1, Updated DEF NoneEligible
      <4> QED
        BY <4>1, <4>2 DEF Call
    <3>2. CASE Unlock(p)
      <4>1. call[p] \in Call
        BY <3>2, CallFields DEF Unlock, At
      <4>2. Update(p, [call[p] EXCEPT !.pc = "decided"])
        BY <3>2 DEF Unlock, Goto
      <4>3. call'[p] = [call[p] EXCEPT !.pc = "decided"]
        BY <4>2, Updated
      <4> QED
        BY <4>1, <4>3, Moved
    <3>3. CASE Emit(p)
      BY <3>3, Updated DEF Emit, Idle
    <3> QED
      BY <1>6, <3>1, <3>2, <3>3
  <2>3. \A q \in Threads \ {p} : call'[q] = call[q]
    BY <1>6 DEF NoneEligible, Unlock, Emit, Goto, Update, TypeOK
  <2> QED
    BY <1>6, <2>2, <2>3, CheckedOthers DEF NoneEligible, Unlock, Emit, Checked
<1>7. ASSUME NEW p \in Threads, RecordWinner(p) \/ (RecordFails(p) /\ ~UNCHANGED ledger)
      PROVE  ChecksStand'
  <2>1. call[p] \in Call /\ call[p].pc = "filter"
    BY <1>7, CallFields DEF RecordWinner, RecordFails, At
  <2>2. PICK w \in call[p].eligible, r \in ResIds \ DOMAIN ledger :
          InsertRow(r, call[p].customer, w.trigger, call[p].now)
    BY <1>7 DEF RecordWinner, RecordFails, FreshIds
  <2>3. /\ call[p].customer \in Customers /\ w.trigger \in Triggers /\ call[p].now \in Times
    BY <2>1 DEF Call, Candidate
  <2>4. /\ LedgerType
        /\ \A x \in DOMAIN ledger : ledger'[x] = ledger[x]
        /\ \A d : d # call[p].customer => CountedRows(d)' = CountedRows(d)
        /\ \A d, u : d # call[p].customer => CountedRowsOf(d, u)' = CountedRowsOf(d, u)
    <3> DEFINE c == call[p].customer   t == w.trigger   now == call[p].now
    <3>1. /\ c \in Customers /\ t \in Triggers /\ now \in Times /\ LedgerType
          /\ InsertRow(r, c, t, now)
      BY <2>2, <2>3 DEF TypeOK
    <3> HIDE DEF c, t, now
    <3>2. /\ \A x \in DOMAIN ledger : ledger'[x] = ledger[x]
          /\ \A d : d # c => CountedRows(d)' = CountedRows(d)
          /\ \A d, u : d # c \/ u # t => CountedRowsOf(d, u)' = CountedRowsOf(d, u)
      BY <3>1, InsertedRows
    <3> QED
      BY <3>1, <3>2 DEF c
  <2>5. \A d : d # call[p].customer => NoMoreRows(d)
    BY <2>4 DEF NoMoreRows, CountedRows
  <2>6. call'[p].pc \in {"unlock", "raising"} /\ \A q \in Threads \ {p} : call'[q] = call[q]
    <3>1. CASE RecordWinner(p)
      BY <2>1, <3>1 DEF RecordWinner, Update, TypeOK, Call
    <3>2. CASE RecordFails(p)
      BY <2>1, <3>2 DEF RecordFails, Goto, Update, TypeOK, Call
    <3> QED
      BY <1>7, <3>1, <3>2
  <2> SUFFICES ASSUME NEW q \in Threads PROVE Checked(q)'
    BY DEF ChecksStand
  <2>7. CASE q = p
    BY <2>6, <2>7 DEF Checked
  <2>8. CASE q # p /\ call[q].pc \in Critical
    <3>1. call[q].customer # call[p].customer
      BY <2>1, <2>8, OneInside DEF Critical
    <3> QED
      BY <2>5, <2>6, <2>8, <3>1, CheckedKept DEF ChecksStand
  <2>9. CASE q # p /\ call[q].pc \notin Critical
    BY <2>6, <2>9 DEF ChecksStand, Checked, Critical
  <2> QED
    BY <2>7, <2>8, <2>9
<1>8. ASSUME NEW r \in fires, Confirm(r) \/ Rollback(r) PROVE ChecksStand'
  <2>1. /\ \A x \in DOMAIN ledger : ledger'[x].reserved_at = ledger[x].reserved_at
        /\ \A d, u : /\ CountedRows(d)' \subseteq CountedRows(d)
                     /\ CountedRowsOf(d, u)' \subseteq CountedRowsOf(d, u)
    BY <1>8, SettledRows DEF Confirm, Rollback, TypeOK
  <2>2. \A d : NoMoreRows(d)
    BY <2>1 DEF NoMoreRows, CountedRows
  <2>3. UNCHANGED call
    BY <1>8 DEF Confirm, Rollback
  <2> QED
    BY <2>2, <2>3, CheckedKept DEF ChecksStand
<1>9. ASSUME NEW w \in Processes, Crash(w) PROVE ChecksStand'
  <2> SUFFICES ASSUME NEW q \in Threads PROVE Checked(q)'
    BY DEF ChecksStand
  <2>1. UNCHANGED ledger /\ (call'[q] = call[q] \/ call'[q] = Idle)
    BY <1>9 DEF Crash
  <2>2. CASE call'[q] = Idle
    BY <2>2 DEF Idle, Checked
  <2>3. CASE call'[q] = call[q]
    BY <2>1, <2>3
       DEF ChecksStand, Checked, InCooldown, WouldFire, Recent, CountedRows, CountedRowsOf
  <2> QED
    BY <2>1, <2>2, <2>3
<1>10. CASE UNCHANGED vars \/ OutOfIds
  BY <1>10 DEF vars, OutOfIds, ChecksStand, Checked, InCooldown, WouldFire, Recent,
               CountedRows, CountedRowsOf
<1>11. ASSUME NEW p \in Threads, UNCHANGED ledger, QueryFails(p) \/ RecordFails(p)
       PROVE  ChecksStand'
  <2>1. call[p] \in Call
    BY <1>11, CallFields DEF QueryFails, RecordFails, Reading, At
  <2>2. call'[p].pc = "raising" /\ \A q \in Threads \ {p} : call'[q] = call[q]
    BY <1>11, <2>1 DEF QueryFails, RecordFails, Goto, Update, TypeOK, Call
  <2> QED
    BY <1>11, <2>2, CheckedOthers DEF Checked
<1>12. ASSUME NEW p \in Threads, EmitFails(p) \/ Raise(p) PROVE ChecksStand'
  <2>1. Update(p, Idle) /\ UNCHANGED ledger
    BY <1>12 DEF EmitFails, Raise
  <2>2. call'[p].pc = "idle" /\ \A q \in Threads \ {p} : call'[q] = call[q]
    BY <2>1, Updated DEF Idle
  <2> QED
    BY <2>1, <2>2, CheckedOthers DEF Checked
<1>13. ASSUME NEW p \in Threads, QueryFails(p) PROVE UNCHANGED ledger
  BY <1>13 DEF QueryFails
<1> QED
  BY <1>1, <1>2, <1>3, <1>4, <1>5, <1>6, <1>7, <1>8, <1>9, <1>10, <1>11, <1>12, <1>13
     DEF Next, Step, Fail

-----------------------------------------------------------------------------
(* The theorems *)

EngineInv == TypeOK /\ LockHeld /\ ChecksStand

\* The inductive invariant of the engine in one process: types, the lock of every
\* thread in the critical section, and what each thread has checked so far.
THEOREM EngineInvariant ==
    ASSUME OneProcess
    PROVE  Spec => []EngineInv
<1>1. Init => EngineInv
  <2> SUFFICES ASSUME Init PROVE EngineInv
    OBVIOUS
  <2>1. TypeOK
    BY TypeInit, LedgerAssumption, EngineAssumption
  <2>2. \A p \in Threads : call[p].pc = "idle"
    BY DEF Init, Idle
  <2> QED
    BY <2>1, <2>2 DEF EngineInv, LockHeld, ChecksStand, Checked, Critical
<1>2. EngineInv /\ [Next]_vars => EngineInv'
  BY OneProcess, TypeStep, LockHeldStep, ChecksStandStep, LedgerAssumption, EngineAssumption
     DEF EngineInv
<1> QED
  BY <1>1, <1>2, PTL DEF Spec

\* With one process, what a thread has checked stays true until it acts on it.
THEOREM ChecksAlwaysStand ==
    ASSUME OneProcess
    PROVE  Spec => []ChecksStand
<1>1. EngineInv => ChecksStand
  BY DEF EngineInv
<1> QED
  BY <1>1, EngineInvariant, OneProcess, PTL

\* Every state of the promise keeps each trigger's cap, the global cap and the cooldown,
\* in whatever order the timestamps come: a new engagement is counted together with every
\* row later than now - per, so a period that contains it held fewer than `max` before.
THEOREM CapsHold == Promise!Spec => [](TriggerCapHolds /\ GlobalCapHolds /\ CooldownHolds)
<1>1. Promise!LedgerInit => CapInv
  BY CapInit DEF LedgerInit, Promise!LedgerInit
<1>2. CapInv /\ [Promise!Next]_ledger => CapInv'
  <2> SUFFICES ASSUME CapInv, [Promise!Next]_ledger PROVE CapInv'
    OBVIOUS
  <2>1. ASSUME NEW r \in ResIds, NEW c \in Customers, NEW t \in Triggers, NEW now \in Times,
               Promise!Engage(r, c, t, now)
        PROVE  CapInv'
    <3>1. /\ r \notin DOMAIN ledger
          /\ ~InCooldown(c, now)
          /\ \A cap \in GlobalCap : WouldFire(CountedRows(c), now, cap)
          /\ WouldFire(CountedRowsOf(c, t), now, TriggerCap[t])
      BY <2>1 DEF Promise!Engage, InCooldown, Promise!InCooldown, WouldFire, Promise!WouldFire,
                  Recent, Promise!Recent, CountedRows, Promise!CountedRows, CountedRowsOf,
                  Promise!CountedRowsOf, CountedStatus, Promise!CountedStatus,
                  Cardinality, Promise!Cardinality
    <3>2. InsertRow(r, c, t, now)
      BY <2>1 DEF Promise!Engage, InsertRow, Promise!InsertRow
    <3> QED
      BY <3>1, <3>2, InsertKeepsCaps, LedgerAssumption
  <2>2. ASSUME NEW r \in ResIds, Promise!Settle(r) PROVE CapInv'
    BY <2>2, SettleKeepsCaps, LedgerAssumption DEF Promise!Settle, SetStatus, Promise!SetStatus
  <2>3. CASE UNCHANGED ledger
    BY <2>3 DEF CapInv, LedgerType, TriggerCapHolds, GlobalCapHolds, CooldownHolds, Within,
                Period, CountedRows, CountedRowsOf
  <2> QED
    BY <2>1, <2>2, <2>3 DEF Promise!Next
<1>3. CapInv => TriggerCapHolds /\ GlobalCapHolds /\ CooldownHolds
  BY DEF CapInv
<1> QED
  BY <1>1, <1>2, <1>3, PTL DEF Promise!Spec

\* With one process, reserve() is as good as indivisible: every step of the engine
\* is, on the ledger, an engagement or a settlement of EngagementCap, or nothing.
THEOREM EngineActsAtomically ==
    ASSUME OneProcess
    PROVE  Spec => ActsAtomically
<1>1. Init => Promise!LedgerInit
  BY DEF Init, LedgerInit, Promise!LedgerInit
<1>2. EngineInv /\ [Next]_vars => [Promise!Next]_ledger
  <2> SUFFICES ASSUME EngineInv, [Next]_vars, ~UNCHANGED ledger PROVE Promise!Next
    OBVIOUS
  <2>1. ASSUME NEW p \in Threads, RecordWinner(p) \/ RecordFails(p) PROVE Promise!Next
    <3>1. call[p] \in Call /\ call[p].pc = "filter" /\ Checked(p)
      BY <2>1, CallFields DEF RecordWinner, RecordFails, At, EngineInv, ChecksStand
    <3>2. PICK w \in call[p].eligible, r \in ResIds \ DOMAIN ledger :
            InsertRow(r, call[p].customer, w.trigger, call[p].now)
      BY <2>1 DEF RecordWinner, RecordFails, FreshIds
    <3>3. call[p].customer \in Customers /\ w.trigger \in Triggers /\ call[p].now \in Times
      BY <3>1 DEF Call, Candidate
    <3>4. Promise!Engage(r, call[p].customer, w.trigger, call[p].now)
      <4>1. /\ ~InCooldown(call[p].customer, call[p].now)
            /\ \A cap \in GlobalCap : WouldFire(CountedRows(call[p].customer), call[p].now, cap)
            /\ WouldFire(CountedRowsOf(call[p].customer, w.trigger), call[p].now,
                         TriggerCap[w.trigger])
        BY <3>1 DEF Checked
      <4>2. /\ ~Promise!InCooldown(call[p].customer, call[p].now)
            /\ \A cap \in GlobalCap :
                  Promise!WouldFire(Promise!CountedRows(call[p].customer), call[p].now, cap)
            /\ Promise!WouldFire(Promise!CountedRowsOf(call[p].customer, w.trigger),
                                 call[p].now, TriggerCap[w.trigger])
        BY <4>1 DEF InCooldown, Promise!InCooldown, WouldFire, Promise!WouldFire, Recent,
              Promise!Recent, CountedRows, Promise!CountedRows, CountedRowsOf,
              Promise!CountedRowsOf, CountedStatus, Promise!CountedStatus,
              Cardinality, Promise!Cardinality
      <4>3. Promise!InsertRow(r, call[p].customer, w.trigger, call[p].now)
        BY <3>2 DEF InsertRow, Promise!InsertRow
      <4> QED
        BY <3>2, <4>2, <4>3 DEF Promise!Engage
    <3> QED
      BY <3>3, <3>4 DEF Promise!Next
  <2>2. ASSUME NEW r \in fires, Confirm(r) \/ Rollback(r) PROVE Promise!Next
    <3>1. r \in ResIds
      BY DEF EngineInv, TypeOK
    <3>2. Promise!Settle(r)
      BY <2>2 DEF Confirm, Rollback, Promise!Settle, SetStatus, Promise!SetStatus
    <3> QED
      BY <3>1, <3>2 DEF Promise!Next
  <2>3. ASSUME NEW p \in Threads,
               \/ Reserve(p) \/ Acquire(p) \/ CheckCooldown(p) \/ CheckGlobalCap(p)
               \/ FilterOne(p) \/ NoneEligible(p) \/ Unlock(p) \/ Raise(p) \/ Emit(p)
               \/ QueryFails(p) \/ EmitFails(p)
        PROVE  UNCHANGED ledger
    BY <2>3 DEF Reserve, Acquire, CheckCooldown, CheckGlobalCap, FilterOne, NoneEligible,
                Unlock, Raise, Emit, QueryFails, EmitFails
  <2>4. ASSUME NEW w \in Processes, Crash(w) PROVE UNCHANGED ledger
    BY <2>4 DEF Crash
  <2>5. UNCHANGED vars \/ OutOfIds => UNCHANGED ledger
    BY DEF OutOfIds, vars
  <2> QED
    BY <2>1, <2>2, <2>3, <2>4, <2>5 DEF Next, Step, Fail
<1> QED
  BY <1>1, <1>2, EngineInvariant, OneProcess, PTL DEF Spec, ActsAtomically, Promise!Spec

\* With one process, no interleaving of reserve(), confirm() and rollback(), and no
\* order of the events' timestamps, exceeds a trigger's cap or the global cap, or
\* engages a customer within the cooldown.
THEOREM EngineCapsHold ==
    ASSUME OneProcess
    PROVE  Spec => [](TriggerCapHolds /\ GlobalCapHolds /\ CooldownHolds)
<1>1. Init => CapInv
  BY CapInit DEF Init
<1>2. EngineInv /\ CapInv /\ [Next]_vars => CapInv'
  <2> SUFFICES ASSUME EngineInv, CapInv, [Next]_vars PROVE CapInv'
    OBVIOUS
  <2>1. ASSUME NEW p \in Threads, RecordWinner(p) \/ RecordFails(p), ~UNCHANGED ledger
        PROVE  CapInv'
    <3>1. call[p] \in Call /\ call[p].pc = "filter" /\ Checked(p)
      BY <2>1, CallFields DEF RecordWinner, RecordFails, At, EngineInv, ChecksStand
    <3>2. PICK w \in call[p].eligible, r \in ResIds \ DOMAIN ledger :
            InsertRow(r, call[p].customer, w.trigger, call[p].now)
      BY <2>1 DEF RecordWinner, RecordFails, FreshIds
    <3> DEFINE c == call[p].customer   t == w.trigger   now == call[p].now
    <3>3. /\ c \in Customers /\ t \in Triggers /\ now \in Times /\ InsertRow(r, c, t, now)
          /\ ~InCooldown(c, now)
          /\ \A cap \in GlobalCap : WouldFire(CountedRows(c), now, cap)
          /\ WouldFire(CountedRowsOf(c, t), now, TriggerCap[t])
      BY <3>1, <3>2 DEF Call, Candidate, Checked
    <3> HIDE DEF c, t, now
    <3> QED
      BY <3>3, InsertKeepsCaps, LedgerAssumption
  <2>2. ASSUME NEW r \in fires, Confirm(r) \/ Rollback(r) PROVE CapInv'
    BY <2>2, SettleKeepsCaps, LedgerAssumption DEF Confirm, Rollback
  <2>3. CASE UNCHANGED ledger
    BY <2>3 DEF CapInv, LedgerType, TriggerCapHolds, GlobalCapHolds, CooldownHolds, Within,
                Period, CountedRows, CountedRowsOf
  <2>4. ASSUME NEW p \in Threads,
               \/ Reserve(p) \/ Acquire(p) \/ CheckCooldown(p) \/ CheckGlobalCap(p)
               \/ FilterOne(p) \/ NoneEligible(p) \/ Unlock(p) \/ Raise(p) \/ Emit(p)
               \/ QueryFails(p) \/ EmitFails(p)
        PROVE  UNCHANGED ledger
    BY <2>4 DEF Reserve, Acquire, CheckCooldown, CheckGlobalCap, FilterOne, NoneEligible,
                Unlock, Raise, Emit, QueryFails, EmitFails
  <2>5. ASSUME NEW w \in Processes, Crash(w) PROVE UNCHANGED ledger
    BY <2>5 DEF Crash
  <2>6. UNCHANGED vars \/ OutOfIds => UNCHANGED ledger
    BY DEF OutOfIds, vars
  <2> QED
    BY <2>1, <2>2, <2>3, <2>4, <2>5, <2>6 DEF Next, Step, Fail
<1>3. CapInv => TriggerCapHolds /\ GlobalCapHolds /\ CooldownHolds
  BY DEF CapInv
<1> QED
  BY <1>1, <1>2, <1>3, EngineInvariant, OneProcess, PTL DEF Spec

\* However many processes run, and whatever M08 sends, a settled reservation stays
\* as it is, and no row changes its customer, trigger or time.
THEOREM EngineSettlesForGood == Spec => SettledForGood
<1>1. TypeOK /\ [Next]_vars => [SettledRowsKept]_ledger
  <2> SUFFICES ASSUME TypeOK, [Next]_vars, ~UNCHANGED ledger PROVE SettledRowsKept
    OBVIOUS
  <2>1. ASSUME NEW p \in Threads, RecordWinner(p) \/ RecordFails(p) PROVE SettledRowsKept
    <3>1. PICK w \in call[p].eligible, r \in ResIds \ DOMAIN ledger :
            InsertRow(r, call[p].customer, w.trigger, call[p].now)
      BY <2>1 DEF RecordWinner, RecordFails, FreshIds
    <3>2. \A x \in DOMAIN ledger : x \in DOMAIN ledger' /\ ledger'[x] = ledger[x]
      BY <3>1 DEF InsertRow
    <3> QED
      BY <3>2 DEF SettledRowsKept, TypeOK, LedgerType, Row
  <2>2. ASSUME NEW r \in fires, Confirm(r) \/ Rollback(r) PROVE SettledRowsKept
    <3>1. PICK status : /\ r \in DOMAIN ledger /\ ledger[r].status = "reserved"
                        /\ ledger' = [ledger EXCEPT ![r].status = status]
      BY <2>2 DEF Confirm, Rollback, SetStatus
    <3> QED
      BY <3>1 DEF SettledRowsKept, TypeOK, LedgerType, Row
  <2>3. ASSUME NEW p \in Threads,
               \/ Reserve(p) \/ Acquire(p) \/ CheckCooldown(p) \/ CheckGlobalCap(p)
               \/ FilterOne(p) \/ NoneEligible(p) \/ Unlock(p) \/ Raise(p) \/ Emit(p)
               \/ QueryFails(p) \/ EmitFails(p)
        PROVE  UNCHANGED ledger
    BY <2>3 DEF Reserve, Acquire, CheckCooldown, CheckGlobalCap, FilterOne, NoneEligible,
                Unlock, Raise, Emit, QueryFails, EmitFails
  <2>4. ASSUME NEW w \in Processes, Crash(w) PROVE UNCHANGED ledger
    BY <2>4 DEF Crash
  <2>5. UNCHANGED vars \/ OutOfIds => UNCHANGED ledger
    BY DEF OutOfIds, vars
  <2> QED
    BY <2>1, <2>2, <2>3, <2>4, <2>5 DEF Next, Step, Fail
<1> QED
  BY <1>1, TypeCorrect, PTL DEF Spec, SettledForGood

=============================================================================
