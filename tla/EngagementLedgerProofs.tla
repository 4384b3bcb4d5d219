----------------------- MODULE EngagementLedgerProofs -----------------------
(***************************************************************************)
(* Lemmas about the ledger's queries: what an inserted row, and a row that *)
(* leaves the count, do to the number of engagements in a period.          *)
(***************************************************************************)
EXTENDS EngagementLedger, FiniteSetTheorems, TLAPS

-----------------------------------------------------------------------------
(* Counting rows in a period: at[x] is the time of row x *)

Span(rows, at, r, per) == {x \in rows : at[r] <= at[x] /\ at[x] < at[r] + per}

After(rows, at, now, per) == {x \in rows : now - at[x] < per}

\* A subset of the rows has no more of them in any period.
LEMMA SpanSubset ==
    ASSUME NEW rows, IsFiniteSet(rows), NEW fewer \in SUBSET rows,
           NEW at, NEW r, NEW per, NEW max \in Nat,
           Cardinality(Span(rows, at, r, per)) <= max
    PROVE  Cardinality(Span(fewer, at, r, per)) <= max
<1>1. Span(rows, at, r, per) \subseteq rows
  BY DEF Span
<1>2. IsFiniteSet(Span(rows, at, r, per))
  BY <1>1, FS_Subset
<1>3. Span(fewer, at, r, per) \subseteq Span(rows, at, r, per)
  BY DEF Span
<1>4. /\ IsFiniteSet(Span(fewer, at, r, per))
      /\ Cardinality(Span(fewer, at, r, per)) <= Cardinality(Span(rows, at, r, per))
  BY <1>2, <1>3, FS_Subset
<1>5. /\ Cardinality(Span(fewer, at, r, per)) \in Nat
      /\ Cardinality(Span(rows, at, r, per)) \in Nat
  BY <1>2, <1>4, FS_CardinalityType
<1> QED
  BY <1>4, <1>5

\* A row q that finds fewer than max rows after at[q] - per can join them: no
\* period of length per comes to hold more than max.
LEMMA SpanInsert ==
    ASSUME NEW rows, IsFiniteSet(rows), NEW q, q \notin rows,
           NEW at, \A x \in rows \cup {q} : at[x] \in Int,
           NEW per \in Nat, NEW max \in Nat,
           Cardinality(After(rows, at, at[q], per)) < max,
           \A r \in rows : Cardinality(Span(rows, at, r, per)) <= max
    PROVE  \A r \in rows \cup {q} : Cardinality(Span(rows \cup {q}, at, r, per)) <= max
<1> SUFFICES ASSUME NEW r \in rows \cup {q}
             PROVE  Cardinality(Span(rows \cup {q}, at, r, per)) <= max
  OBVIOUS
<1> DEFINE old   == Span(rows, at, r, per)
           new   == Span(rows \cup {q}, at, r, per)
           after == After(rows, at, at[q], per)
<1>1. /\ IsFiniteSet(old) /\ Cardinality(old) \in Nat
      /\ IsFiniteSet(after) /\ Cardinality(after) \in Nat
  <2>1. old \subseteq rows /\ after \subseteq rows
    BY DEF Span, After
  <2> QED
    BY <2>1, FS_Subset, FS_CardinalityType
<1>2. CASE q \in new
  <2>1. old \subseteq after
    BY <1>2 DEF Span, After
  <2>2. new = old \cup {q}
    BY <1>2 DEF Span
  <2>3. q \notin old
    BY DEF Span
  <2>4. Cardinality(old) <= Cardinality(after)
    BY <2>1, <1>1, FS_Subset
  <2>5. Cardinality(new) = Cardinality(old) + 1
    BY <2>2, <2>3, <1>1, FS_AddElement
  <2> QED
    BY <2>4, <2>5, <1>1
<1>3. CASE q \notin new /\ r \in rows
  <2>1. new = old
    BY <1>3 DEF Span
  <2> QED
    BY <2>1, <1>3
<1>4. CASE q \notin new /\ r = q
  <2>1. per = 0
    BY <1>4 DEF Span
  <2>2. new = {}
    BY <2>1, <1>4 DEF Span
  <2>3. Cardinality({}) = 0
    BY FS_EmptySet
  <2> QED
    BY <2>2, <2>3
<1> QED
  BY <1>2, <1>3, <1>4

-----------------------------------------------------------------------------
(* From the counting lemmas to the ledger *)

TimeOf == [x \in DOMAIN ledger |-> ledger[x].reserved_at]

\* `rows` keeps the cap after a step: Within, read from the next state's timestamps.
WithinAfter(rows, cap) ==
    \A x \in rows :
        Cardinality({y \in rows : /\ ledger'[x].reserved_at <= ledger'[y].reserved_at
                                 /\ ledger'[y].reserved_at < ledger'[x].reserved_at + cap.per})
          <= cap.max

LEMMA PrimedWithin ==
    ASSUME NEW d, NEW u, NEW cap
    PROVE  /\ WithinAfter(CountedRows(d)', cap) => Within(CountedRows(d), cap)'
           /\ WithinAfter(CountedRowsOf(d, u)', cap) => Within(CountedRowsOf(d, u), cap)'
<1>1. WithinAfter(CountedRows(d)', cap) => Within(CountedRows(d), cap)'
  BY DEF WithinAfter, Within, Period
<1>2. WithinAfter(CountedRowsOf(d, u)', cap) => Within(CountedRowsOf(d, u), cap)'
  BY DEF WithinAfter, Within, Period
<1> QED
  BY <1>1, <1>2

LEMMA WithinIsSpan ==
    ASSUME NEW rows \in SUBSET DOMAIN ledger, NEW cap \in Cap
    PROVE  Within(rows, cap) <=> \A r \in rows : Cardinality(Span(rows, TimeOf, r, cap.per)) <= cap.max
<1>1. \A r \in rows : Period(rows, r, cap.per) = Span(rows, TimeOf, r, cap.per)
  BY DEF Period, Span, TimeOf
<1> QED
  BY <1>1 DEF Within

LEMMA WouldFireIsAfter ==
    ASSUME NEW rows \in SUBSET DOMAIN ledger, NEW now, NEW cap \in Cap
    PROVE  WouldFire(rows, now, cap) <=> Cardinality(After(rows, TimeOf, now, cap.per)) < cap.max
<1>1. Recent(rows, now, cap.per) = After(rows, TimeOf, now, cap.per)
  BY DEF Recent, After, TimeOf
<1> QED
  BY <1>1 DEF WouldFire

LEMMA CountedFinite ==
    ASSUME LedgerType, NEW c, NEW t
    PROVE  /\ CountedRows(c) \subseteq DOMAIN ledger /\ IsFiniteSet(CountedRows(c))
           /\ CountedRowsOf(c, t) \subseteq CountedRows(c) /\ IsFiniteSet(CountedRowsOf(c, t))
<1>1. CountedRows(c) \subseteq DOMAIN ledger /\ CountedRowsOf(c, t) \subseteq CountedRows(c)
  BY DEF CountedRows, CountedRowsOf
<1> QED
  BY <1>1, FS_Subset DEF LedgerType

\* Periods after an insertion: the new row joins `rows`.
LEMMA InsertWithin ==
    ASSUME LedgerAssumption, LedgerType,
           NEW r \in ResIds \ DOMAIN ledger, NEW c \in Customers, NEW t \in Triggers,
           NEW now \in Times, InsertRow(r, c, t, now),
           NEW rows \in SUBSET DOMAIN ledger, IsFiniteSet(rows), NEW cap \in Cap,
           Within(rows, cap), WouldFire(rows, now, cap)
    PROVE  WithinAfter(rows \cup {r}, cap)
<1> DEFINE at == [x \in DOMAIN ledger \cup {r} |-> IF x = r THEN now ELSE TimeOf[x]]
           all == rows \cup {r}
<1>1. cap.per \in Nat /\ cap.max \in Nat
  BY DEF Cap
<1>2. \A x \in all : ledger'[x].reserved_at = at[x]
  BY DEF InsertRow, TimeOf
<1>3. \A x \in all : at[x] \in Int
  BY DEF LedgerType, Row, TimeOf, LedgerAssumption
<1>4. \A x \in rows : at[x] = TimeOf[x]
  BY DEF TimeOf
<1>5. at[r] = now
  OBVIOUS
<1>6. Cardinality(After(rows, at, at[r], cap.per)) < cap.max
  <2>1. After(rows, at, at[r], cap.per) = After(rows, TimeOf, now, cap.per)
    BY <1>4, <1>5 DEF After
  <2> QED
    BY <2>1, WouldFireIsAfter
<1>7. \A x \in rows : Cardinality(Span(rows, at, x, cap.per)) <= cap.max
  <2>1. \A x \in rows : Span(rows, at, x, cap.per) = Span(rows, TimeOf, x, cap.per)
    BY <1>4 DEF Span
  <2> QED
    BY <2>1, WithinIsSpan
<1>8. r \notin rows
  OBVIOUS
<1> HIDE DEF at
<1>9. \A x \in all : Cardinality(Span(all, at, x, cap.per)) <= cap.max
  <2> DEFINE per == cap.per   max == cap.max
  <2>1. /\ per \in Nat /\ max \in Nat
        /\ Cardinality(After(rows, at, at[r], per)) < max
        /\ \A x \in rows : Cardinality(Span(rows, at, x, per)) <= max
    BY <1>1, <1>6, <1>7
  <2>2. \A x \in rows \cup {r} : at[x] \in Int
    BY <1>3
  <2> HIDE DEF per, max
  <2>3. \A x \in rows \cup {r} : Cardinality(Span(rows \cup {r}, at, x, per)) <= max
    BY <1>8, <2>1, <2>2, SpanInsert
  <2> QED
    BY <2>3 DEF per, max
<1>10. \A x \in all :
          Span(all, at, x, cap.per) =
            {y \in all : /\ ledger'[x].reserved_at <= ledger'[y].reserved_at
                         /\ ledger'[y].reserved_at < ledger'[x].reserved_at + cap.per}
  BY <1>2 DEF Span
<1> QED
  BY <1>9, <1>10 DEF WithinAfter

\* Periods after a step that inserts nothing and may take rows out of the count.
LEMMA FewerWithin ==
    ASSUME LedgerType, NEW rows \in SUBSET DOMAIN ledger, NEW fewer \in SUBSET rows,
           \A x \in rows : ledger'[x].reserved_at = ledger[x].reserved_at,
           NEW cap \in Cap, Within(rows, cap)
    PROVE  WithinAfter(fewer, cap)
<1> SUFFICES ASSUME NEW x \in fewer
             PROVE  Cardinality({y \in fewer :
                        /\ ledger'[x].reserved_at <= ledger'[y].reserved_at
                        /\ ledger'[y].reserved_at < ledger'[x].reserved_at + cap.per}) <= cap.max
  BY DEF WithinAfter
<1>1. IsFiniteSet(rows)
  BY FS_Subset DEF LedgerType
<1>2. Cardinality(Span(rows, TimeOf, x, cap.per)) <= cap.max
  BY WithinIsSpan
<1>3. cap.max \in Nat
  BY DEF Cap
<1>4. Cardinality(Span(fewer, TimeOf, x, cap.per)) <= cap.max
  BY <1>1, <1>2, <1>3, SpanSubset
<1>5. Span(fewer, TimeOf, x, cap.per) =
        {y \in fewer : /\ ledger'[x].reserved_at <= ledger'[y].reserved_at
                       /\ ledger'[y].reserved_at < ledger'[x].reserved_at + cap.per}
  BY DEF Span, TimeOf
<1> QED
  BY <1>4, <1>5

\* A query after a step that inserts nothing and may take rows out of the count:
\* a cap with room keeps it.
LEMMA FewerFire ==
    ASSUME LedgerType, NEW rows \in SUBSET DOMAIN ledger, NEW fewer \in SUBSET rows,
           \A x \in rows : ledger'[x].reserved_at = ledger[x].reserved_at,
           NEW now, NEW cap \in Cap, WouldFire(rows, now, cap)
    PROVE  Cardinality({x \in fewer : now - ledger'[x].reserved_at < cap.per}) < cap.max
<1> DEFINE before == Recent(rows, now, cap.per)
           after  == {x \in fewer : now - ledger'[x].reserved_at < cap.per}
<1>1. before \subseteq rows /\ after \subseteq before
  BY DEF Recent
<1>2. IsFiniteSet(before)
  BY <1>1, FS_Subset DEF LedgerType
<1>3. /\ IsFiniteSet(after) /\ Cardinality(after) <= Cardinality(before)
      /\ Cardinality(after) \in Nat /\ Cardinality(before) \in Nat
  BY <1>1, <1>2, FS_Subset, FS_CardinalityType
<1>4. Cardinality(before) < cap.max /\ cap.max \in Nat
  BY DEF WouldFire, Cap
<1> QED
  BY <1>3, <1>4

\* What an insertion does to the rows of each customer and trigger.
LEMMA InsertedRows ==
    ASSUME LedgerType, NEW r \in ResIds \ DOMAIN ledger, NEW c \in Customers,
           NEW t \in Triggers, NEW now \in Times, InsertRow(r, c, t, now)
    PROVE  /\ LedgerType'
           /\ \A x \in DOMAIN ledger : ledger'[x] = ledger[x]
           /\ CountedRows(c)' = CountedRows(c) \cup {r}
           /\ \A d : d # c => CountedRows(d)' = CountedRows(d)
           /\ CountedRowsOf(c, t)' = CountedRowsOf(c, t) \cup {r}
           /\ \A d, u : d # c \/ u # t => CountedRowsOf(d, u)' = CountedRowsOf(d, u)
<1>1. LedgerType'
  <2>1. DOMAIN ledger' = DOMAIN ledger \cup {r}
    BY DEF InsertRow
  <2>2. IsFiniteSet(DOMAIN ledger')
    BY <2>1, FS_AddElement DEF LedgerType
  <2>3. ledger' \in [DOMAIN ledger' -> Row]
    BY DEF InsertRow, LedgerType, Row, Status
  <2> QED
    BY <2>1, <2>2, <2>3 DEF LedgerType
<1>2. \A x \in DOMAIN ledger : ledger'[x] = ledger[x]
  BY DEF InsertRow
<1>3. CountedRows(c)' = CountedRows(c) \cup {r}
  BY DEF InsertRow, CountedRows, CountedStatus
<1>4. \A d : d # c => CountedRows(d)' = CountedRows(d)
  BY DEF InsertRow, CountedRows, CountedStatus
<1>5. CountedRowsOf(c, t)' = CountedRowsOf(c, t) \cup {r}
  BY <1>3 DEF InsertRow, CountedRows, CountedRowsOf
<1>6. \A d, u : d # c \/ u # t => CountedRowsOf(d, u)' = CountedRowsOf(d, u)
  BY <1>3, <1>4 DEF InsertRow, CountedRows, CountedRowsOf
<1> QED
  BY <1>1, <1>2, <1>3, <1>4, <1>5, <1>6

\* What a change of status from `reserved` does to them.
LEMMA SettledRows ==
    ASSUME LedgerType, NEW r, NEW status \in {"confirmed", "rolled_back"},
           SetStatus(r, status, {"reserved"})
    PROVE  /\ LedgerType'
           /\ DOMAIN ledger' = DOMAIN ledger
           /\ \A x \in DOMAIN ledger : ledger'[x].reserved_at = ledger[x].reserved_at
           /\ \A d, u : /\ CountedRows(d)' \subseteq CountedRows(d)
                        /\ CountedRowsOf(d, u)' \subseteq CountedRowsOf(d, u)
<1>1. /\ r \in DOMAIN ledger /\ ledger[r].status = "reserved"
      /\ ledger' = [ledger EXCEPT ![r].status = status]
  BY DEF SetStatus
<1>2. DOMAIN ledger' = DOMAIN ledger
  BY <1>1
<1>3. LedgerType'
  BY <1>1, <1>2 DEF LedgerType, Row, Status
<1>4. \A x \in DOMAIN ledger :
         /\ ledger'[x].reserved_at = ledger[x].reserved_at
         /\ ledger'[x].customer = ledger[x].customer
         /\ ledger'[x].trigger = ledger[x].trigger
         /\ ledger'[x].status \in CountedStatus => ledger[x].status \in CountedStatus
  BY <1>1 DEF LedgerType, Row, CountedStatus
<1>5. \A d, u : /\ CountedRows(d)' \subseteq CountedRows(d)
                /\ CountedRowsOf(d, u)' \subseteq CountedRowsOf(d, u)
  BY <1>2, <1>4 DEF CountedRows, CountedRowsOf
<1> QED
  BY <1>2, <1>3, <1>4, <1>5

-----------------------------------------------------------------------------
(* The caps and the cooldown, step by step *)

CapInv ==
    /\ LedgerType
    /\ TriggerCapHolds
    /\ GlobalCapHolds
    /\ CooldownHolds

LEMMA CapInit == LedgerInit => CapInv
<1> SUFFICES ASSUME LedgerInit PROVE CapInv
  OBVIOUS
<1>1. DOMAIN ledger = {}
  BY DEF LedgerInit
<1>2. \A c, t : CountedRows(c) = {} /\ CountedRowsOf(c, t) = {}
  BY <1>1 DEF CountedRows, CountedRowsOf
<1>3. IsFiniteSet({})
  BY FS_EmptySet
<1> QED
  BY <1>1, <1>2, <1>3 DEF CapInv, LedgerType, TriggerCapHolds, GlobalCapHolds, CooldownHolds,
                          Within, LedgerInit

\* A row that finds room under each cap keeps all four conjuncts.
LEMMA InsertKeepsCaps ==
    ASSUME LedgerAssumption, CapInv, NEW r \in ResIds \ DOMAIN ledger, NEW c \in Customers,
           NEW t \in Triggers, NEW now \in Times, InsertRow(r, c, t, now),
           ~InCooldown(c, now),
           \A cap \in GlobalCap : WouldFire(CountedRows(c), now, cap),
           WouldFire(CountedRowsOf(c, t), now, TriggerCap[t])
    PROVE  CapInv'
<1>1. /\ r \in ResIds \ DOMAIN ledger /\ InsertRow(r, c, t, now) /\ LedgerType
      /\ c \in Customers /\ t \in Triggers /\ now \in Times
  BY DEF CapInv
<1>0. ~InCooldown(c, now)
  OBVIOUS
<1> USE DEF CapInv
<1>2. LedgerType'
  BY <1>1, InsertedRows
<1>3. \A x \in DOMAIN ledger : ledger'[x] = ledger[x]
  BY <1>1, InsertedRows
<1>4. /\ CountedRows(c)' = CountedRows(c) \cup {r}
      /\ CountedRowsOf(c, t)' = CountedRowsOf(c, t) \cup {r}
  BY <1>1, InsertedRows
<1>5. \A d : d # c => CountedRows(d)' = CountedRows(d)
  BY <1>1, InsertedRows
<1>7. \A d, u : d # c \/ u # t => CountedRowsOf(d, u)' = CountedRowsOf(d, u)
  BY <1>1, InsertedRows
<1>8. TriggerCapHolds'
  <2> SUFFICES ASSUME NEW d \in Customers, NEW u \in Triggers
               PROVE  Within(CountedRowsOf(d, u), TriggerCap[u])'
    BY DEF TriggerCapHolds
  <2>1. TriggerCap[u] \in Cap
    BY DEF LedgerAssumption
  <2>2. Within(CountedRowsOf(d, u), TriggerCap[u])
    BY DEF TriggerCapHolds
  <2>3. CountedRowsOf(d, u) \in SUBSET DOMAIN ledger /\ IsFiniteSet(CountedRowsOf(d, u))
    BY CountedFinite
  <2>4. CASE d = c /\ u = t
    <3>1. WouldFire(CountedRowsOf(d, u), now, TriggerCap[u])
      BY <2>4
    <3> DEFINE rows == CountedRowsOf(c, t)   cap == TriggerCap[t]
    <3>2. /\ rows \in SUBSET DOMAIN ledger /\ IsFiniteSet(rows)
          /\ Within(rows, cap) /\ WouldFire(rows, now, cap)
          /\ cap \in Cap /\ CountedRowsOf(c, t)' = rows \cup {r}
          /\ LedgerType /\ r \in ResIds \ DOMAIN ledger
      BY <1>1, <1>4, <2>1, <2>2, <2>3, <2>4, <3>1
    <3> HIDE DEF rows, cap, CapInv
    <3>3. WithinAfter(rows \cup {r}, cap)
      BY <1>1, <3>2, LedgerAssumption, InsertWithin
    <3>4. WithinAfter(CountedRowsOf(c, t)', TriggerCap[t])
      BY <3>2, <3>3 DEF cap
    <3> QED
      BY <2>4, <3>4, PrimedWithin
  <2>5. CASE d # c \/ u # t
    BY <1>3, <1>7, <2>1, <2>2, <2>3, <2>5, FewerWithin, PrimedWithin
  <2> QED
    BY <2>4, <2>5
<1>9. GlobalCapHolds'
  <2> SUFFICES ASSUME NEW d \in Customers, NEW cap \in GlobalCap
               PROVE  Within(CountedRows(d), cap)'
    BY DEF GlobalCapHolds
  <2>1. cap \in Cap
    BY DEF LedgerAssumption
  <2>2. Within(CountedRows(d), cap)
    BY DEF GlobalCapHolds
  <2>3. CountedRows(d) \in SUBSET DOMAIN ledger /\ IsFiniteSet(CountedRows(d))
    BY CountedFinite
  <2>4. CASE d = c
    <3>1. WouldFire(CountedRows(d), now, cap)
      BY <2>4
    <3> DEFINE rows == CountedRows(c)
    <3>2. /\ rows \in SUBSET DOMAIN ledger /\ IsFiniteSet(rows)
          /\ Within(rows, cap) /\ WouldFire(rows, now, cap)
          /\ CountedRows(c)' = rows \cup {r}
      BY <1>4, <2>2, <2>3, <2>4, <3>1
    <3> HIDE DEF rows, CapInv
    <3>3. WithinAfter(rows \cup {r}, cap)
      BY <1>1, <2>1, <3>2, LedgerAssumption, InsertWithin
    <3>4. WithinAfter(CountedRows(c)', cap)
      BY <3>2, <3>3
    <3> QED
      BY <2>4, <3>4, PrimedWithin
  <2>5. CASE d # c
    BY <1>3, <1>5, <2>1, <2>2, <2>3, <2>5, FewerWithin, PrimedWithin
  <2> QED
    BY <2>4, <2>5
<1>10. CooldownHolds'
  <2> SUFFICES ASSUME NEW d \in Customers, NEW length \in Cooldown,
                      NEW x \in CountedRows(d)', NEW y \in CountedRows(d)', x # y
               PROVE  \/ ledger'[x].reserved_at - ledger'[y].reserved_at >= length
                      \/ ledger'[y].reserved_at - ledger'[x].reserved_at >= length
    BY DEF CooldownHolds
  <2>1. length \in Int /\ \A z \in DOMAIN ledger : ledger[z].reserved_at \in Int
    BY DEF LedgerAssumption, LedgerType, Row
  <2>2. CASE x \in CountedRows(d) /\ y \in CountedRows(d)
    BY <1>3, <2>2 DEF CooldownHolds, CountedRows
  <2>3. CASE x \notin CountedRows(d) \/ y \notin CountedRows(d)
    <3>1. d = c /\ (x = r \/ y = r)
      BY <1>4, <1>5, <2>3
    <3>2. \A z \in CountedRows(c) : now - ledger[z].reserved_at >= length
      <4> SUFFICES ASSUME NEW z \in CountedRows(c)
                   PROVE  now - ledger[z].reserved_at >= length
        OBVIOUS
      <4>1. ~(now - ledger[z].reserved_at < length)
        BY <1>0 DEF InCooldown
      <4>2. now \in Int /\ ledger[z].reserved_at \in Int
        BY <1>1, <2>1, LedgerAssumption DEF LedgerAssumption, CountedRows
      <4> QED
        BY <4>1, <4>2, <2>1
    <3>3. ledger'[r].reserved_at = now
      BY <1>1 DEF InsertRow
    <3>4. CountedRows(c) \subseteq DOMAIN ledger
      BY DEF CountedRows
    <3> QED
      BY <1>3, <1>4, <3>1, <3>2, <3>3, <3>4
  <2> QED
    BY <2>2, <2>3
<1> QED
  BY <1>2, <1>8, <1>9, <1>10

\* Settling a reservation takes a row out of the count or leaves the count alone.
LEMMA SettleKeepsCaps ==
    ASSUME LedgerAssumption, CapInv, NEW r, NEW status \in {"confirmed", "rolled_back"},
           SetStatus(r, status, {"reserved"})
    PROVE  CapInv'
<1> USE DEF CapInv
<1>1. SetStatus(r, status, {"reserved"})
  OBVIOUS
<1>3. LedgerType'
  BY <1>1, SettledRows
<1>4. \A x \in DOMAIN ledger : ledger'[x].reserved_at = ledger[x].reserved_at
  BY <1>1, SettledRows
<1>5. \A d, u : /\ CountedRows(d)' \subseteq CountedRows(d)
                /\ CountedRowsOf(d, u)' \subseteq CountedRowsOf(d, u)
  BY <1>1, SettledRows
<1>6. \A d, u : CountedRowsOf(d, u) \subseteq DOMAIN ledger /\ CountedRows(d) \subseteq DOMAIN ledger
  BY CountedFinite
<1>7. TriggerCapHolds'
  <2> SUFFICES ASSUME NEW d \in Customers, NEW u \in Triggers
               PROVE  Within(CountedRowsOf(d, u), TriggerCap[u])'
    BY DEF TriggerCapHolds
  <2>1. TriggerCap[u] \in Cap /\ Within(CountedRowsOf(d, u), TriggerCap[u])
    BY DEF LedgerAssumption, TriggerCapHolds
  <2>2. WithinAfter(CountedRowsOf(d, u)', TriggerCap[u])
    <3> HIDE DEF CapInv
    <3> DEFINE rows == CountedRowsOf(d, u)   fewer == CountedRowsOf(d, u)'
    <3>1. LedgerType /\ rows \in SUBSET DOMAIN ledger /\ fewer \in SUBSET rows
      BY <1>5, <1>6 DEF CapInv
    <3>2. \A x \in rows : ledger'[x].reserved_at = ledger[x].reserved_at
      BY <1>4, <3>1
    <3>3. Within(rows, TriggerCap[u]) /\ TriggerCap[u] \in Cap
      BY <2>1
    <3> HIDE DEF rows, fewer
    <3>4. WithinAfter(fewer, TriggerCap[u])
      BY <3>1, <3>2, <3>3, FewerWithin
    <3> QED
      BY <3>4 DEF fewer
  <2> QED
    BY <2>2, PrimedWithin
<1>8. GlobalCapHolds'
  <2> SUFFICES ASSUME NEW d \in Customers, NEW cap \in GlobalCap
               PROVE  Within(CountedRows(d), cap)'
    BY DEF GlobalCapHolds
  <2>1. cap \in Cap /\ Within(CountedRows(d), cap)
    BY DEF LedgerAssumption, GlobalCapHolds
  <2>2. WithinAfter(CountedRows(d)', cap)
    <3> HIDE DEF CapInv
    <3> DEFINE rows == CountedRows(d)   fewer == CountedRows(d)'
    <3>1. LedgerType /\ rows \in SUBSET DOMAIN ledger /\ fewer \in SUBSET rows
      BY <1>5, <1>6 DEF CapInv
    <3>2. \A x \in rows : ledger'[x].reserved_at = ledger[x].reserved_at
      BY <1>4, <3>1
    <3> HIDE DEF rows, fewer
    <3>3. WithinAfter(fewer, cap)
      BY <2>1, <3>1, <3>2, FewerWithin DEF rows
    <3> QED
      BY <3>3 DEF fewer
  <2> QED
    BY <2>2, PrimedWithin
<1>9. CooldownHolds'
  BY <1>4, <1>5, <1>6 DEF CooldownHolds
<1> QED
  BY <1>3, <1>7, <1>8, <1>9

=============================================================================
