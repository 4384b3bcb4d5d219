------------------------ MODULE CaptureDeliveryProofs ------------------------
(***************************************************************************)
(* What the capture SDK and the ingestion API keep, for any number of      *)
(* signals, customers, threads and faults and any limits.                  *)
(***************************************************************************)
EXTENDS CaptureDelivery, FiniteSetTheorems, SequenceTheorems, TLAPS

-----------------------------------------------------------------------------
(* The server's inductive invariant *)

Working == {"item", "count", "evict", "delete", "write"}

InAllow == {"count", "evict", "delete"}

\* A count never exceeds the calls there were since the window's start.
CountBacked(c, w) ==
    /\ w.start <= clock
    /\ w.count <= Cardinality(CallsIn(c, w.start))

\* The results so far are true, and the count that allow() works on counts its call.
RequestInv(q) ==
    /\ q.pc \in Working => Len(q.results) < Len(q.items)
    /\ q.pc = "answer" => Len(q.results) = Len(q.items)
    /\ Len(q.results) <= Len(q.items)
    /\ \A j \in DOMAIN q.results :
          q.results[j] \in {"accepted", "duplicate"} => q.items[j] \in stored
    /\ q.pc \in InAllow =>
          /\ q.seen.start <= clock
          /\ q.seen.count + 1 <=
                Cardinality(CallsIn(CustomerOf[q.items[Len(q.results) + 1]], q.seen.start))

ServerInv ==
    /\ ServerType
    /\ \A c \in DOMAIN windows : CountBacked(c, windows[c])
    /\ \A t \in Threads : thread[t] # Idle => RequestInv(thread[t])

LEMMA ServerInvInit == ServerInit => ServerInv
<1> SUFFICES ASSUME ServerInit PROVE ServerInv
  OBVIOUS
<1>1. ServerType
  BY IngestionAssumption DEF ServerInit, ServerType
<1> QED
  BY <1>1 DEF ServerInit, ServerInv

-----------------------------------------------------------------------------
(* Counting calls *)

LEMMA IndicesFinite ==
    ASSUME NEW S, NEW s \in Seq(S), NEW T \in SUBSET DOMAIN s
    PROVE  IsFiniteSet(T) /\ Cardinality(T) \in Nat
<1>1. DOMAIN s = 1..Len(s) /\ Len(s) \in Nat
  OBVIOUS
<1>2. IsFiniteSet(1..Len(s))
  BY <1>1, FS_Interval
<1> QED
  BY <1>1, <1>2, FS_Subset, FS_CardinalityType

LEMMA CallsInFinite ==
    ASSUME NEW c \in Customers, NEW start
    PROVE  /\ calls \in [Customers -> Seq(0..MaxTime)] =>
                 IsFiniteSet(CallsIn(c, start)) /\ Cardinality(CallsIn(c, start)) \in Nat
           /\ calls' \in [Customers -> Seq(0..MaxTime)] =>
                 Cardinality(CallsIn(c, start)') \in Nat
<1>1. CallsIn(c, start) \subseteq DOMAIN calls[c] /\ CallsIn(c, start)' \subseteq DOMAIN calls'[c]
  BY DEF CallsIn
<1>2. CASE calls \in [Customers -> Seq(0..MaxTime)]
  <2>1. calls[c] \in Seq(0..MaxTime)
    BY <1>2
  <2> QED
    BY <1>1, <2>1, IndicesFinite
<1>3. CASE calls' \in [Customers -> Seq(0..MaxTime)]
  <2>1. calls'[c] \in Seq(0..MaxTime)
    BY <1>3
  <2> QED
    BY <1>1, <2>1, IndicesFinite
<1> QED
  BY <1>2, <1>3

\* One more call now: it counts in every window that now is in.
LEMMA CallCounted ==
    ASSUME ServerType, NEW c \in Customers, calls' = [calls EXCEPT ![c] = Append(@, clock)],
           NEW start \in Int
    PROVE  /\ calls' \in [Customers -> Seq(0..MaxTime)]
           /\ \A d \in Customers :
                 Cardinality(CallsIn(d, start)) <= Cardinality(CallsIn(d, start)')
           /\ clock - start \in 0..(Window - 1) =>
                 Cardinality(CallsIn(c, start)') = Cardinality(CallsIn(c, start)) + 1
<1> DEFINE n == Len(calls[c])
<1>1. /\ calls \in [Customers -> Seq(0..MaxTime)] /\ clock \in 0..MaxTime
      /\ calls[c] \in Seq(0..MaxTime) /\ n \in Nat /\ DOMAIN calls[c] = 1..n
  BY DEF ServerType
<1>2. /\ calls'[c] = Append(calls[c], clock) /\ calls'[c] \in Seq(0..MaxTime)
      /\ DOMAIN calls'[c] = 1..(n + 1)
      /\ calls'[c][n + 1] = clock /\ \A i \in 1..n : calls'[c][i] = calls[c][i]
      /\ \A d \in Customers \ {c} : calls'[d] = calls[d]
  BY <1>1
<1>3. calls' \in [Customers -> Seq(0..MaxTime)]
  BY <1>1, <1>2
<1>4. \A d \in Customers \ {c} : CallsIn(d, start)' = CallsIn(d, start)
  BY <1>2 DEF CallsIn
<1>5. /\ clock - start \in 0..(Window - 1) => CallsIn(c, start)' = CallsIn(c, start) \cup {n + 1}
      /\ clock - start \notin 0..(Window - 1) => CallsIn(c, start)' = CallsIn(c, start)
      /\ n + 1 \notin CallsIn(c, start)
  BY <1>1, <1>2 DEF CallsIn
<1>6. /\ \A d \in Customers : IsFiniteSet(CallsIn(d, start)) /\ Cardinality(CallsIn(d, start)) \in Nat
  BY <1>1, CallsInFinite
<1>7. clock - start \in 0..(Window - 1) =>
         Cardinality(CallsIn(c, start)') = Cardinality(CallsIn(c, start)) + 1
  BY <1>5, <1>6, FS_AddElement
<1>8. ASSUME NEW d \in Customers
      PROVE  Cardinality(CallsIn(d, start)) <= Cardinality(CallsIn(d, start)')
  <2>1. CASE d # c
    BY <1>4, <1>6, <2>1
  <2>2. CASE d = c
    BY <1>5, <1>6, <1>7, <2>2
  <2> QED
    BY <2>1, <2>2
<1> QED
  BY <1>3, <1>7, <1>8

-----------------------------------------------------------------------------
(* The server's steps *)

\* One thread moves on while nothing that the others rely on is taken away.
LEMMA ThreadMoves ==
    ASSUME ServerInv, NEW t \in Threads, NEW q \in Request \cup {Idle},
           thread' = [thread EXCEPT ![t] = q],
           stored \subseteq stored', stored' \subseteq Events,
           clock' = clock, faults' \in 0..MaxFaults,
           calls' \in [Customers -> Seq(0..MaxTime)],
           \A c \in Customers, start \in Int :
               Cardinality(CallsIn(c, start)) <= Cardinality(CallsIn(c, start)'),
           DOMAIN windows' \subseteq Customers, windows' \in [DOMAIN windows' -> Window0],
           \A c \in DOMAIN windows' : CountBacked(c, windows[c])',
           q # Idle => RequestInv(q)'
    PROVE  ServerInv'
<1>1. /\ thread'[t] = q /\ \A other \in Threads \ {t} : thread'[other] = thread[other]
      /\ thread' \in [Threads -> Request \cup {Idle}]
  BY DEF ServerInv, ServerType
<1>2. ServerType'
  BY <1>1 DEF ServerInv, ServerType
<1>3. ASSUME NEW other \in Threads \ {t}, thread[other] # Idle
      PROVE  RequestInv(thread[other])'
  <2> DEFINE p == thread[other]
  <2>1. p \in Request /\ RequestInv(p) /\ thread'[other] = p
    BY <1>1, <1>3 DEF ServerInv, ServerType
  <2>2. CASE p.pc \in InAllow
    <3> DEFINE c == CustomerOf[p.items[Len(p.results) + 1]]
    <3>1. /\ p.seen.start \in Int /\ p.seen.count \in Nat
          /\ Len(p.results) < Len(p.items) /\ p.items \in Seq(Events) /\ p.results \in Seq(Outcome)
      BY <2>1, <2>2 DEF RequestInv, Request, Window0, InAllow, Working
    <3>2. c \in Customers
      <4>1. Len(p.results) + 1 \in 1..Len(p.items)
        BY <3>1
      <4>2. p.items[Len(p.results) + 1] \in Events
        BY <3>1, <4>1, ElementOfSeq
      <4> QED
        BY <4>2, IngestionAssumption
    <3>3. /\ Cardinality(CallsIn(c, p.seen.start)) <= Cardinality(CallsIn(c, p.seen.start)')
          /\ p.seen.count + 1 <= Cardinality(CallsIn(c, p.seen.start))
      BY <2>1, <2>2, <3>1, <3>2 DEF RequestInv
    <3>4. /\ Cardinality(CallsIn(c, p.seen.start)) \in Nat
          /\ Cardinality(CallsIn(c, p.seen.start)') \in Nat
      BY <3>2, CallsInFinite DEF ServerInv, ServerType
    <3>5. p.seen.count + 1 <= Cardinality(CallsIn(c, p.seen.start)')
      BY <3>1, <3>3, <3>4
    <3> QED
      BY <2>1, <2>2, <3>5 DEF RequestInv, CallsIn
  <2>3. CASE p.pc \notin InAllow
    BY <2>1, <2>3 DEF RequestInv
  <2> QED
    BY <2>2, <2>3
<1>4. \A other \in Threads : thread'[other] # Idle => RequestInv(thread[other])'
  BY <1>1, <1>3
<1> QED
  BY <1>2, <1>4 DEF ServerInv

\* A thread that serves a request has a Request.
LEMMA Serving ==
    ASSUME ServerInv, NEW t \in Threads, thread[t] # Idle
    PROVE  /\ thread[t] \in Request /\ RequestInv(thread[t])
           /\ thread \in [Threads -> Request \cup {Idle}]
           /\ thread[t].results \in Seq(Outcome) /\ thread[t].items \in Seq(Events)
           /\ Len(thread[t].results) \in Nat /\ Len(thread[t].items) \in Nat
           /\ thread[t].pc \in Working => Current(t) \in Events /\ Customer(t) \in Customers
<1>1. thread[t] \in Request /\ RequestInv(thread[t])
  BY DEF ServerInv, ServerType
<1>2. thread[t].results \in Seq(Outcome) /\ thread[t].items \in Seq(Events)
  BY <1>1 DEF Request
<1>3. ASSUME thread[t].pc \in Working PROVE Current(t) \in Events /\ Customer(t) \in Customers
  <2>1. Len(thread[t].results) + 1 \in 1..Len(thread[t].items)
    BY <1>1, <1>2, <1>3 DEF RequestInv
  <2>2. Current(t) \in Events
    BY <1>2, <2>1, ElementOfSeq DEF Current
  <2> QED
    BY <2>2, IngestionAssumption DEF Customer
<1> QED
  BY <1>1, <1>2, <1>3 DEF ServerInv, ServerType

\* The item's result is appended, and true if it says that the event is stored.
LEMMA ResultGiven ==
    ASSUME ServerInv, NEW t \in Threads, thread[t] # Idle, thread[t].pc \in Working,
           NEW outcome \in Outcome, Result(t, outcome), stored \subseteq stored',
           outcome \in {"accepted", "duplicate"} => Current(t) \in stored'
    PROVE  \E q \in Request : /\ q # Idle /\ thread' = [thread EXCEPT ![t] = q]
                              /\ RequestInv(q)'
                              /\ q.results = Append(thread[t].results, outcome)
                              /\ q.items = thread[t].items /\ q.caller = thread[t].caller
<1> DEFINE r == thread[t]
<1>1. /\ r \in Request /\ RequestInv(r) /\ thread \in [Threads -> Request \cup {Idle}]
      /\ r.results \in Seq(Outcome) /\ r.items \in Seq(Events)
      /\ Len(r.results) \in Nat /\ Len(r.items) \in Nat /\ Len(r.results) < Len(r.items)
  BY Serving DEF RequestInv
<1>2. Nothing \in Window0 /\ 0 \in 0..MaxTime
  BY IngestionAssumption DEF Nothing, Window0
<1>3. Append(r.results, outcome) \in Seq(Outcome)
  BY <1>1
<1>4. PICK pc \in {"item", "answer"} :
         pc = IF Len(r.results) + 1 < Len(r.items) THEN "item" ELSE "answer"
  OBVIOUS
<1>5. /\ After(r, pc) \in Request /\ After(r, pc).pc = pc
      /\ After(r, pc).items = r.items /\ After(r, pc).results = r.results
      /\ After(r, pc).caller = r.caller
  BY <1>1, <1>2, <1>4 DEF Request, After
<1>6. PICK q : q = [After(r, pc) EXCEPT !.results = Append(r.results, outcome)]
  OBVIOUS
<1>7. /\ q \in Request /\ q.pc = pc
      /\ q.items = r.items /\ q.results = Append(r.results, outcome) /\ q.caller = r.caller
  BY <1>3, <1>5, <1>6 DEF Request
<1>8. thread' = [thread EXCEPT ![t] = q]
  BY <1>4, <1>5, <1>6 DEF Result
<1>9. /\ Len(q.results) = Len(r.results) + 1
      /\ \A j \in 1..Len(r.results) : q.results[j] = r.results[j]
      /\ q.results[Len(r.results) + 1] = outcome
      /\ DOMAIN q.results = 1..(Len(r.results) + 1) /\ DOMAIN r.results = 1..Len(r.results)
  BY <1>1, <1>7
<1>10. /\ q.pc = "item" => Len(q.results) < Len(q.items)
       /\ q.pc = "answer" => Len(q.results) = Len(q.items)
       /\ Len(q.results) <= Len(q.items)
  BY <1>1, <1>4, <1>7, <1>9
<1>11. ASSUME NEW j \in DOMAIN q.results, q.results[j] \in {"accepted", "duplicate"}
       PROVE  q.items[j] \in stored'
  <2>1. CASE j = Len(r.results) + 1
    BY <1>7, <1>9, <1>11, <2>1 DEF Current
  <2>2. CASE j # Len(r.results) + 1
    <3>1. j \in 1..Len(r.results)
      BY <1>1, <1>9, <2>2
    <3> QED
      BY <1>1, <1>7, <1>9, <1>11, <3>1 DEF RequestInv
  <2> QED
    BY <2>1, <2>2
<1>12. RequestInv(q)'
  <2>1. q.pc \notin InAllow /\ (q.pc \in Working => q.pc = "item")
    BY <1>4, <1>7 DEF InAllow, Working
  <2> QED
    BY <1>10, <1>11, <2>1 DEF RequestInv
<1>13. q # Idle
  BY <1>4, <1>7 DEF Idle
<1> QED
  BY <1>7, <1>8, <1>12, <1>13

\* What a step changes of a request but its results.
LEMMA RequestMoves ==
    ASSUME ServerInv, NEW t \in Threads, thread[t] # Idle, NEW c, c = Customer(t),
           NEW q \in Request, q.items = thread[t].items, q.results = thread[t].results,
           q.pc \in Working \cup {"error"}, thread[t].pc \in Working,
           stored \subseteq stored',
           q.pc \in InAllow =>
              /\ q.seen.start <= clock'
              /\ q.seen.count + 1 <= Cardinality(CallsIn(c, q.seen.start)')
    PROVE  RequestInv(q)' /\ q # Idle
<1>1. RequestInv(thread[t]) /\ Len(q.results) \in Nat /\ Len(q.items) \in Nat
  BY Serving
<1>2. CustomerOf[q.items[Len(q.results) + 1]] = c
  BY DEF Customer, Current
<1>3. q.pc \in InAllow => q.seen.count + 1 <=
         Cardinality(CallsIn(CustomerOf[q.items[Len(q.results) + 1]], q.seen.start)')
  BY <1>2
<1>4. RequestInv(q)'
  BY <1>1, <1>3 DEF RequestInv, Working, InAllow, CallsIn
<1>5. q # Idle
  BY DEF Idle, Working
<1> QED
  BY <1>4, <1>5

\* The calls only grow: what they backed they back.
LEMMA CallsGrow ==
    ASSUME ServerInv,
           \/ UNCHANGED calls
           \/ \E c \in Customers : calls' = [calls EXCEPT ![c] = Append(@, clock)]
    PROVE  /\ calls' \in [Customers -> Seq(0..MaxTime)]
           /\ \A c \in Customers, start \in Int :
                 Cardinality(CallsIn(c, start)) <= Cardinality(CallsIn(c, start)')
<1>1. ServerType /\ calls \in [Customers -> Seq(0..MaxTime)]
  BY DEF ServerInv, ServerType
<1>2. CASE UNCHANGED calls
  <2>1. \A c \in Customers, start \in Int :
           /\ Cardinality(CallsIn(c, start)) \in Nat
           /\ CallsIn(c, start)' = CallsIn(c, start)
    BY <1>1, <1>2, CallsInFinite DEF CallsIn
  <2> QED
    BY <1>1, <1>2, <2>1
<1>3. CASE \E c \in Customers : calls' = [calls EXCEPT ![c] = Append(@, clock)]
  <2>1. PICK c \in Customers : calls' = [calls EXCEPT ![c] = Append(@, clock)]
    BY <1>3
  <2>2. 0 \in Int
    OBVIOUS
  <2> QED
    BY <1>1, <2>1, <2>2, CallCounted
<1> QED
  BY <1>2, <1>3

LEMMA WindowsBacked ==
    ASSUME ServerInv, clock' \in 0..MaxTime, clock <= clock',
           \A c \in Customers, start \in Int :
               Cardinality(CallsIn(c, start)) <= Cardinality(CallsIn(c, start)'),
           calls' \in [Customers -> Seq(0..MaxTime)],
           NEW c \in DOMAIN windows, NEW w, w = windows[c]
    PROVE  CountBacked(c, w)'
<1>1. /\ CountBacked(c, w) /\ w \in Window0 /\ c \in Customers /\ clock \in 0..MaxTime
      /\ calls \in [Customers -> Seq(0..MaxTime)]
  BY DEF ServerInv, ServerType
<1>2. w.start \in Int /\ w.count \in Nat
  BY <1>1 DEF Window0
<1>3. /\ Cardinality(CallsIn(c, w.start)) \in Nat /\ Cardinality(CallsIn(c, w.start)') \in Nat
      /\ Cardinality(CallsIn(c, w.start)) <= Cardinality(CallsIn(c, w.start)')
  BY <1>1, <1>2, CallsInFinite
<1>4. w.start <= clock' /\ w.count <= Cardinality(CallsIn(c, w.start)')
  BY <1>1, <1>2, <1>3 DEF CountBacked
<1> QED
  BY <1>4 DEF CountBacked

\* A step of thread t whose request becomes q; windows may go but do not change.
LEMMA StepWithin ==
    ASSUME ServerInv, NEW t \in Threads, NEW q \in Request \cup {Idle},
           thread' = [thread EXCEPT ![t] = q], q # Idle => RequestInv(q)',
           stored \subseteq stored', stored' \subseteq Events, clock' = clock,
           faults' \in 0..MaxFaults,
           \/ UNCHANGED calls
           \/ \E c \in Customers : calls' = [calls EXCEPT ![c] = Append(@, clock)],
           DOMAIN windows' \subseteq DOMAIN windows, windows' \in [DOMAIN windows' -> Window0],
           \A c \in DOMAIN windows' : windows'[c] = windows[c]
    PROVE  ServerInv'
<1>1. /\ calls' \in [Customers -> Seq(0..MaxTime)]
      /\ \A c \in Customers, start \in Int :
            Cardinality(CallsIn(c, start)) <= Cardinality(CallsIn(c, start)')
  BY CallsGrow
<1>2. clock' \in 0..MaxTime /\ clock <= clock' /\ DOMAIN windows \subseteq Customers
  BY DEF ServerInv, ServerType
<1>3. ASSUME NEW c \in DOMAIN windows' PROVE CountBacked(c, windows[c])'
  <2>1. PICK w : w = windows[c]
    OBVIOUS
  <2>2. CountBacked(c, w)' /\ w = windows'[c]
    BY <1>1, <1>2, <2>1, WindowsBacked
  <2> QED
    BY <2>2 DEF CountBacked
<1> QED
  BY <1>1, <1>2, <1>3, ThreadMoves

\* What thread t does to its request: the items and the caller stay.
Becomes(t, q) ==
    /\ thread' = [thread EXCEPT ![t] = q]
    /\ q # Idle /\ q.items = thread[t].items /\ q.caller = thread[t].caller

\* Steps that set fields of the request and leave allow(), or never were in it.
LEMMA FieldsSet ==
    ASSUME ServerInv, NEW t \in Threads, thread[t].pc \in Working, thread[t] # Idle,
           NEW pc \in {"write", "error"}, stored \subseteq stored',
           thread' = [thread EXCEPT ![t] = After(@, pc)] \/ thread' = [thread EXCEPT ![t].pc = pc]
    PROVE  \E q \in Request : Becomes(t, q) /\ RequestInv(q)'
<1>1. /\ thread[t] \in Request /\ thread \in [Threads -> Request \cup {Idle}]
      /\ thread[t].pc \in Working => Customer(t) \in Customers
  BY Serving
<1>2. Nothing \in Window0 /\ 0 \in 0..MaxTime
  BY IngestionAssumption DEF Nothing, Window0
<1>3. /\ After(thread[t], pc) \in Request /\ After(thread[t], pc).pc = pc
      /\ After(thread[t], pc).items = thread[t].items
      /\ After(thread[t], pc).results = thread[t].results
      /\ After(thread[t], pc).caller = thread[t].caller
  BY <1>1, <1>2 DEF Request, After
<1>4. /\ [thread[t] EXCEPT !.pc = pc] \in Request /\ [thread[t] EXCEPT !.pc = pc].pc = pc
      /\ [thread[t] EXCEPT !.pc = pc].items = thread[t].items
      /\ [thread[t] EXCEPT !.pc = pc].results = thread[t].results
      /\ [thread[t] EXCEPT !.pc = pc].caller = thread[t].caller
  BY <1>1 DEF Request
<1>5. PICK q \in Request : /\ thread' = [thread EXCEPT ![t] = q] /\ q.pc = pc
                           /\ q.items = thread[t].items /\ q.results = thread[t].results
                           /\ q.caller = thread[t].caller
  <2>1. CASE thread' = [thread EXCEPT ![t] = After(@, pc)]
    BY <1>1, <1>3, <2>1
  <2>2. CASE thread' = [thread EXCEPT ![t].pc = pc]
    BY <1>1, <1>4, <2>2
  <2> QED
    BY <2>1, <2>2
<1>6. q.pc \in Working \cup {"error"} /\ q.pc \notin InAllow
  BY <1>5 DEF Working, InAllow
<1>7. PICK c : c = Customer(t)
  OBVIOUS
<1>8. RequestInv(q)' /\ q # Idle
  BY <1>5, <1>6, <1>7, RequestMoves
<1> QED
  BY <1>5, <1>8 DEF Becomes

LEMMA VerdictGiven ==
    ASSUME ServerInv, NEW t \in Threads, thread[t].pc \in InAllow, thread[t] # Idle,
           NEW n, Verdict(t, n), UNCHANGED stored
    PROVE  \E q \in Request : Becomes(t, q) /\ RequestInv(q)'
<1>1. thread[t].pc \in Working
  BY DEF InAllow, Working
<1>2. CASE n > Limit
  <2>1. Result(t, "rate_limited") /\ "rate_limited" \in Outcome
    BY <1>2 DEF Verdict, Outcome
  <2> QED
    BY <1>1, <2>1, ResultGiven DEF Becomes
<1>3. CASE ~(n > Limit)
  <2>1. thread' = [thread EXCEPT ![t] = After(@, "write")]
    BY <1>3 DEF Verdict
  <2> QED
    BY <1>1, <2>1, FieldsSet
<1> QED
  BY <1>2, <1>3

LEMMA RefuseInv ==
    ASSUME ServerInv, NEW t \in Threads, Refuse(t)
    PROVE  ServerInv' /\ \E q \in Request : Becomes(t, q)
<1>1. thread[t] # Idle /\ thread[t].pc \in Working
  BY DEF Refuse, At, Idle, Working
<1>2. PICK outcome \in {"invalid", "identity_conflict"} : Result(t, outcome)
  BY DEF Refuse
<1>3. UNCHANGED <<stored, windows, clock, faults, calls>>
  BY DEF Refuse
<1>4. PICK q \in Request : Becomes(t, q) /\ RequestInv(q)'
  BY <1>1, <1>2, <1>3, ResultGiven DEF Becomes, Outcome
<1> QED
  BY <1>3, <1>4, StepWithin DEF Becomes, ServerInv, ServerType

LEMMA WriteInv ==
    ASSUME ServerInv, NEW t \in Threads, WriteEvent(t) \/ WriteFails(t)
    PROVE  ServerInv' /\ \E q \in Request : Becomes(t, q)
<1>1. thread[t] # Idle /\ thread[t].pc \in Working /\ Current(t) \in Events
  BY Serving DEF WriteEvent, WriteFails, At, Idle, Working
<1>2. /\ stored \subseteq stored' /\ stored' \subseteq Events
      /\ UNCHANGED <<windows, clock, calls>> /\ faults' \in 0..MaxFaults
  BY <1>1, IngestionAssumption DEF WriteEvent, WriteFails, ServerInv, ServerType
<1>3. PICK q \in Request : Becomes(t, q) /\ RequestInv(q)'
  <2>1. CASE WriteEvent(t)
    <3>1. PICK outcome \in {"accepted", "duplicate"} : Result(t, outcome)
      BY <2>1 DEF WriteEvent
    <3>2. Current(t) \in stored'
      BY <2>1 DEF WriteEvent
    <3> QED
      BY <1>1, <1>2, <3>1, <3>2, ResultGiven DEF Becomes, Outcome
  <2>2. CASE WriteFails(t)
    <3>1. thread' = [thread EXCEPT ![t] = After(@, "error")]
      BY <2>2 DEF WriteFails, Fail
    <3> QED
      BY <1>1, <1>2, <3>1, FieldsSet
  <2> QED
    BY <2>1, <2>2
<1> QED
  BY <1>2, <1>3, StepWithin DEF Becomes, ServerInv, ServerType

\* A fresh window counts the call that made it; an old one that is not over, one more.
LEMMA ReadWindowInv ==
    ASSUME ServerInv, NEW t \in Threads, ReadWindow(t)
    PROVE  ServerInv' /\ \E q \in Request : Becomes(t, q)
<1>1. thread[t] # Idle /\ thread[t].pc \in Working
  BY DEF ReadWindow, At, Idle, Working
<1>2. UNCHANGED <<stored, windows, clock, faults>>
  BY DEF ReadWindow
<1>3. /\ thread[t] \in Request /\ thread \in [Threads -> Request \cup {Idle}]
      /\ Customer(t) \in Customers /\ clock \in 0..MaxTime /\ Window \in Nat \ {0}
      /\ calls \in [Customers -> Seq(0..MaxTime)] /\ ServerType
  BY <1>1, Serving, IngestionAssumption DEF ServerInv, ServerType
<1>4. CASE Limit = 0
  <2>1. thread' = [thread EXCEPT ![t].pc = "write"] /\ UNCHANGED calls
    BY <1>4 DEF ReadWindow, Goto
  <2>2. PICK q \in Request : Becomes(t, q) /\ RequestInv(q)'
    BY <1>1, <1>2, <2>1, FieldsSet
  <2> QED
    BY <1>2, <2>1, <2>2, StepWithin DEF Becomes, ServerInv, ServerType
<1>5. CASE Limit # 0
  <2>1. PICK c, seen : c = Customer(t) /\ seen = FreshWindow(Customer(t))
    OBVIOUS
  <2>2. /\ thread' = [thread EXCEPT ![t].pc = "count", ![t].now = clock, ![t].seen = seen]
        /\ calls' = [calls EXCEPT ![c] = Append(@, clock)]
    BY <1>5, <2>1 DEF ReadWindow
  <2>3. /\ seen \in Window0 /\ clock - seen.start \in 0..(Window - 1)
        /\ seen.count <= Cardinality(CallsIn(c, seen.start))
        /\ seen.start \in Int /\ seen.count \in Nat /\ seen.start <= clock
    <3>1. CASE c \in DOMAIN windows /\ clock - windows[c].start < Window
      <4>1. seen = windows[c] /\ seen \in Window0 /\ CountBacked(c, seen)
        BY <2>1, <3>1 DEF FreshWindow, ServerInv, ServerType
      <4> QED
        BY <1>3, <3>1, <4>1 DEF CountBacked, Window0
    <3>2. CASE ~(c \in DOMAIN windows /\ clock - windows[c].start < Window)
      <4>1. seen = [start |-> clock, count |-> 0]
        BY <2>1, <3>2 DEF FreshWindow
      <4>2. Cardinality(CallsIn(c, clock)) \in Nat
        BY <1>3, <2>1, CallsInFinite
      <4>3. seen \in Window0 /\ seen.start = clock /\ seen.count = 0
        BY <1>3, <4>1 DEF Window0
      <4> QED
        BY <1>3, <4>2, <4>3
    <3> QED
      BY <3>1, <3>2
  <2>4. PICK q : q = [thread[t] EXCEPT !.pc = "count", !.now = clock, !.seen = seen]
    OBVIOUS
  <2>5. /\ q \in Request /\ q.pc = "count" /\ q.seen = seen /\ q.items = thread[t].items
        /\ q.results = thread[t].results /\ q.caller = thread[t].caller
    BY <1>3, <2>3, <2>4 DEF Request
  <2>6. thread' = [thread EXCEPT ![t] = q]
    BY <1>3, <2>2, <2>4
  <2>7. Cardinality(CallsIn(c, seen.start)') = Cardinality(CallsIn(c, seen.start)) + 1
    BY <1>3, <2>1, <2>2, <2>3, CallCounted
  <2>8. Cardinality(CallsIn(c, seen.start)) \in Nat
    BY <1>3, <2>1, CallsInFinite
  <2>9. /\ q.seen.start <= clock'
        /\ q.seen.count + 1 <= Cardinality(CallsIn(c, q.seen.start)')
    BY <1>2, <2>3, <2>5, <2>7, <2>8
  <2>10. RequestInv(q)' /\ q # Idle
    BY <1>1, <1>2, <2>1, <2>5, <2>9, RequestMoves DEF Working
  <2>11. \E x \in Customers : calls' = [calls EXCEPT ![x] = Append(@, clock)]
    BY <1>3, <2>1, <2>2
  <2>12. ServerInv'
    BY <1>2, <2>5, <2>6, <2>10, <2>11, StepWithin DEF ServerInv, ServerType
  <2> QED
    BY <2>5, <2>6, <2>10, <2>12 DEF Becomes
<1> QED
  BY <1>4, <1>5

\* The count is written back over whatever the other threads wrote, and stays backed.
LEMMA CountCallInv ==
    ASSUME ServerInv, NEW t \in Threads, CountCall(t)
    PROVE  ServerInv' /\ \E q \in Request : Becomes(t, q)
<1>1. thread[t] # Idle /\ thread[t].pc \in Working /\ thread[t].pc \in InAllow /\ thread[t].pc = "count"
  BY DEF CountCall, At, Idle, Working, InAllow
<1>2. UNCHANGED <<stored, clock, faults, calls>>
  BY DEF CountCall
<1>3. /\ thread[t] \in Request /\ thread \in [Threads -> Request \cup {Idle}]
      /\ Customer(t) \in Customers /\ RequestInv(thread[t])
      /\ windows \in [DOMAIN windows -> Window0] /\ DOMAIN windows \subseteq Customers
  BY <1>1, Serving DEF ServerInv, ServerType
<1>4. PICK c, seen : c = Customer(t) /\ seen = [thread[t].seen EXCEPT !.count = @ + 1]
  OBVIOUS
<1>5. /\ thread[t].seen \in Window0 /\ thread[t].seen.count \in Nat
      /\ thread[t].seen.start <= clock
      /\ thread[t].seen.count + 1 <= Cardinality(CallsIn(c, thread[t].seen.start))
  BY <1>1, <1>3, <1>4 DEF Request, Window0, RequestInv, Customer, Current
<1>6. /\ seen \in Window0 /\ seen.start = thread[t].seen.start
      /\ seen.count = thread[t].seen.count + 1
  BY <1>4, <1>5 DEF Window0
<1>7. CountBacked(c, seen)
  BY <1>5, <1>6 DEF CountBacked
<1>8. windows' = [x \in DOMAIN windows \cup {c} |-> IF x = c THEN seen ELSE windows[x]]
  BY <1>4 DEF CountCall
<1>9. /\ DOMAIN windows' \subseteq Customers /\ windows' \in [DOMAIN windows' -> Window0]
      /\ \A x \in DOMAIN windows' : CountBacked(x, windows'[x])
  BY <1>3, <1>4, <1>6, <1>7, <1>8 DEF ServerInv
<1>10. \A x \in DOMAIN windows' : CountBacked(x, windows[x])'
  BY <1>2, <1>9 DEF CountBacked, CallsIn
<1>11. PICK q \in Request : Becomes(t, q) /\ RequestInv(q)'
  <2>1. CASE Verdict(t, seen.count)
    BY <1>1, <1>2, <2>1, VerdictGiven
  <2>2. CASE thread' = [thread EXCEPT ![t].pc = "evict"]
    <3>1. PICK q : q = [thread[t] EXCEPT !.pc = "evict"]
      OBVIOUS
    <3>2. /\ q \in Request /\ q.pc = "evict" /\ q.seen = thread[t].seen
          /\ q.items = thread[t].items
          /\ q.results = thread[t].results /\ q.caller = thread[t].caller
      BY <1>3, <3>1 DEF Request
    <3>3. q.seen.start <= clock' /\ q.seen.count + 1 <= Cardinality(CallsIn(c, q.seen.start)')
      BY <1>2, <1>5, <3>2 DEF CallsIn
    <3>4. RequestInv(q)' /\ q # Idle
      BY <1>1, <1>2, <1>4, <3>2, <3>3, RequestMoves DEF Working
    <3> QED
      BY <1>3, <2>2, <3>1, <3>2, <3>4 DEF Becomes
  <2> QED
    BY <1>4, <2>1, <2>2 DEF CountCall, Goto
<1>12. /\ calls' \in [Customers -> Seq(0..MaxTime)]
       /\ \A x \in Customers, start \in Int :
             Cardinality(CallsIn(x, start)) <= Cardinality(CallsIn(x, start)')
  BY <1>2, CallsGrow
<1>13. ServerInv'
  BY <1>2, <1>9, <1>10, <1>11, <1>12, ThreadMoves DEF Becomes, ServerInv, ServerType
<1> QED
  BY <1>11, <1>13

LEMMA EvictInv ==
    ASSUME ServerInv, NEW t \in Threads, Evict(t)
    PROVE  ServerInv' /\ \E q \in Request : Becomes(t, q)
<1>1. thread[t] # Idle /\ thread[t].pc \in Working /\ thread[t].pc \in InAllow
  BY DEF Evict, At, Idle, Working, InAllow
<1>2. UNCHANGED <<stored, windows, clock, calls>> /\ faults' \in 0..MaxFaults
  BY IngestionAssumption DEF Evict, ServerInv, ServerType
<1>3. /\ thread[t] \in Request /\ thread \in [Threads -> Request \cup {Idle}]
      /\ RequestInv(thread[t]) /\ DOMAIN windows \subseteq Customers
  BY <1>1, Serving DEF ServerInv, ServerType
<1>4. PICK q \in Request : Becomes(t, q) /\ RequestInv(q)'
  <2>1. CASE thread' = [thread EXCEPT ![t] = After(@, "error")]
    BY <1>1, <1>2, <2>1, FieldsSet
  <2>2. CASE \E stale \in SUBSET Customers :
                thread' = [thread EXCEPT ![t].pc = "delete", ![t].stale = stale]
    <3>1. PICK stale \in SUBSET Customers :
             thread' = [thread EXCEPT ![t].pc = "delete", ![t].stale = stale]
      BY <2>2
    <3>2. PICK c, q : c = Customer(t) /\ q = [thread[t] EXCEPT !.pc = "delete", !.stale = stale]
      OBVIOUS
    <3>3. /\ q \in Request /\ q.pc = "delete" /\ q.seen = thread[t].seen
          /\ q.items = thread[t].items
          /\ q.results = thread[t].results /\ q.caller = thread[t].caller
      BY <1>3, <3>2 DEF Request
    <3>4. q.seen.start <= clock' /\ q.seen.count + 1 <= Cardinality(CallsIn(c, q.seen.start)')
      BY <1>1, <1>2, <1>3, <3>2, <3>3 DEF CallsIn, RequestInv, Customer, Current
    <3>5. RequestInv(q)' /\ q # Idle
      BY <1>1, <1>2, <3>2, <3>3, <3>4, RequestMoves DEF Working
    <3> QED
      BY <1>3, <3>1, <3>2, <3>3, <3>5 DEF Becomes
  <2>3. {c \in DOMAIN windows : thread[t].now - windows[c].start >= EvictAfter} \in SUBSET Customers
    BY <1>3
  <2> QED
    BY <2>1, <2>2, <2>3 DEF Evict, Fail
<1> QED
  BY <1>2, <1>4, StepWithin DEF Becomes, ServerInv, ServerType

LEMMA DeleteStaleInv ==
    ASSUME ServerInv, NEW t \in Threads, DeleteStale(t)
    PROVE  ServerInv' /\ \E q \in Request : Becomes(t, q)
<1>1. thread[t] # Idle /\ thread[t].pc \in Working /\ thread[t].pc \in InAllow
  BY DEF DeleteStale, At, Idle, Working, InAllow
<1>2. UNCHANGED <<stored, clock, faults, calls>>
  BY DEF DeleteStale
<1>3. PICK keys : windows' = Without(keys)
  BY DEF DeleteStale
<1>4. /\ DOMAIN windows' \subseteq DOMAIN windows /\ windows' \in [DOMAIN windows' -> Window0]
      /\ \A c \in DOMAIN windows' : windows'[c] = windows[c]
  BY <1>3 DEF Without, ServerInv, ServerType
<1>5. PICK q \in Request : Becomes(t, q) /\ RequestInv(q)'
  <2>1. CASE Verdict(t, thread[t].seen.count + 1)
    <3>1. PICK n : n = thread[t].seen.count + 1
      OBVIOUS
    <3> QED
      BY <1>1, <1>2, <2>1, <3>1, VerdictGiven
  <2>2. CASE Fail(t)
    BY <1>1, <1>2, <2>2, FieldsSet DEF Fail
  <2> QED
    BY <2>1, <2>2 DEF DeleteStale
<1> QED
  BY <1>2, <1>4, <1>5, StepWithin DEF Becomes, ServerInv, ServerType

LEMMA ServerStepInv ==
    ASSUME ServerInv, NEW t \in Threads, ServerStep(t) \/ WriteFails(t)
    PROVE  ServerInv' /\ \E q \in Request : Becomes(t, q)
BY RefuseInv, ReadWindowInv, CountCallInv, EvictInv, DeleteStaleInv, WriteInv DEF ServerStep

LEMMA ReceiveInv ==
    ASSUME ServerInv, NEW t \in Threads, NEW caller \in {"sdk", "portal"},
           NEW endpoint \in {"events", "events:batch"}, NEW items \in Seq(Events), items # <<>>,
           Receive(t, caller, endpoint, items)
    PROVE  /\ ServerInv'
           /\ thread'[t].caller = caller /\ thread'[t].items = items
           /\ \A other \in Threads \ {t} : thread'[other] = thread[other]
<1>1. PICK q : q = [pc |-> "item", caller |-> caller, endpoint |-> endpoint, items |-> items,
                    results |-> <<>>, seen |-> Nothing, now |-> 0, stale |-> {}]
  OBVIOUS
<1>2. Nothing \in Window0 /\ 0 \in 0..MaxTime
  BY IngestionAssumption DEF Nothing, Window0
<1>3. /\ q \in Request /\ q.pc = "item" /\ q.caller = caller /\ q.items = items
      /\ q.results = <<>>
  BY <1>1, <1>2 DEF Request
<1>4. Len(items) \in Nat /\ Len(items) > 0
  OBVIOUS
<1>5. RequestInv(q)' /\ q # Idle
  BY <1>3, <1>4 DEF RequestInv, Working, InAllow, Idle
<1>6. thread' = [thread EXCEPT ![t] = q] /\ UNCHANGED <<stored, windows, clock, faults, calls>>
  BY <1>1 DEF Receive
<1>7. ServerInv'
  BY <1>3, <1>5, <1>6, StepWithin DEF ServerInv, ServerType
<1> QED
  BY <1>3, <1>6, <1>7 DEF ServerInv, ServerType

\* The answer has gone out.
LEMMA DoneInv ==
    ASSUME ServerInv, NEW t \in Threads, thread' = [thread EXCEPT ![t] = Idle],
           UNCHANGED <<stored, windows, clock, faults, calls>>
    PROVE  ServerInv'
BY StepWithin DEF ServerInv, ServerType

LEMMA TickInv ==
    ASSUME ServerInv, Tick
    PROVE  ServerInv'
<1>1. /\ clock' = clock + 1 /\ clock' \in 0..MaxTime /\ clock \in 0..MaxTime
      /\ UNCHANGED <<stored, windows, thread, faults, calls>>
  BY IngestionAssumption DEF Tick, ServerInv, ServerType
<1>2. ServerType'
  BY <1>1 DEF ServerInv, ServerType
<1>3. \A c \in DOMAIN windows : CountBacked(c, windows[c])'
  <2> SUFFICES ASSUME NEW c \in DOMAIN windows PROVE CountBacked(c, windows[c])'
    OBVIOUS
  <2>1. CountBacked(c, windows[c]) /\ windows[c].start \in Int
    BY DEF ServerInv, ServerType, Window0
  <2> QED
    BY <1>1, <2>1 DEF CountBacked, CallsIn
<1>4. \A t \in Threads : thread[t] # Idle => RequestInv(thread[t])'
  <2> SUFFICES ASSUME NEW t \in Threads, thread[t] # Idle PROVE RequestInv(thread[t])'
    OBVIOUS
  <2>1. RequestInv(thread[t]) /\ thread[t].seen.start \in Int
    BY Serving DEF Request, Window0
  <2>2. PICK q : q = thread[t]
    OBVIOUS
  <2>3. RequestInv(q) /\ q.seen.start \in Int /\ thread'[t] = q
    BY <1>1, <2>1, <2>2
  <2>4. q.pc \in InAllow => q.seen.start <= clock'
    BY <1>1, <2>3 DEF RequestInv
  <2>5. RequestInv(q)'
    BY <1>1, <2>3, <2>4 DEF RequestInv, CallsIn
  <2> QED
    BY <2>3, <2>5 DEF RequestInv
<1> QED
  BY <1>1, <1>2, <1>3, <1>4 DEF ServerInv

LEMMA ServerCrashInv ==
    ASSUME ServerInv, ServerCrash
    PROVE  ServerInv'
<1>1. /\ thread' = [t \in Threads |-> Idle] /\ DOMAIN windows' = {}
      /\ windows' \in [DOMAIN windows' -> Window0]
      /\ UNCHANGED <<stored, clock, calls>> /\ faults' \in 0..MaxFaults
  BY IngestionAssumption DEF ServerCrash, ServerInv, ServerType
<1>2. ServerType'
  BY <1>1 DEF ServerInv, ServerType
<1> QED
  BY <1>1, <1>2 DEF ServerInv

\* The caller gives up: the request goes on.
LEMMA TimeoutInv ==
    ASSUME ServerInv, NEW t \in Threads, Timeout(t)
    PROVE  /\ ServerInv' /\ thread'[t].caller = "gone"
           /\ \A other \in Threads \ {t} : thread'[other] = thread[other]
<1>1. /\ thread[t] # Idle /\ thread' = [thread EXCEPT ![t].caller = "gone"]
      /\ UNCHANGED <<stored, windows, clock, calls>> /\ faults' \in 0..MaxFaults
  BY IngestionAssumption DEF Timeout, ServerInv, ServerType
<1>2. /\ thread[t] \in Request /\ RequestInv(thread[t])
      /\ thread \in [Threads -> Request \cup {Idle}]
  BY <1>1, Serving
<1>3. PICK q : q = [thread[t] EXCEPT !.caller = "gone"]
  OBVIOUS
<1>4. /\ q \in Request /\ q.pc = thread[t].pc /\ q.seen = thread[t].seen
      /\ q.items = thread[t].items /\ q.results = thread[t].results /\ q.caller = "gone"
  BY <1>2, <1>3 DEF Request
<1>5. thread' = [thread EXCEPT ![t] = q]
  BY <1>1, <1>2, <1>3
<1>6. RequestInv(q)'
  BY <1>1, <1>2, <1>4 DEF RequestInv, CallsIn
<1>7. ServerInv'
  BY <1>1, <1>4, <1>5, <1>6, StepWithin DEF ServerInv, ServerType
<1> QED
  BY <1>2, <1>4, <1>5, <1>7

-----------------------------------------------------------------------------
(* The client *)

ClientInv ==
    /\ ServerInv
    /\ TypeOK
    /\ NewestKept
    /\ NothingVanishes
    /\ \A t \in Threads :
          thread[t] # Idle /\ thread[t].caller = "sdk" => ToSet(thread[t].items) \subseteq 1..captured

LEMMA ClientInvInit == Init => ClientInv
<1> SUFFICES ASSUME Init PROVE ClientInv
  OBVIOUS
<1>1. ServerInv
  BY ServerInvInit DEF Init
<1>2. TypeOK
  BY <1>1, CaptureAssumption DEF Init, TypeOK, ServerInv
<1>3. NewestKept /\ NothingVanishes
  BY DEF Init, NewestKept, NothingVanishes
<1> QED
  BY <1>1, <1>2, <1>3 DEF ClientInv, Init, ServerInit

\* The threads' requests are those there were, some of them gone on.
RequestsKept ==
    \A t \in Threads :
        \/ thread'[t] = Idle
        \/ thread[t] # Idle /\ thread'[t].items = thread[t].items
                            /\ thread'[t].caller \in {thread[t].caller, "gone"}

LEMMA ServerMoves ==
    ASSUME ClientInv, ServerInv', UNCHANGED clientVars, stored \subseteq stored', RequestsKept
    PROVE  ClientInv'
<1>1. TypeOK'
  BY DEF ClientInv, TypeOK, clientVars, ServerInv
<1>2. NewestKept' /\ NothingVanishes'
  BY DEF ClientInv, NewestKept, NothingVanishes, clientVars
<1>3. \A t \in Threads : thread'[t] # Idle /\ thread'[t].caller = "sdk" =>
                            ToSet(thread'[t].items) \subseteq 1..captured'
  BY DEF RequestsKept, ClientInv, clientVars
<1> QED
  BY <1>1, <1>2, <1>3 DEF ClientInv

\* The oldest makes room, and only when the buffer is full.
LEMMA CaptureKeeps ==
    ASSUME ClientInv, Capture
    PROVE  ClientInv'
<1>1. /\ captured \in 0..Signals /\ captured < Signals /\ captured' = captured + 1
      /\ buffer \in Seq(1..captured) /\ Len(buffer) <= MaxBuffer /\ Signals \in Nat
      /\ MaxBuffer \in Nat \ {0} /\ UNCHANGED <<serverVars, posted>>
      /\ captured \in Nat /\ Len(buffer) \in Nat
  BY CaptureAssumption DEF ClientInv, TypeOK, Capture
<1>2. captured' \in 1..captured' /\ captured' \in 0..Signals /\ 1..captured \subseteq 1..captured'
  BY <1>1
<1>3. buffer \in Seq(1..captured')
  BY <1>1, <1>2, SeqMonotonic
<1>4. ServerInv'
  BY <1>1 DEF ClientInv, ServerInv, ServerType, serverVars, CountBacked, RequestInv, CallsIn
<1>5. CASE Len(buffer) = MaxBuffer
  <2>1. buffer' = Append(Tail(buffer), captured') /\ dropped' = dropped \cup {<<Head(buffer), "evicted">>}
    BY <1>5 DEF Capture, Added
  <2>2. buffer # <<>>
    BY <1>1, <1>5
  <2>3. /\ Tail(buffer) \in Seq(1..captured') /\ Len(Tail(buffer)) = Len(buffer) - 1
        /\ Head(buffer) \in 1..captured
        /\ \A i \in 1..(Len(buffer) - 1) : Tail(buffer)[i] = buffer[i + 1]
    BY <1>1, <1>3, <2>2, HeadTailProperties
  <2>4. /\ buffer' \in Seq(1..captured') /\ Len(buffer') = Len(buffer)
        /\ \A i \in 1..(Len(buffer) - 1) : buffer'[i] = buffer[i + 1]
        /\ buffer'[Len(buffer)] = captured' /\ DOMAIN buffer' = 1..Len(buffer)
        /\ DOMAIN buffer = 1..Len(buffer)
    BY <1>1, <1>2, <2>1, <2>3, AppendProperties
  <2>5. TypeOK'
    BY <1>1, <1>2, <1>4, <1>5, <2>1, <2>3, <2>4 DEF ClientInv, TypeOK, ServerInv
  <2>6. NewestKept'
    <3> SUFFICES ASSUME NEW i \in 1..Len(buffer)
                 PROVE  buffer'[i] = captured' - Len(buffer) + i
      BY <2>4 DEF NewestKept
    <3>1. CASE i = Len(buffer)
      BY <1>1, <2>4, <3>1
    <3>2. CASE i # Len(buffer)
      <4>1. i \in 1..(Len(buffer) - 1) /\ i + 1 \in DOMAIN buffer
        <5>1. i \in Int /\ 1 <= i /\ i <= Len(buffer) /\ Len(buffer) \in Nat
          BY <1>1
        <5>2. i <= Len(buffer) - 1
          BY <3>2, <5>1
        <5> QED
          BY <2>4, <5>1, <5>2
      <4>2. buffer[i + 1] = captured - Len(buffer) + (i + 1)
        BY <4>1 DEF ClientInv, NewestKept
      <4> QED
        BY <1>1, <2>4, <4>1, <4>2
    <3> QED
      BY <3>1, <3>2
  <2>7. NothingVanishes'
    <3> SUFFICES ASSUME NEW e \in 1..captured'
                 PROVE  e \in ToSet(buffer') \cup stored' \cup {d[1] : d \in dropped'}
      BY DEF NothingVanishes
    <3>1. CASE e = captured'
      <4>1. Len(buffer) \in DOMAIN buffer'
        BY <1>1, <2>2, <2>4
      <4> QED
        BY <2>4, <3>1, <4>1 DEF ToSet
    <3>2. CASE e # captured'
      <4>1. e \in ToSet(buffer) \cup stored \cup {d[1] : d \in dropped}
        BY <1>1, <3>2 DEF ClientInv, NothingVanishes
      <4>2. CASE e \in stored \cup {d[1] : d \in dropped}
        BY <1>1, <2>1, <4>2 DEF serverVars
      <4>3. CASE e \in ToSet(buffer)
        <5>1. PICK i \in 1..Len(buffer) : e = buffer[i]
          BY <2>4, <4>3 DEF ToSet
        <5>2. CASE i = 1
          <6>1. e = Head(buffer)
            BY <5>1, <5>2
          <6>2. <<e, "evicted">> \in dropped'
            BY <2>1, <6>1
          <6> QED
            BY <6>2
        <5>3. CASE i # 1
          <6>1. i - 1 \in 1..(Len(buffer) - 1) /\ i - 1 \in DOMAIN buffer'
            BY <1>1, <2>4, <5>1, <5>3
          <6>2. buffer'[i - 1] = e
            BY <1>1, <2>4, <5>1, <6>1
          <6> QED
            BY <6>1, <6>2 DEF ToSet
        <5> QED
          BY <5>2, <5>3
      <4> QED
        BY <4>1, <4>2, <4>3
    <3> QED
      BY <3>1, <3>2
  <2>8. \A t \in Threads : thread'[t] # Idle /\ thread'[t].caller = "sdk" =>
                              ToSet(thread'[t].items) \subseteq 1..captured'
    BY <1>1, <1>2 DEF ClientInv, serverVars
  <2> QED
    BY <1>4, <2>5, <2>6, <2>7, <2>8 DEF ClientInv
<1>6. CASE Len(buffer) # MaxBuffer
  <2>1. buffer' = Append(buffer, captured') /\ dropped' = dropped
    BY <1>6 DEF Capture, Added
  <2>2. /\ buffer' \in Seq(1..captured') /\ Len(buffer') = Len(buffer) + 1
        /\ \A i \in 1..Len(buffer) : buffer'[i] = buffer[i]
        /\ buffer'[Len(buffer) + 1] = captured' /\ DOMAIN buffer' = 1..(Len(buffer) + 1)
        /\ DOMAIN buffer = 1..Len(buffer)
    BY <1>1, <1>2, <1>3, <2>1, AppendProperties
  <2>3. TypeOK'
    <3>1. Len(buffer') <= MaxBuffer
      <4>1. Len(buffer) \in Nat /\ MaxBuffer \in Nat /\ Len(buffer) <= MaxBuffer
        BY <1>1
      <4>2. Len(buffer) + 1 <= MaxBuffer
        <5>1. \A n, m \in Nat : n <= m /\ n # m => n + 1 <= m
          OBVIOUS
        <5> QED
          BY <1>6, <4>1, <5>1
      <4>3. Len(buffer') = Len(buffer) + 1
        BY <2>2
      <4> QED
        BY <4>2, <4>3
    <3>2. dropped' \subseteq (1..captured') \X {"evicted", "refused", "overtaken"}
      BY <1>2, <2>1 DEF ClientInv, TypeOK
    <3>3. ServerType' /\ captured' \in 0..Signals /\ posted' \in 0..MaxPosts
      BY <1>1, <1>2, <1>4 DEF ServerInv, ClientInv, TypeOK
    <3> QED
      BY <2>2, <3>1, <3>2, <3>3 DEF TypeOK
  <2>4. NewestKept'
    <3> SUFFICES ASSUME NEW i \in 1..(Len(buffer) + 1)
                 PROVE  buffer'[i] = captured' - (Len(buffer) + 1) + i
      BY <2>2 DEF NewestKept
    <3>1. CASE i = Len(buffer) + 1
      BY <1>1, <2>2, <3>1
    <3>2. CASE i # Len(buffer) + 1
      <4>1. i \in DOMAIN buffer
        BY <1>1, <2>2, <3>2
      <4>2. buffer[i] = captured - Len(buffer) + i
        BY <4>1 DEF ClientInv, NewestKept
      <4> QED
        BY <1>1, <2>2, <4>1, <4>2
    <3> QED
      BY <3>1, <3>2
  <2>5. NothingVanishes'
    <3> SUFFICES ASSUME NEW e \in 1..captured'
                 PROVE  e \in ToSet(buffer') \cup stored' \cup {d[1] : d \in dropped'}
      BY DEF NothingVanishes
    <3>1. CASE e = captured'
      <4>1. Len(buffer) + 1 \in DOMAIN buffer'
        BY <1>1, <2>2
      <4> QED
        BY <2>2, <3>1, <4>1 DEF ToSet
    <3>2. CASE e # captured'
      <4>1. e \in ToSet(buffer) \cup stored \cup {d[1] : d \in dropped}
        BY <1>1, <3>2 DEF ClientInv, NothingVanishes
      <4>2. \A i \in 1..Len(buffer) : i \in DOMAIN buffer'
        BY <1>1, <2>2
      <4>3. ToSet(buffer) \subseteq ToSet(buffer')
        BY <2>2, <4>2 DEF ToSet
      <4> QED
        BY <1>1, <2>1, <4>1, <4>3 DEF serverVars
    <3> QED
      BY <3>1, <3>2
  <2>6. \A t \in Threads : thread'[t] # Idle /\ thread'[t].caller = "sdk" =>
                              ToSet(thread'[t].items) \subseteq 1..captured'
    BY <1>1, <1>2 DEF ClientInv, serverVars
  <2> QED
    BY <1>4, <2>3, <2>4, <2>5, <2>6 DEF ClientInv
<1> QED
  BY <1>5, <1>6

\* A 2xx answers the whole snapshot: every item of it is stored or was refused, and
\* what is not of it was captured meanwhile.
LEMMA AcknowledgeKeeps ==
    ASSUME ClientInv, NEW t \in Threads, Acknowledge(t)
    PROVE  ClientInv'
<1>1. /\ thread[t] # Idle /\ thread[t].pc \in {"answer", "error"} /\ thread[t].caller = "sdk"
      /\ thread' = [thread EXCEPT ![t] = Idle]
      /\ UNCHANGED <<stored, windows, clock, faults, calls, captured, posted>>
  BY DEF Acknowledge, Idle
<1>2. ServerInv'
  BY <1>1, DoneInv DEF ClientInv
<1>3. /\ thread[t] \in Request /\ RequestInv(thread[t])
      /\ thread[t].results \in Seq(Outcome) /\ thread[t].items \in Seq(Events)
      /\ ToSet(thread[t].items) \subseteq 1..captured
      /\ thread \in [Threads -> Request \cup {Idle}]
  BY <1>1, Serving DEF ClientInv
<1>4. \A other \in Threads : thread'[other] # Idle /\ thread'[other].caller = "sdk" =>
                                ToSet(thread'[other].items) \subseteq 1..captured'
  BY <1>1, <1>3 DEF ClientInv
<1>5. /\ captured \in 0..Signals /\ buffer \in Seq(1..captured) /\ MaxBuffer \in Nat \ {0}
      /\ dropped \subseteq (1..captured) \X {"evicted", "refused", "overtaken"}
  BY CaptureAssumption DEF ClientInv, TypeOK
<1>6. CASE StatusOf(t) = "202"
  <2>1. /\ buffer' = <<>>
        /\ dropped' = dropped \cup (Failed(t) \X {"refused"})
                      \cup ((ToSet(buffer) \ ToSet(thread[t].items)) \X {"overtaken"})
    BY <1>6 DEF Acknowledge
  <2>2. thread[t].pc = "answer"
    BY <1>1, <1>6 DEF StatusOf, At
  <2>3. /\ Len(thread[t].results) = Len(thread[t].items)
        /\ DOMAIN thread[t].results = DOMAIN thread[t].items
    BY <1>3, <2>2 DEF RequestInv
  <2>4. \A i \in DOMAIN thread[t].items : thread[t].items[i] \in stored \cup Failed(t)
    BY <1>3, <2>3 DEF RequestInv, Failed
  <2>5. Failed(t) \subseteq 1..captured /\ ToSet(buffer) \subseteq 1..captured
    BY <1>3, <1>5, <2>3 DEF Failed, ToSet
  <2>6. TypeOK'
    <3>1. dropped' \subseteq (1..captured) \X {"evicted", "refused", "overtaken"}
      BY <1>5, <2>1, <2>5
    <3>2. <<>> \in Seq(1..captured) /\ Len(<<>>) <= MaxBuffer
      BY <1>5
    <3> QED
      BY <1>1, <1>2, <2>1, <3>1, <3>2 DEF ClientInv, TypeOK, ServerInv
  <2>7. NewestKept'
    BY <2>1 DEF NewestKept
  <2>8. NothingVanishes'
    <3> SUFFICES ASSUME NEW e \in 1..captured
                 PROVE  e \in stored \cup {d[1] : d \in dropped'}
      BY <1>1, <2>1 DEF NothingVanishes
    <3>1. e \in ToSet(buffer) \cup stored \cup {d[1] : d \in dropped}
      BY DEF ClientInv, NothingVanishes
    <3>2. CASE e \in stored \cup {d[1] : d \in dropped}
      BY <2>1, <3>2
    <3>3. CASE e \in ToSet(buffer) /\ e \notin ToSet(thread[t].items)
      <4>1. <<e, "overtaken">> \in dropped'
        BY <2>1, <3>3
      <4> QED
        BY <4>1
    <3>4. CASE e \in ToSet(thread[t].items)
      <4>1. e \in stored \cup Failed(t)
        BY <2>4, <3>4 DEF ToSet
      <4>2. CASE e \in Failed(t)
        <5>1. <<e, "refused">> \in dropped'
          BY <2>1, <4>2
        <5> QED
          BY <5>1
      <4> QED
        BY <4>1, <4>2
    <3> QED
      BY <3>1, <3>2, <3>3, <3>4
  <2> QED
    BY <1>2, <1>4, <2>6, <2>7, <2>8 DEF ClientInv
<1>7. CASE StatusOf(t) # "202"
  <2>1. UNCHANGED <<buffer, dropped>>
    BY <1>7 DEF Acknowledge
  <2>2. TypeOK' /\ NewestKept' /\ NothingVanishes'
    BY <1>1, <1>2, <2>1 DEF ClientInv, TypeOK, NewestKept, NothingVanishes, ServerInv
  <2> QED
    BY <1>2, <1>4, <2>2 DEF ClientInv
<1> QED
  BY <1>6, <1>7

LEMMA ReceivedKeeps ==
    ASSUME ClientInv, NEW t \in Threads, Flush(t) \/ Post(t)
    PROVE  ClientInv'
<1>1. CASE Flush(t)
  <2>1. /\ buffer \in Seq(1..captured) /\ buffer # <<>> /\ captured \in 0..Signals
        /\ Receive(t, "sdk", "events:batch", buffer) /\ UNCHANGED clientVars
    BY <1>1 DEF Flush, ClientInv, TypeOK
  <2>2. 1..captured \subseteq Events
    BY <2>1, CaptureAssumption
  <2>3. PICK items : items = buffer
    OBVIOUS
  <2>4. items \in Seq(Events) /\ Receive(t, "sdk", "events:batch", items)
    BY <2>1, <2>2, <2>3, SeqMonotonic
  <2>5. /\ ServerInv' /\ thread'[t].items = items
        /\ \A other \in Threads \ {t} : thread'[other] = thread[other]
    BY <2>1, <2>3, <2>4, ReceiveInv DEF ClientInv
  <2>6. ToSet(items) \subseteq 1..captured
    BY <2>1, <2>3 DEF ToSet
  <2>7. stored' = stored
    BY <2>4 DEF Receive
  <2>8. TypeOK' /\ NewestKept' /\ NothingVanishes'
    BY <2>1, <2>5, <2>7 DEF ClientInv, TypeOK, NewestKept, NothingVanishes, ServerInv, clientVars
  <2>9. \A other \in Threads : thread'[other] # Idle /\ thread'[other].caller = "sdk" =>
                                  ToSet(thread'[other].items) \subseteq 1..captured'
    BY <2>1, <2>5, <2>6 DEF ClientInv, clientVars
  <2> QED
    BY <2>5, <2>8, <2>9 DEF ClientInv
<1>2. CASE Post(t)
  <2>1. PICK r \in PortalRequests : Receive(t, "portal", r.endpoint, r.items)
    BY <1>2 DEF Post
  <2>2. /\ r.endpoint \in {"events", "events:batch"} /\ r.items \in Seq(Events) /\ r.items # <<>>
    BY CaptureAssumption
  <2>3. /\ ServerInv' /\ thread'[t].caller = "portal"
        /\ \A other \in Threads \ {t} : thread'[other] = thread[other]
    BY <2>1, <2>2, ReceiveInv DEF ClientInv
  <2>4. /\ stored' = stored /\ UNCHANGED <<captured, buffer, dropped>> /\ posted' \in 0..MaxPosts
    BY <1>2, <2>1, CaptureAssumption DEF Post, Receive, ClientInv, TypeOK
  <2>5. TypeOK' /\ NewestKept' /\ NothingVanishes'
    BY <2>3, <2>4 DEF ClientInv, TypeOK, NewestKept, NothingVanishes, ServerInv
  <2>6. \A other \in Threads : thread'[other] # Idle /\ thread'[other].caller = "sdk" =>
                                  ToSet(thread'[other].items) \subseteq 1..captured'
    BY <2>3, <2>4 DEF ClientInv
  <2> QED
    BY <2>3, <2>5, <2>6 DEF ClientInv
<1> QED
  BY <1>1, <1>2

LEMMA ClientInvNext == ClientInv /\ [Next]_vars => ClientInv'
<1> SUFFICES ASSUME ClientInv, [Next]_vars PROVE ClientInv'
  OBVIOUS
<1>1. ServerInv /\ thread \in [Threads -> Request \cup {Idle}]
  BY DEF ClientInv, ServerInv, ServerType
<1>2. CASE Capture
  BY <1>2, CaptureKeeps
<1>3. ASSUME NEW t \in Threads, Flush(t) \/ Post(t) PROVE ClientInv'
  BY <1>3, ReceivedKeeps
<1>4. ASSUME NEW t \in Threads, Acknowledge(t) PROVE ClientInv'
  BY <1>4, AcknowledgeKeeps
<1>5. ASSUME NEW t \in Threads, Timeout(t) PROVE ClientInv'
  <2>1. /\ ServerInv' /\ thread'[t].caller = "gone" /\ thread'[t].items = thread[t].items
        /\ thread[t] # Idle
        /\ \A other \in Threads \ {t} : thread'[other] = thread[other]
    BY <1>1, <1>5, TimeoutInv, Serving DEF Timeout, Request
  <2>2. RequestsKept
    BY <2>1 DEF RequestsKept
  <2> QED
    BY <1>5, <2>1, <2>2, ServerMoves DEF Timeout
<1>6. ASSUME NEW t \in Threads, Answer(t) PROVE ClientInv'
  <2>1. ServerInv' /\ RequestsKept
    BY <1>1, <1>6, DoneInv DEF Answer, RequestsKept
  <2> QED
    BY <1>6, <2>1, ServerMoves DEF Answer
<1>7. ASSUME NEW t \in Threads, ServerStep(t) \/ WriteFails(t), UNCHANGED clientVars
      PROVE  ClientInv'
  <2>1. ServerInv' /\ \E q \in Request : Becomes(t, q)
    BY <1>1, <1>7, ServerStepInv
  <2>2. thread[t] # Idle
    BY <1>7 DEF ServerStep, WriteFails, Refuse, ReadWindow, CountCall, Evict, DeleteStale,
                WriteEvent, At, Idle
  <2>3. RequestsKept
    BY <1>1, <2>1, <2>2 DEF RequestsKept, Becomes
  <2>4. stored \subseteq stored'
    BY <1>7 DEF ServerStep, WriteFails, Refuse, ReadWindow, CountCall, Evict, DeleteStale, WriteEvent
  <2> QED
    BY <1>7, <2>1, <2>3, <2>4, ServerMoves
<1>8. CASE (ServerCrash \/ Tick) /\ UNCHANGED clientVars
  <2>1. ServerInv' /\ stored' = stored
    BY <1>1, <1>8, ServerCrashInv, TickInv DEF ServerCrash, Tick
  <2>2. RequestsKept
    BY <1>8 DEF ServerCrash, Tick, RequestsKept
  <2> QED
    BY <1>8, <2>1, <2>2, ServerMoves
<1>9. CASE UNCHANGED vars
  <2>1. ServerInv'
    BY <1>1, <1>9 DEF vars, serverVars, ServerInv, ServerType, CountBacked, RequestInv, CallsIn
  <2>2. RequestsKept /\ stored' = stored /\ UNCHANGED clientVars
    BY <1>9 DEF vars, serverVars, RequestsKept
  <2> QED
    BY <2>1, <2>2, ServerMoves
<1> QED
  BY <1>2, <1>3, <1>4, <1>5, <1>6, <1>7, <1>8, <1>9 DEF Next

-----------------------------------------------------------------------------

\* No event vanishes, whatever fails, crashes, overlaps or is retried (client.py:119).
THEOREM NothingEverVanishes == Spec => []NothingVanishes
<1>1. ClientInv => NothingVanishes
  BY DEF ClientInv
<1> QED
  BY <1>1, ClientInvInit, ClientInvNext, PTL DEF Spec

\* The page, the buffer, the sends under way and the server's tables keep their types.
THEOREM DeliveryTypes == Spec => []TypeOK
<1>1. ClientInv => TypeOK
  BY DEF ClientInv
<1> QED
  BY <1>1, ClientInvInit, ClientInvNext, PTL DEF Spec

\* The buffer holds the most recent captures, without a gap (buffer.py:1-3).
THEOREM NewestAlwaysKept == Spec => []NewestKept
<1>1. ClientInv => NewestKept
  BY DEF ClientInv
<1> QED
  BY <1>1, ClientInvInit, ClientInvNext, PTL DEF Spec

-----------------------------------------------------------------------------
(* Refusals *)

\* The request that a step of the server leaves at t: what it may add to the results.
LEMMA ResultSet ==
    ASSUME ServerInv, NEW t \in Threads, thread[t] # Idle, NEW outcome, Result(t, outcome)
    PROVE  thread'[t].results = Append(thread[t].results, outcome)
<1>1. thread \in [Threads -> Request \cup {Idle}] /\ thread[t] \in Request
  BY Serving
<1>2. ASSUME NEW pc
      PROVE  [After(thread[t], pc) EXCEPT !.results = Append(@, outcome)].results =
                Append(thread[t].results, outcome)
  BY <1>1 DEF After, Request
<1>3. \E pc : thread' = [thread EXCEPT ![t] =
                            [After(thread[t], pc) EXCEPT !.results = Append(@, outcome)]]
  BY DEF Result
<1> QED
  BY <1>1, <1>2, <1>3

LEMMA ResultsStay ==
    ASSUME ServerInv, NEW t \in Threads, thread[t] # Idle, NEW pc,
           thread' = [thread EXCEPT ![t] = After(@, pc)] \/ Goto(t, pc)
    PROVE  thread'[t].results = thread[t].results
<1>1. thread \in [Threads -> Request \cup {Idle}] /\ thread[t] \in Request
  BY Serving
<1> QED
  BY <1>1 DEF After, Request, Goto

LEMMA VerdictBacked ==
    ASSUME ServerInv, NEW t \in Threads, thread[t].pc \in InAllow,
           Verdict(t, thread[t].seen.count + 1),
           thread'[t].results # thread[t].results
    PROVE  \E start \in 0..MaxTime : Cardinality(CallsIn(Customer(t), start)) > Limit
<1>1. thread[t] # Idle
  BY DEF Idle, InAllow
<1>2. thread[t].seen.count + 1 > Limit
  BY <1>1, ResultsStay DEF Verdict
<1>3. /\ RequestInv(thread[t]) /\ thread[t] \in Request
      /\ thread[t].pc \in Working => Customer(t) \in Customers
  BY <1>1, Serving
<1>4. PICK start : start = thread[t].seen.start
  OBVIOUS
<1>5. start \in 0..MaxTime /\ thread[t].seen.count \in Nat
  BY <1>3, <1>4 DEF Request, Window0
<1>6. PICK n : n = Cardinality(CallsIn(Customer(t), start))
  OBVIOUS
<1>7. thread[t].seen.count + 1 <= n
  BY <1>3, <1>4, <1>6 DEF RequestInv, Customer, Current
<1>8. n \in Nat
  BY <1>3, <1>6, CallsInFinite DEF ServerInv, ServerType, InAllow, Working
<1>9. n > Limit
  BY <1>2, <1>5, <1>7, <1>8, IngestionAssumption
<1> QED
  BY <1>5, <1>6, <1>9

LEMMA RefusalBacked ==
    ASSUME ServerInv, [Next]_vars, NEW t \in Threads, thread[t] # Idle, thread'[t] # Idle,
           thread'[t].results = Append(thread[t].results, "rate_limited")
    PROVE  \E start \in 0..MaxTime : Cardinality(CallsIn(Customer(t), start)) > Limit
<1>1. /\ thread \in [Threads -> Request \cup {Idle}] /\ thread[t] \in Request
      /\ thread[t].results \in Seq(Outcome)
  BY Serving
<1>2. thread'[t].results # thread[t].results
  <2>1. Len(Append(thread[t].results, "rate_limited")) = Len(thread[t].results) + 1
    BY <1>1, AppendProperties DEF Outcome
  <2> QED
    BY <1>1, <2>1
<1>3. \A outcome \in Outcome \ {"rate_limited"} :
         Append(thread[t].results, outcome) # Append(thread[t].results, "rate_limited")
  BY <1>1 DEF Outcome
<1>4. ASSUME NEW s \in Threads, CountCall(s)
      PROVE  s = t /\ Verdict(t, thread[t].seen.count + 1) /\ thread[t].pc \in InAllow
  <2>1. s = t
    BY <1>1, <1>2, <1>4 DEF CountCall, Goto, Verdict, Result
  <2>2. thread[t].pc \in InAllow
    BY <1>4, <2>1 DEF CountCall, At, InAllow
  <2>3. ~Goto(t, "evict")
    BY <1>2, ResultsStay
  <2>4. [thread[t].seen EXCEPT !.count = @ + 1].count = thread[t].seen.count + 1
    BY <1>1 DEF Request, Window0
  <2> QED
    BY <1>4, <2>1, <2>2, <2>3, <2>4 DEF CountCall
<1>5. ASSUME NEW s \in Threads, DeleteStale(s)
      PROVE  s = t /\ Verdict(t, thread[t].seen.count + 1) /\ thread[t].pc \in InAllow
  <2>1. s = t
    BY <1>1, <1>2, <1>5 DEF DeleteStale, Fail, Verdict, Result
  <2>2. thread[t].pc \in InAllow
    BY <1>5, <2>1 DEF DeleteStale, At, InAllow
  <2>3. ~Fail(t)
    BY <1>2, ResultsStay DEF Fail
  <2> QED
    BY <1>5, <2>1, <2>2, <2>3 DEF DeleteStale
<1>6. ASSUME NEW s \in Threads, Refuse(s) \/ WriteEvent(s) PROVE FALSE
  <2>1. PICK outcome \in Outcome \ {"rate_limited"} : Result(s, outcome)
    BY <1>6 DEF Refuse, WriteEvent, Outcome
  <2>2. s = t
    BY <1>1, <1>2, <2>1 DEF Result
  <2> QED
    BY <1>3, <2>1, <2>2, ResultSet
<1>7. ASSUME NEW s \in Threads, ReadWindow(s) \/ Evict(s) \/ WriteFails(s) PROVE FALSE
  <2>1. s = t
    BY <1>1, <1>2, <1>7 DEF ReadWindow, Evict, WriteFails, Goto, Fail
  <2>2. CASE Fail(t) \/ Goto(t, "write")
    BY <1>2, <2>2, ResultsStay DEF Fail
  <2>3. CASE ~(Fail(t) \/ Goto(t, "write"))
    BY <1>1, <1>2, <1>7, <2>1, <2>3 DEF ReadWindow, Evict, WriteFails, Request
  <2> QED
    BY <2>2, <2>3
<1>8. ASSUME NEW s \in Threads, Flush(s) \/ Post(s) PROVE FALSE
  BY <1>1, <1>2, <1>8 DEF Flush, Post, Receive
<1>9. ASSUME NEW s \in Threads, Acknowledge(s) \/ Answer(s) \/ Timeout(s) PROVE FALSE
  BY <1>1, <1>2, <1>9 DEF Acknowledge, Answer, Timeout, Request
<1>10. CASE Capture \/ ServerCrash \/ Tick \/ UNCHANGED vars
  BY <1>2, <1>10 DEF Capture, ServerCrash, Tick, vars, serverVars
<1> QED
  BY <1>4, <1>5, <1>6, <1>7, <1>8, <1>9, <1>10, VerdictBacked, <1>2 DEF Next, ServerStep

\* The limiter refuses a customer only when more than the limit were counted in a
\* period of the window's length, whatever updates its threads lose (ratelimit.py:36-46).
THEOREM RefusalsAreOverLimit == Spec => RefusedOverLimit
<1>1. ClientInv => ServerInv
  BY DEF ClientInv
<1>2. ASSUME ServerInv, [Next]_vars
      PROVE  [\A t \in Threads :
                 /\ thread[t] # Idle /\ thread'[t] # Idle
                 /\ thread'[t].results = Append(thread[t].results, "rate_limited")
                 => \E start \in 0..MaxTime :
                       Cardinality(CallsIn(Customer(t), start)) > Limit]_vars
  BY <1>2, RefusalBacked
<1> QED
  BY <1>1, <1>2, ClientInvInit, ClientInvNext, PTL DEF Spec, RefusedOverLimit

=============================================================================
