--------------------------- MODULE HandoffProofs ---------------------------
(***************************************************************************)
(* The handoff manager implements its promise, for any number of calls, of *)
(* rules and of tries, and whatever its queues, agents and process do.     *)
(***************************************************************************)
EXTENDS Handoff, FiniteSetTheorems, SequenceTheorems, TLAPS

-----------------------------------------------------------------------------
(* The inductive invariant of the calls and their tickets *)

\* What can be left of a request's list of queues.
Remaining(request) ==
    LET primary  == Attempt(Primary(request), "routed")
        fallback == Attempt(Fallback(request), "fallback")
    IN  {<<>>, <<primary>>, <<fallback>>, <<primary, fallback>>}

\* The ticket handle() knows of is in the queue it has got to.
TicketKnown(k) ==
    /\ call[k].attempts # <<>>
    /\ \E t \in TicketsOf(k) : /\ t.ref = call[k].ticket
                               /\ t.queue = Head(call[k].attempts).queue
                               /\ t.conversation = call[k].request.conversation

InProgress(k) ==
    /\ call[k].attempts \in Remaining(call[k].request)
    /\ At(k, "dispatch") => call[k].ticket = NoTicket
    /\ At(k, "record") => (call[k].ticket = NoTicket <=> call[k].attempts = <<>>)
    /\ call[k].ticket # NoTicket => TicketKnown(k)

CallInv ==
    /\ TypeOK
    /\ IsFiniteSet(tickets)
    /\ \A k \in Calls : At(k, "new") => TicketsOf(k) = {}
    /\ \A k \in Started : InProgress(k)
    /\ SparesExplained

-----------------------------------------------------------------------------
(* Lemmas *)

LEMMA ShortSequences ==
    ASSUME NEW S, NEW a \in S, NEW b \in S
    PROVE  /\ <<>> \in Seq(S) /\ <<a>> \in Seq(S) /\ <<a, b>> \in Seq(S)
           /\ Len(<<>>) = 0 /\ Len(<<a>>) = 1 /\ Len(<<a, b>>) = 2
           /\ Tail(<<a>>) = <<>> /\ Tail(<<a, b>>) = <<b>>
           /\ <<>> \o <<b>> = <<b>> /\ <<a>> \o <<>> = <<a>> /\ <<a>> \o <<b>> = <<a, b>>
<1>1. <<>> \in Seq(S) /\ <<a>> \in Seq(S) /\ <<a, b>> \in Seq(S)
  OBVIOUS
<1>2. Len(<<>>) = 0 /\ Len(<<a>>) = 1 /\ Len(<<a, b>>) = 2
  OBVIOUS
<1>3. Tail(<<a>>) = <<>>
  OBVIOUS
<1>4. Tail(<<a, b>>) = <<b>>
  OBVIOUS
<1>5. <<>> \o <<b>> = <<b>> /\ <<a>> \o <<>> = <<a>>
  BY <1>1, ConcatEmptySeq
<1>6. <<a>> \o <<b>> = <<a, b>>
  <2>1. <<a>> \in Seq(S) /\ <<b>> \in Seq(S) /\ <<a, b>> \in Seq(S)
    OBVIOUS
  <2> DEFINE both == <<a>> \o <<b>>
  <2>2. /\ both \in Seq(S) /\ Len(both) = 2
        /\ \A i \in 1..2 : both[i] = IF i <= 1 THEN <<a>>[i] ELSE <<b>>[i - 1]
    BY <2>1, ConcatProperties, Len(<<a>>) = 1, Len(<<b>>) = 1
  <2>3. \A i \in 1..2 : both[i] = <<a, b>>[i]
    BY <2>2
  <2> QED
    BY <2>1, <2>2, <2>3, SeqEqual, <1>2
<1> QED
  BY <1>1, <1>2, <1>3, <1>4, <1>5, <1>6

\* The lists that handle() makes of its queues, and those that giving one up leaves.
LEMMA RemainingType ==
    ASSUME NEW request \in Requests, NEW attempts \in Remaining(request)
    PROVE  /\ attempts \in Seq([queue : Queues, status : {"routed", "fallback"}])
           /\ Len(attempts) <= 2
           /\ attempts # <<>> => Tail(attempts) \in Remaining(request)
<1>1. PICK a, b \in [queue : Queues, status : {"routed", "fallback"}] :
         Remaining(request) = {<<>>, <<a>>, <<b>>, <<a, b>>}
  BY DEF Remaining, Attempt, Queues
<1>2. attempts \in {<<>>, <<a>>, <<b>>, <<a, b>>}
  BY <1>1
<1>3. /\ \A x \in {<<>>, <<a>>, <<b>>, <<a, b>>} :
            /\ x \in Seq([queue : Queues, status : {"routed", "fallback"}])
            /\ Len(x) <= 2
      /\ Tail(<<a>>) = <<>> /\ Tail(<<b>>) = <<>> /\ Tail(<<a, b>>) = <<b>>
  BY ShortSequences
<1> QED
  BY <1>1, <1>2, <1>3

LEMMA AttemptsRemain ==
    ASSUME NEW request \in Requests, NEW available \in BOOLEAN
    PROVE  Attempts(request, available) \in Remaining(request) \ {<<>>}
<1> DEFINE primary  == Attempt(Primary(request), "routed")
           fallback == Attempt(Fallback(request), "fallback")
<1>1. Attempts(request, available) \in {<<primary>>, <<fallback>>, <<primary, fallback>>}
  <2>1. /\ <<>> \o <<fallback>> = <<fallback>> /\ <<primary>> \o <<>> = <<primary>>
        /\ <<primary>> \o <<fallback>> = <<primary, fallback>>
    <3> HIDE DEF primary, fallback
    <3>1. primary \in {primary, fallback} /\ fallback \in {primary, fallback}
      OBVIOUS
    <3> QED
      BY <3>1, ShortSequences
  <2> HIDE DEF primary, fallback
  <2>2. Attempts(request, available) =
            (IF available THEN <<primary>> ELSE <<>>)
            \o (IF ~available \/ Fallback(request) # Primary(request)
                THEN <<fallback>> ELSE <<>>)
    BY DEF Attempts, primary, fallback
  <2>3. CASE available /\ Fallback(request) # Primary(request)
    BY <2>1, <2>2, <2>3
  <2>4. CASE available /\ Fallback(request) = Primary(request)
    BY <2>1, <2>2, <2>4
  <2>5. CASE ~available
    BY <2>1, <2>2, <2>5
  <2> QED
    BY <2>3, <2>4, <2>5
<1>2. <<>> \notin {<<primary>>, <<fallback>>, <<primary, fallback>>}
  OBVIOUS
<1> QED
  BY <1>1, <1>2 DEF Remaining

\* A queue that takes a ticket gives it a ref of its own.
LEMMA TicketTaken ==
    ASSUME TypeOK, IsFiniteSet(tickets), NEW k \in Calls, tickets' = tickets \cup {Ticket(k)}
    PROVE  /\ IsFiniteSet(tickets')
           /\ \A t \in tickets' : t.ref \in 1..Cardinality(tickets') /\ t.by \in Calls
           /\ TicketsOf(k)' = TicketsOf(k) \cup {Ticket(k)}
           /\ Cardinality(TicketsOf(k)') = Cardinality(TicketsOf(k)) + 1
           /\ Cardinality(TicketsOf(k)) \in Nat
           /\ \A x \in Calls \ {k} : TicketsOf(x)' = TicketsOf(x)
           /\ Ticket(k).ref \in Nat
<1>1. Cardinality(tickets) \in Nat
  BY FS_CardinalityType
<1>2. Ticket(k).ref = Cardinality(tickets) + 1 /\ Ticket(k).by = k
  BY DEF Ticket, NewRef
<1>3. Ticket(k) \notin tickets
  BY <1>1, <1>2 DEF TypeOK
<1>4. IsFiniteSet(tickets') /\ Cardinality(tickets') = Cardinality(tickets) + 1
  BY <1>3, FS_AddElement
<1>5. TicketsOf(k) \subseteq tickets /\ IsFiniteSet(TicketsOf(k))
  BY FS_Subset DEF TicketsOf
<1>6. TicketsOf(k)' = TicketsOf(k) \cup {Ticket(k)}
  BY <1>2 DEF TicketsOf
<1>7. Cardinality(TicketsOf(k)') = Cardinality(TicketsOf(k)) + 1
  BY <1>3, <1>5, <1>6, FS_AddElement
<1>8. \A x \in Calls \ {k} : TicketsOf(x)' = TicketsOf(x)
  BY <1>2 DEF TicketsOf
<1>9. \A t \in tickets' : t.ref \in 1..Cardinality(tickets') /\ t.by \in Calls
  BY <1>1, <1>2, <1>4 DEF TypeOK
<1> QED
  BY <1>1, <1>2, <1>4, <1>5, <1>6, <1>7, <1>8, <1>9, FS_CardinalityType

\* An action of one call leaves the others as they are.
LEMMA OthersKept ==
    ASSUME CallInv, NEW k \in Calls,
           \A x \in Calls \ {k} : call'[x] = call[x] /\ TicketsOf(x)' = TicketsOf(x),
           At(k, "new")' => TicketsOf(k)' = {},
           ~At(k, "new")' =>
               /\ InProgress(k)'
               /\ Cardinality(TicketsOf(k)') =
                     call'[k].lost + (IF call'[k].ticket = NoTicket THEN 0 ELSE 1)
    PROVE  /\ \A x \in Calls : At(x, "new")' => TicketsOf(x)' = {}
           /\ \A x \in Started' : InProgress(x)'
           /\ SparesExplained'
<1>1. \A x \in Calls \ {k} : x \in Started' <=> x \in Started
  BY DEF Started, At
<1>2. \A x \in Calls \ {k} : InProgress(x) => InProgress(x)'
  BY DEF InProgress, At, TicketKnown
<1>3. \A x \in Calls : At(x, "new")' => TicketsOf(x)' = {}
  BY DEF CallInv, At
<1>4. \A x \in Started' : InProgress(x)'
  BY <1>1, <1>2 DEF CallInv, Started
<1>5. SparesExplained'
  BY <1>1 DEF CallInv, SparesExplained, Started
<1> QED
  BY <1>3, <1>4, <1>5

\* What is under way is a record of Handling.
LEMMA UnderWay ==
    ASSUME TypeOK, NEW k \in Calls, ~At(k, "new")
    PROVE  call[k] \in Handling
BY DEF TypeOK, At, New

LEMMA CallUpdated ==
    ASSUME TypeOK, NEW k \in Calls, NEW c \in Handling, Len(c.attempts) <= 2,
           call' = [call EXCEPT ![k] = c]
    PROVE  /\ call' \in [Calls -> Handling \cup {New}]
           /\ \A x \in Calls : ~At(x, "new")' => Len(call'[x].attempts) <= 2
           /\ call'[k] = c /\ \A x \in Calls \ {k} : call'[x] = call[x]
           /\ ~At(k, "new")'
BY DEF TypeOK, At, Handling

-----------------------------------------------------------------------------
(* The steps *)

LEMMA RaiseCallInv ==
    ASSUME CallInv, NEW k \in Calls, Raise(k)
    PROVE  CallInv'
<1>1. PICK request \in Requests, available \in BOOLEAN :
         call' = [call EXCEPT ![k] =
              [pc |-> "dispatch", request |-> request, attempts |-> Attempts(request, available),
               tries |-> 0, ticket |-> NoTicket, lost |-> 0]]
  BY DEF Raise
<1> DEFINE c == [pc |-> "dispatch", request |-> request,
                 attempts |-> Attempts(request, available),
                 tries |-> 0, ticket |-> NoTicket, lost |-> 0]
<1>2. Attempts(request, available) \in Remaining(request)
  BY AttemptsRemain
<1>3. c \in Handling /\ Len(c.attempts) <= 2
  <2>1. /\ c.attempts \in Seq([queue : Queues, status : {"routed", "fallback"}])
        /\ Len(c.attempts) <= 2
    BY <1>2, RemainingType
  <2>2. 0 \in 0..MaxAttempts
    BY HandoffAssumption
  <2> QED
    BY <2>1, <2>2 DEF Handling
<1>4. TypeOK
  BY DEF CallInv
<1> HIDE DEF c
<1>5. /\ call' \in [Calls -> Handling \cup {New}]
      /\ \A x \in Calls : ~At(x, "new")' => Len(call'[x].attempts) <= 2
      /\ call'[k] = c /\ \A x \in Calls \ {k} : call'[x] = call[x]
      /\ ~At(k, "new")'
  BY <1>1, <1>3, <1>4, CallUpdated DEF c
<1>6. UNCHANGED <<tickets, dead, ledger, faults>>
  BY DEF Raise
<1>7. TypeOK'
  BY <1>4, <1>5, <1>6 DEF TypeOK
<1>8. \A x \in Calls : TicketsOf(x)' = TicketsOf(x)
  BY <1>6 DEF TicketsOf
<1>9. TicketsOf(k) = {}
  BY DEF Raise, CallInv
<1>10. InProgress(k)'
  BY <1>2, <1>5 DEF InProgress, At, c
<1>11. Cardinality(TicketsOf(k)') = call'[k].lost + (IF call'[k].ticket = NoTicket THEN 0 ELSE 1)
  <2>1. c.lost = 0 /\ c.ticket = NoTicket
    BY DEF c
  <2>2. Cardinality(TicketsOf(k)') = 0
    BY <1>8, <1>9, FS_EmptySet
  <2> QED
    BY <1>5, <2>1, <2>2
<1>12. /\ \A x \in Calls : At(x, "new")' => TicketsOf(x)' = {}
       /\ \A x \in Started' : InProgress(x)'
       /\ SparesExplained'
  BY <1>5, <1>8, <1>10, <1>11, OthersKept
<1> QED
  BY <1>6, <1>7, <1>12 DEF CallInv

\* A try that succeeds, or fails with its ticket taken or not.
LEMMA TryCallInv ==
    ASSUME CallInv, NEW k \in Calls, Enqueue(k) \/ EnqueueFails(k)
    PROVE  CallInv'
<1>1. /\ TypeOK /\ IsFiniteSet(tickets) /\ k \in Started /\ InProgress(k)
      /\ Cardinality(TicketsOf(k)) = call[k].lost + (IF call[k].ticket = NoTicket THEN 0 ELSE 1)
  BY DEF CallInv, SparesExplained, Enqueue, EnqueueFails, Trying, At, Started
<1>2. /\ At(k, "dispatch") /\ call[k].attempts # <<>> /\ call[k].tries < MaxAttempts
      /\ UNCHANGED <<dead, ledger, faults>>
  BY DEF Enqueue, EnqueueFails, Trying
<1>3. call[k] \in Handling /\ Len(call[k].attempts) <= 2 /\ ~At(k, "new")
  BY <1>1, <1>2, UnderWay DEF At, TypeOK
<1>4. call[k].ticket = NoTicket /\ Cardinality(TicketsOf(k)) = call[k].lost
  BY <1>1, <1>2, <1>3 DEF InProgress, Handling
<1>5. CASE Enqueue(k)
  <2> DEFINE c == [call[k] EXCEPT !.pc = "record", !.ticket = NewRef]
  <2>1. call' = [call EXCEPT ![k] = c] /\ tickets' = tickets \cup {Ticket(k)}
    BY <1>5 DEF Enqueue
  <2>2. /\ IsFiniteSet(tickets')
        /\ \A t \in tickets' : t.ref \in 1..Cardinality(tickets') /\ t.by \in Calls
        /\ TicketsOf(k)' = TicketsOf(k) \cup {Ticket(k)}
        /\ Cardinality(TicketsOf(k)') = Cardinality(TicketsOf(k)) + 1
        /\ Cardinality(TicketsOf(k)) \in Nat
        /\ \A x \in Calls \ {k} : TicketsOf(x)' = TicketsOf(x)
        /\ Ticket(k).ref \in Nat
    BY <1>1, <2>1, TicketTaken
  <2>3. /\ c \in Handling /\ c.attempts = call[k].attempts /\ c.request = call[k].request
        /\ c.lost = call[k].lost /\ c.ticket = NewRef /\ c.pc = "record" /\ NewRef \in Nat
    BY <1>3, <2>2 DEF Handling, Ticket
  <2> HIDE DEF c
  <2>4. /\ call' \in [Calls -> Handling \cup {New}]
        /\ \A x \in Calls : ~At(x, "new")' => Len(call'[x].attempts) <= 2
        /\ call'[k] = c /\ \A x \in Calls \ {k} : call'[x] = call[x]
        /\ ~At(k, "new")'
    BY <1>1, <1>3, <2>1, <2>3, CallUpdated
  <2>5. TypeOK'
    BY <1>1, <1>2, <2>2, <2>4 DEF TypeOK
  <2>6. InProgress(k)'
    <3>1. NewRef # NoTicket
      BY <2>3, HandoffAssumption
    <3>2. TicketKnown(k)'
      <4>1. Ticket(k) \in TicketsOf(k)'
        BY <2>2
      <4>2. /\ Ticket(k).ref = call'[k].ticket
            /\ Ticket(k).queue = Head(call'[k].attempts).queue
            /\ Ticket(k).conversation = call'[k].request.conversation
            /\ call'[k].attempts # <<>>
        BY <1>2, <2>3, <2>4 DEF Ticket
      <4> QED
        BY <4>1, <4>2 DEF TicketKnown
    <3> QED
      BY <1>1, <1>2, <2>3, <2>4, <3>1, <3>2 DEF InProgress, At
  <2>7. Cardinality(TicketsOf(k)') = call'[k].lost + (IF call'[k].ticket = NoTicket THEN 0 ELSE 1)
    BY <1>4, <2>2, <2>3, <2>4, HandoffAssumption
  <2>8. /\ \A x \in Calls : At(x, "new")' => TicketsOf(x)' = {}
        /\ \A x \in Started' : InProgress(x)'
        /\ SparesExplained'
    BY <2>2, <2>4, <2>6, <2>7, OthersKept
  <2> QED
    BY <2>2, <2>5, <2>8 DEF CallInv
<1>6. CASE EnqueueFails(k)
  <2>1. CASE /\ call' = [call EXCEPT ![k].tries = @ + 1]
             /\ UNCHANGED tickets
    <3> DEFINE c == [call[k] EXCEPT !.tries = @ + 1]
    <3>1. call' = [call EXCEPT ![k] = c]
      BY <2>1
    <3>2. /\ c \in Handling /\ c.attempts = call[k].attempts /\ c.request = call[k].request
          /\ c.lost = call[k].lost /\ c.ticket = call[k].ticket /\ c.pc = call[k].pc
      <4>1. call[k].tries + 1 \in 0..MaxAttempts /\ call[k].lost + 1 \in Nat
        BY <1>2, <1>3, HandoffAssumption DEF Handling
      <4> QED
        BY <1>3, <4>1 DEF Handling
    <3> HIDE DEF c
    <3>3. /\ call' \in [Calls -> Handling \cup {New}]
          /\ \A x \in Calls : ~At(x, "new")' => Len(call'[x].attempts) <= 2
          /\ call'[k] = c /\ \A x \in Calls \ {k} : call'[x] = call[x]
          /\ ~At(k, "new")'
      BY <1>1, <1>3, <3>1, <3>2, CallUpdated
    <3>4. TypeOK'
      BY <1>1, <1>2, <2>1, <3>3 DEF TypeOK
    <3>5. \A x \in Calls : TicketsOf(x)' = TicketsOf(x)
      BY <2>1 DEF TicketsOf
    <3>6. InProgress(k)'
      BY <1>1, <1>2, <1>4, <3>2, <3>3 DEF InProgress, At
    <3>7. Cardinality(TicketsOf(k)') = call'[k].lost + (IF call'[k].ticket = NoTicket THEN 0 ELSE 1)
      BY <1>1, <3>2, <3>3, <3>5
    <3>8. /\ \A x \in Calls : At(x, "new")' => TicketsOf(x)' = {}
          /\ \A x \in Started' : InProgress(x)'
          /\ SparesExplained'
      BY <3>3, <3>5, <3>6, <3>7, OthersKept
    <3> QED
      BY <1>1, <2>1, <3>4, <3>8 DEF CallInv
  <2>2. CASE /\ call' = [call EXCEPT ![k].tries = @ + 1, ![k].lost = @ + 1]
             /\ tickets' = tickets \cup {Ticket(k)}
    <3> DEFINE c == [call[k] EXCEPT !.tries = @ + 1, !.lost = @ + 1]
    <3>1. call' = [call EXCEPT ![k] = c]
      BY <1>1, <2>2 DEF TypeOK
    <3>2. /\ c \in Handling /\ c.attempts = call[k].attempts /\ c.request = call[k].request
          /\ c.lost = call[k].lost + 1 /\ c.ticket = call[k].ticket /\ c.pc = call[k].pc
      <4>1. call[k].tries + 1 \in 0..MaxAttempts /\ call[k].lost + 1 \in Nat
        BY <1>2, <1>3, HandoffAssumption DEF Handling
      <4> QED
        BY <1>3, <4>1 DEF Handling
    <3> HIDE DEF c
    <3>3. /\ call' \in [Calls -> Handling \cup {New}]
          /\ \A x \in Calls : ~At(x, "new")' => Len(call'[x].attempts) <= 2
          /\ call'[k] = c /\ \A x \in Calls \ {k} : call'[x] = call[x]
          /\ ~At(k, "new")'
      BY <1>1, <1>3, <3>1, <3>2, CallUpdated
    <3>4. /\ IsFiniteSet(tickets')
          /\ \A t \in tickets' : t.ref \in 1..Cardinality(tickets') /\ t.by \in Calls
          /\ TicketsOf(k)' = TicketsOf(k) \cup {Ticket(k)}
          /\ Cardinality(TicketsOf(k)') = Cardinality(TicketsOf(k)) + 1
          /\ \A x \in Calls \ {k} : TicketsOf(x)' = TicketsOf(x)
      BY <1>1, <2>2, TicketTaken
    <3>5. TypeOK'
      BY <1>1, <1>2, <3>3, <3>4 DEF TypeOK
    <3>6. InProgress(k)'
      BY <1>1, <1>2, <1>4, <3>2, <3>3 DEF InProgress, At
    <3>7. Cardinality(TicketsOf(k)') = call'[k].lost + (IF call'[k].ticket = NoTicket THEN 0 ELSE 1)
      BY <1>3, <1>4, <3>2, <3>3, <3>4 DEF Handling
    <3>8. /\ \A x \in Calls : At(x, "new")' => TicketsOf(x)' = {}
          /\ \A x \in Started' : InProgress(x)'
          /\ SparesExplained'
      BY <3>3, <3>4, <3>6, <3>7, OthersKept
    <3> QED
      BY <3>4, <3>5, <3>8 DEF CallInv
  <2> QED
    BY <1>6, <2>1, <2>2 DEF EnqueueFails
<1> QED
  BY <1>5, <1>6

\* The steps that leave the tickets as they are and may move the call on.
LEMMA MoveCallInv ==
    ASSUME CallInv, NEW k \in Calls, NEW c \in Handling, ~At(k, "new"),
           call' = [call EXCEPT ![k] = c], UNCHANGED tickets,
           dead' \subseteq Calls, DOMAIN ledger' \subseteq Calls, faults' \in 0..MaxFaults,
           c.attempts \in Remaining(call[k].request),
           c.attempts = call[k].attempts \/ call[k].ticket = NoTicket,
           c.request = call[k].request, c.ticket = call[k].ticket, c.lost = call[k].lost,
           c.pc = "dispatch" => c.ticket = NoTicket,
           c.pc = "record" => (c.ticket = NoTicket <=> c.attempts = <<>>)
    PROVE  CallInv'
<1>1. /\ TypeOK /\ IsFiniteSet(tickets) /\ k \in Started /\ InProgress(k)
      /\ Cardinality(TicketsOf(k)) = call[k].lost + (IF call[k].ticket = NoTicket THEN 0 ELSE 1)
      /\ call[k].request \in Requests
  BY UnderWay DEF CallInv, SparesExplained, Started, Handling
<1>2. Len(c.attempts) <= 2
  BY <1>1, RemainingType
<1>3. /\ call' \in [Calls -> Handling \cup {New}]
      /\ \A x \in Calls : ~At(x, "new")' => Len(call'[x].attempts) <= 2
      /\ call'[k] = c /\ \A x \in Calls \ {k} : call'[x] = call[x]
      /\ ~At(k, "new")'
  BY <1>1, <1>2, CallUpdated
<1>4. TypeOK'
  BY <1>1, <1>3 DEF TypeOK
<1>5. \A x \in Calls : TicketsOf(x)' = TicketsOf(x)
  BY DEF TicketsOf
<1>6. InProgress(k)'
  BY <1>1, <1>3, <1>5 DEF InProgress, At, TicketKnown
<1>7. Cardinality(TicketsOf(k)') = call'[k].lost + (IF call'[k].ticket = NoTicket THEN 0 ELSE 1)
  BY <1>1, <1>3, <1>5
<1>8. /\ \A x \in Calls : At(x, "new")' => TicketsOf(x)' = {}
      /\ \A x \in Started' : InProgress(x)'
      /\ SparesExplained'
  BY <1>3, <1>5, <1>6, <1>7, OthersKept
<1> QED
  BY <1>1, <1>4, <1>8 DEF CallInv

LEMMA CallInvInit == Init => CallInv
<1> SUFFICES ASSUME Init PROVE CallInv
  OBVIOUS
<1>1. tickets = {} /\ IsFiniteSet(tickets) /\ \A k \in Calls : At(k, "new")
  BY FS_EmptySet DEF Init, At, New
<1>2. TypeOK
  BY <1>1, HandoffAssumption DEF Init, TypeOK
<1> QED
  BY <1>1, <1>2 DEF CallInv, Started, TicketsOf, SparesExplained

LEMMA SameCallInv ==
    ASSUME CallInv, UNCHANGED <<call, tickets>>,
           dead' \subseteq Calls, DOMAIN ledger' \subseteq Calls, faults' \in 0..MaxFaults
    PROVE  CallInv'
<1>1. TypeOK'
  BY DEF CallInv, TypeOK, At
<1>2. \A k \in Calls : TicketsOf(k)' = TicketsOf(k) /\ (At(k, "new")' <=> At(k, "new"))
  BY DEF TicketsOf, At
<1>3. \A k \in Calls : InProgress(k) => InProgress(k)'
  BY <1>2 DEF InProgress, At, TicketKnown
<1>4. Started' = Started
  BY <1>2 DEF Started
<1>5. \A k \in Started' : InProgress(k)'
  BY <1>3, <1>4 DEF CallInv, Started
<1>6. SparesExplained'
  BY <1>2, <1>4 DEF CallInv, SparesExplained, Started
<1>7. \A k \in Calls : At(k, "new")' => TicketsOf(k)' = {}
  BY <1>2 DEF CallInv
<1> QED
  BY <1>1, <1>5, <1>6, <1>7 DEF CallInv

\* A process that dies leaves its calls where they were.
LEMMA CrashCallInv ==
    ASSUME CallInv, Crash
    PROVE  CallInv'
<1>1. /\ UNCHANGED <<tickets, ledger>> /\ dead' = {} /\ faults' \in 0..MaxFaults
  BY HandoffAssumption DEF Crash, CallInv, TypeOK
<1>2. \A k \in Calls :
         \/ call'[k] = call[k]
         \/ ~At(k, "new") /\ call'[k] = [call[k] EXCEPT !.pc = "failed"]
  BY DEF Crash, At
<1>3. \A k \in Calls :
         \/ call'[k] = call[k]
         \/ /\ call[k] \in Handling /\ call'[k] \in Handling /\ call'[k].pc = "failed"
            /\ call'[k].attempts = call[k].attempts /\ call'[k].request = call[k].request
            /\ call'[k].ticket = call[k].ticket /\ call'[k].lost = call[k].lost
  <2> SUFFICES ASSUME NEW k \in Calls, ~At(k, "new"),
                      call'[k] = [call[k] EXCEPT !.pc = "failed"]
               PROVE  /\ call[k] \in Handling /\ call'[k] \in Handling /\ call'[k].pc = "failed"
                      /\ call'[k].attempts = call[k].attempts /\ call'[k].request = call[k].request
                      /\ call'[k].ticket = call[k].ticket /\ call'[k].lost = call[k].lost
    BY <1>2
  <2>1. call[k] \in Handling
    BY UnderWay DEF CallInv
  <2> QED
    BY <2>1 DEF Handling
<1>4. \A k \in Calls : At(k, "new")' <=> At(k, "new")
  BY <1>3 DEF At, Handling
<1>5. TypeOK'
  <2>1. call' \in [Calls -> Handling \cup {New}]
    BY <1>3 DEF Crash, CallInv, TypeOK
  <2>2. \A k \in Calls : ~At(k, "new")' => Len(call'[k].attempts) <= 2
    BY <1>3, <1>4 DEF CallInv, TypeOK
  <2> QED
    BY <1>1, <2>1, <2>2 DEF CallInv, TypeOK
<1>6. \A k \in Calls : TicketsOf(k)' = TicketsOf(k)
  BY <1>1 DEF TicketsOf
<1>7. Started' = Started
  BY <1>4 DEF Started
<1>8. \A k \in Started : InProgress(k)'
  <2> SUFFICES ASSUME NEW k \in Calls, k \in Started
               PROVE  InProgress(k)'
    BY DEF Started
  <2>1. InProgress(k)
    BY DEF CallInv
  <2>2. CASE call'[k] = call[k]
    BY <2>1, <2>2, <1>6 DEF InProgress, At, TicketKnown
  <2>3. CASE /\ call'[k].pc = "failed"
             /\ call'[k].attempts = call[k].attempts /\ call'[k].request = call[k].request
             /\ call'[k].ticket = call[k].ticket
    BY <2>1, <2>3, <1>6 DEF InProgress, At, TicketKnown
  <2> QED
    BY <1>3, <2>2, <2>3
<1>9. SparesExplained'
  <2> SUFFICES ASSUME NEW k \in Calls, k \in Started
               PROVE  Cardinality(TicketsOf(k)') =
                         call'[k].lost + (IF call'[k].ticket = NoTicket THEN 0 ELSE 1)
    BY <1>7 DEF SparesExplained, Started
  <2>1. call'[k].lost = call[k].lost /\ call'[k].ticket = call[k].ticket
    BY <1>3
  <2> QED
    BY <2>1, <1>6 DEF CallInv, SparesExplained
<1> QED
  BY <1>1, <1>4, <1>5, <1>6, <1>7, <1>8, <1>9 DEF CallInv

LEMMA StepCallInv ==
    ASSUME CallInv, NEW k \in Calls, Step(k)
    PROVE  CallInv'
<1>1. CASE Enqueue(k) \/ EnqueueFails(k)
  BY <1>1, TryCallInv
<1> USE DEF CallInv
<1>2. CASE GiveUpQueue(k)
  <2> DEFINE c == [call[k] EXCEPT !.attempts = Tail(@), !.tries = 0]
  <2>1. /\ TypeOK /\ InProgress(k) /\ ~At(k, "new") /\ call[k].attempts # <<>>
        /\ UNCHANGED <<tickets, dead, ledger, faults>> /\ call[k].pc = "dispatch"
    BY <1>2 DEF GiveUpQueue, At, Started
  <2>2. call[k] \in Handling /\ call[k].attempts \in Remaining(call[k].request)
    BY <2>1, UnderWay DEF InProgress
  <2>3. /\ Tail(call[k].attempts) \in Remaining(call[k].request)
        /\ Tail(call[k].attempts) \in Seq([queue : Queues, status : {"routed", "fallback"}])
    BY <2>1, <2>2, RemainingType DEF Handling
  <2>4. 0 \in 0..MaxAttempts
    BY HandoffAssumption
  <2>5. c \in Handling
    BY <2>2, <2>3, <2>4 DEF Handling
  <2>6. /\ c.attempts = Tail(call[k].attempts) /\ c.request = call[k].request
        /\ c.ticket = call[k].ticket /\ c.lost = call[k].lost /\ c.pc = call[k].pc
    BY <2>2 DEF Handling
  <2>7. call' = [call EXCEPT ![k] = c]
    BY <1>2, <2>1 DEF GiveUpQueue, TypeOK
  <2>8. call[k].ticket = NoTicket
    BY <2>1 DEF InProgress, At
  <2> HIDE DEF c
  <2> QED
    BY <2>1, <2>3, <2>5, <2>6, <2>7, <2>8, MoveCallInv DEF TypeOK
<1>3. CASE DeadLetter(k) \/ Record(k) \/ RecordFails(k) \/ Return(k)
  <2>1. PICK pc \in {"record", "return", "failed", "done"} :
           /\ call' = [call EXCEPT ![k].pc = pc]
           /\ pc = "record" => At(k, "dispatch") /\ call[k].attempts = <<>>
    BY <1>3 DEF DeadLetter, Record, RecordFails, Return
  <2> DEFINE c == [call[k] EXCEPT !.pc = pc]
  <2>2. TypeOK /\ ~At(k, "new") /\ InProgress(k)
    BY <1>3 DEF DeadLetter, Record, RecordFails, Return, At, Started
  <2>3. call[k] \in Handling /\ call[k].attempts \in Remaining(call[k].request)
    BY <2>2, UnderWay DEF InProgress
  <2>4. c \in Handling
    BY <2>3 DEF Handling
  <2>5. /\ c.attempts = call[k].attempts /\ c.request = call[k].request
        /\ c.ticket = call[k].ticket /\ c.lost = call[k].lost /\ c.pc = pc
    BY <2>3 DEF Handling
  <2>6. /\ UNCHANGED tickets /\ dead' \subseteq Calls
        /\ DOMAIN ledger' \subseteq Calls /\ faults' \in 0..MaxFaults
    BY <1>3, <2>2, HandoffAssumption DEF DeadLetter, Record, RecordFails, Return, Insert, TypeOK
  <2>7. pc = "record" => call[k].ticket = NoTicket
    BY <2>1, <2>2 DEF InProgress
  <2>8. call' = [call EXCEPT ![k] = c]
    BY <2>1, <2>2 DEF TypeOK
  <2> HIDE DEF c
  <2> QED
    BY <2>1, <2>2, <2>3, <2>4, <2>5, <2>6, <2>7, <2>8, MoveCallInv
<1> QED
  BY <1>1, <1>2, <1>3 DEF Step

LEMMA CallInvNext == CallInv /\ [Next]_vars => CallInv'
<1> SUFFICES ASSUME CallInv, [Next]_vars
             PROVE  CallInv'
  OBVIOUS
<1>1. ASSUME NEW k \in Calls, Raise(k) \/ Step(k) PROVE CallInv'
  BY <1>1, RaiseCallInv, StepCallInv
<1>2. ASSUME NEW ref, NEW status, UpdateStatus(ref, status) PROVE CallInv'
  BY <1>2, SameCallInv DEF UpdateStatus, SetStatus, CallInv, TypeOK
<1>3. CASE Crash
  BY <1>3, CrashCallInv
<1>4. CASE UNCHANGED vars
  BY <1>4, SameCallInv DEF vars, CallInv, TypeOK
<1> QED
  BY <1>1, <1>2, <1>3, <1>4 DEF Next

\* The types hold, whatever the rules, the requests and the tries are.
THEOREM HandoffTypes == Spec => []TypeOK
<1>1. CallInv => TypeOK
  BY DEF CallInv
<1> QED
  BY <1>1, CallInvInit, CallInvNext, PTL DEF Spec

\* An agent meets a handoff once and once more for each answer that was lost, for any
\* number of calls and tries (manager.py:88-94).
THEOREM SparesAreExplained == Spec => []SparesExplained
<1>1. CallInv => SparesExplained
  BY DEF CallInv
<1> QED
  BY <1>1, CallInvInit, CallInvNext, PTL DEF Spec

-----------------------------------------------------------------------------
(* The ledger *)

RowIsTrue(k, row) ==
    /\ row.ticket_ref = NoTicket <=> row.status = "dead_lettered"
    /\ row.ticket_ref # NoTicket =>
          \E t \in TicketsOf(k) : /\ t.ref = row.ticket_ref /\ t.queue = row.queue
                                  /\ t.conversation = row.conversation
    /\ row.status = "routed" => row.queue = Primary(call[k].request)
    /\ row.status = "fallback" => row.queue = Fallback(call[k].request)

\* A row is written at the end of a call, and before the call returns.
LedgerInv ==
    /\ CallInv
    /\ \A k \in DOMAIN ledger : RowIsTrue(k, ledger[k])
    /\ \A k \in Calls : call[k].pc \in {"new", "dispatch", "record"} => k \notin DOMAIN ledger
    /\ WithLedger => \A k \in Calls : call[k].pc \in {"return", "done"} => k \in DOMAIN ledger

LEMMA HeadRemaining ==
    ASSUME NEW request \in Requests, NEW attempts \in Remaining(request), attempts # <<>>
    PROVE  Head(attempts) \in {Attempt(Primary(request), "routed"),
                               Attempt(Fallback(request), "fallback")}
BY DEF Remaining

\* What _record writes is so.
LEMMA WrittenRow ==
    ASSUME CallInv, NEW k \in Calls, At(k, "record")
    PROVE  RowIsTrue(k, Row(k))
<1>1. /\ InProgress(k) /\ call[k] \in Handling
  BY UnderWay DEF CallInv, At, Started
<1>2. call[k].request \in Requests
  BY <1>1 DEF Handling
<1>3. CASE call[k].attempts = <<>>
  <2>1. /\ Row(k).ticket_ref = NoTicket /\ Row(k).status = "dead_lettered"
    BY <1>1, <1>3 DEF Row, Outcome, Attempt, InProgress
  <2> QED
    BY <2>1 DEF RowIsTrue
<1>4. CASE call[k].attempts # <<>>
  <2>1. call[k].ticket # NoTicket /\ TicketKnown(k)
    BY <1>1, <1>4 DEF InProgress
  <2>2. Outcome(k) \in {Attempt(Primary(call[k].request), "routed"),
                        Attempt(Fallback(call[k].request), "fallback")}
    BY <1>1, <1>2, <1>4, HeadRemaining DEF Outcome, InProgress
  <2>3. /\ Row(k).ticket_ref = call[k].ticket
        /\ Row(k).conversation = call[k].request.conversation
        /\ Row(k).queue = Head(call[k].attempts).queue
        /\ Row(k).status \in {"routed", "fallback"}
        /\ Row(k).status = "routed" => Row(k).queue = Primary(call[k].request)
        /\ Row(k).status = "fallback" => Row(k).queue = Fallback(call[k].request)
    BY <1>4, <2>2 DEF Row, Attempt, Outcome
  <2> QED
    BY <2>1, <2>3 DEF RowIsTrue, TicketKnown
<1> QED
  BY <1>3, <1>4

\* A true row stays true while the queues gain tickets and its call keeps its request.
LEMMA RowKept ==
    ASSUME NEW k, NEW row, RowIsTrue(k, row), ledger'[k] = row,
           tickets \subseteq tickets', call'[k].request = call[k].request
    PROVE  RowIsTrue(k, ledger[k])'
BY DEF RowIsTrue, TicketsOf, Primary, Fallback

LEMMA LedgerInvInit == Init => LedgerInv
<1>1. Init => \A k \in Calls : call[k].pc = "new"
  BY DEF Init, New
<1>2. Init => DOMAIN ledger = {}
  BY DEF Init
<1> QED
  BY <1>1, <1>2, CallInvInit DEF LedgerInv

\* Steps that do not write to the ledger.
LEMMA LedgerUntouched ==
    ASSUME LedgerInv, CallInv', UNCHANGED ledger, tickets \subseteq tickets',
           \A k \in Calls :
               \/ call'[k] = call[k]
               \/ /\ call'[k].request = call[k].request
                  /\ call'[k].pc \in {"new", "dispatch", "record"} =>
                         call[k].pc \in {"new", "dispatch", "record"}
                  /\ call'[k].pc \in {"return", "done"} => call[k].pc \in {"return", "done"}
               \/ call[k].pc = "new" /\ call'[k].pc = "dispatch"
    PROVE  LedgerInv'
<1>1. DOMAIN ledger \subseteq Calls
  BY DEF LedgerInv, CallInv, TypeOK
<1>2. \A k \in DOMAIN ledger : call'[k].request = call[k].request
  BY <1>1 DEF LedgerInv
<1>3. \A k \in DOMAIN ledger : RowIsTrue(k, ledger[k])'
  BY <1>2, RowKept DEF LedgerInv
<1>4. \A k \in Calls : call'[k].pc \in {"new", "dispatch", "record"} => k \notin DOMAIN ledger
  BY DEF LedgerInv
<1>5. WithLedger => \A k \in Calls : call'[k].pc \in {"return", "done"} => k \in DOMAIN ledger
  BY DEF LedgerInv
<1> QED
  BY <1>3, <1>4, <1>5 DEF LedgerInv

\* The INSERT, whether _record then returns or raises.
LEMMA RowInserted ==
    ASSUME LedgerInv, CallInv', NEW k \in Calls, At(k, "record"), Insert(k),
           UNCHANGED tickets, NEW pc \in {"return", "failed"},
           call' = [call EXCEPT ![k].pc = pc]
    PROVE  LedgerInv'
<1>1. /\ call[k] \in Handling /\ call \in [Calls -> Handling \cup {New}]
      /\ DOMAIN ledger \subseteq Calls
  BY UnderWay DEF LedgerInv, CallInv, At, TypeOK
<1>2. /\ call'[k].request = call[k].request /\ call'[k].pc = pc
      /\ \A x \in Calls \ {k} : call'[x] = call[x]
  BY <1>1 DEF Handling
<1>3. RowIsTrue(k, ledger[k])'
  <2>1. RowIsTrue(k, Row(k))
    BY WrittenRow DEF LedgerInv
  <2>2. ledger'[k] = Row(k)
    BY DEF Insert
  <2> QED
    BY <1>2, <2>1, <2>2, RowKept
<1>4. ASSUME NEW x \in DOMAIN ledger \ {k}
      PROVE  RowIsTrue(x, ledger[x])'
  <2>1. RowIsTrue(x, ledger[x]) /\ call'[x].request = call[x].request
    BY <1>1, <1>2 DEF LedgerInv
  <2>2. ledger'[x] = ledger[x]
    BY DEF Insert
  <2> QED
    BY <2>1, <2>2, RowKept
<1>5. DOMAIN ledger' = DOMAIN ledger \cup {k}
  BY DEF Insert
<1>6. \A x \in DOMAIN ledger' : RowIsTrue(x, ledger[x])'
  BY <1>3, <1>4, <1>5
<1> QED
  BY <1>2, <1>5, <1>6 DEF LedgerInv

\* An agent's update finds rows that have a ticket: NoTicket is no ticket's ref.
LEMMA UpdateLedgerInv ==
    ASSUME LedgerInv, CallInv', UnknownRefs = {},
           NEW ref \in {t.ref : t \in tickets} \cup UnknownRefs,
           NEW status \in {"accepted", "resolved"}, UpdateStatus(ref, status)
    PROVE  LedgerInv'
<1>1. ref # NoTicket
  BY HandoffAssumption DEF LedgerInv, CallInv, TypeOK
<1>2. /\ UNCHANGED <<call, tickets>> /\ DOMAIN ledger' = DOMAIN ledger
  BY DEF UpdateStatus, SetStatus
<1>3. ASSUME NEW k \in DOMAIN ledger
      PROVE  RowIsTrue(k, ledger[k])'
  <2>1. RowIsTrue(k, ledger[k])
    BY DEF LedgerInv
  <2>2. CASE ledger[k].ticket_ref # ref
    <3>1. ledger'[k] = ledger[k]
      BY <2>2 DEF UpdateStatus, SetStatus
    <3> QED
      BY <1>2, <2>1, <3>1, RowKept
  <2>3. CASE ledger[k].ticket_ref = ref
    <3> DEFINE row == [ledger[k] EXCEPT !.status = status]
    <3>1. ledger'[k] = row
      BY <2>3 DEF UpdateStatus, SetStatus
    <3>2. /\ row.ticket_ref = ledger[k].ticket_ref /\ row.queue = ledger[k].queue
          /\ row.conversation = ledger[k].conversation
          /\ row.status = status \/ row.status = ledger[k].status
      OBVIOUS
    <3>3. ledger[k].status # "dead_lettered"
      BY <1>1, <2>1, <2>3 DEF RowIsTrue
    <3>4. RowIsTrue(k, row)
      BY <1>1, <2>1, <2>3, <3>2, <3>3 DEF RowIsTrue
    <3> HIDE DEF row
    <3> QED
      BY <1>2, <3>1, <3>4, RowKept
  <2> QED
    BY <2>2, <2>3
<1> QED
  BY <1>2, <1>3 DEF LedgerInv

LEMMA LedgerInvNext ==
    ASSUME UnknownRefs = {}
    PROVE  LedgerInv /\ [Next]_vars => LedgerInv'
<1> SUFFICES ASSUME LedgerInv, [Next]_vars
             PROVE  LedgerInv'
  OBVIOUS
<1>1. CallInv' /\ call \in [Calls -> Handling \cup {New}]
  BY CallInvNext DEF LedgerInv, CallInv, TypeOK
<1>2. ASSUME NEW k \in Calls, Raise(k) PROVE LedgerInv'
  <2>1. /\ call[k].pc = "new" /\ call'[k].pc = "dispatch"
        /\ \A x \in Calls \ {k} : call'[x] = call[x]
        /\ UNCHANGED <<ledger, tickets>>
    BY <1>1, <1>2 DEF Raise, At
  <2> QED
    BY <1>1, <2>1, LedgerUntouched
<1>3. ASSUME NEW k \in Calls, Enqueue(k) \/ EnqueueFails(k) \/ GiveUpQueue(k) \/ DeadLetter(k)
      PROVE  LedgerInv'
  <2>1. /\ call[k].pc = "dispatch" /\ call'[k].pc \in {"dispatch", "record"}
        /\ call'[k].request = call[k].request
        /\ \A x \in Calls \ {k} : call'[x] = call[x]
    BY <1>1, <1>3 DEF Enqueue, EnqueueFails, GiveUpQueue, DeadLetter, Trying, At, Handling, New
  <2>2. UNCHANGED ledger /\ tickets \subseteq tickets'
    BY <1>3 DEF Enqueue, EnqueueFails, GiveUpQueue, DeadLetter
  <2> QED
    BY <1>1, <2>1, <2>2, LedgerUntouched
<1>4. ASSUME NEW k \in Calls, Record(k) PROVE LedgerInv'
  <2>1. CASE WithLedger
    BY <1>1, <1>4, <2>1, RowInserted DEF Record
  <2>2. CASE ~WithLedger
    <3>1. /\ call[k].pc = "record" /\ call'[k].pc = "return"
          /\ call'[k].request = call[k].request
          /\ \A x \in Calls \ {k} : call'[x] = call[x]
          /\ UNCHANGED <<ledger, tickets>>
      BY <1>1, <1>4, <2>2 DEF Record, At, Handling, New
    <3>2. \A x \in DOMAIN ledger : RowIsTrue(x, ledger[x])'
      <4> SUFFICES ASSUME NEW x \in DOMAIN ledger PROVE RowIsTrue(x, ledger[x])'
        OBVIOUS
      <4>1. x \in Calls /\ RowIsTrue(x, ledger[x])
        BY DEF LedgerInv, CallInv, TypeOK
      <4> QED
        BY <3>1, <4>1, RowKept
    <3> QED
      BY <1>1, <2>2, <3>1, <3>2 DEF LedgerInv
  <2> QED
    BY <2>1, <2>2
<1>5. ASSUME NEW k \in Calls, RecordFails(k) PROVE LedgerInv'
  <2>1. CASE Insert(k)
    BY <1>1, <1>5, <2>1, RowInserted DEF RecordFails
  <2>2. CASE UNCHANGED ledger
    <3>1. /\ call'[k].pc = "failed" /\ call'[k].request = call[k].request
          /\ \A x \in Calls \ {k} : call'[x] = call[x]
          /\ UNCHANGED tickets
      BY <1>1, <1>5 DEF RecordFails, At, Handling, New
    <3> QED
      BY <1>1, <2>2, <3>1, LedgerUntouched
  <2> QED
    BY <1>5, <2>1, <2>2 DEF RecordFails
<1>6. ASSUME NEW k \in Calls, Return(k) PROVE LedgerInv'
  <2>1. /\ call[k].pc = "return" /\ call'[k].pc = "done" /\ call'[k].request = call[k].request
        /\ \A x \in Calls \ {k} : call'[x] = call[x]
        /\ UNCHANGED <<ledger, tickets>>
    BY <1>1, <1>6 DEF Return, At, Handling, New
  <2> QED
    BY <1>1, <2>1, LedgerUntouched
<1>7. ASSUME NEW ref \in {t.ref : t \in tickets} \cup UnknownRefs,
             NEW status \in {"accepted", "resolved"}, UpdateStatus(ref, status)
      PROVE  LedgerInv'
  BY <1>1, <1>7, UpdateLedgerInv
<1>8. CASE Crash
  <2>1. UNCHANGED <<ledger, tickets>>
    BY <1>8 DEF Crash
  <2>2. \A k \in Calls : \/ call'[k] = call[k]
                         \/ call'[k].request = call[k].request /\ call'[k].pc = "failed"
    <3> SUFFICES ASSUME NEW k \in Calls, call[k].pc \notin {"new", "done", "failed"}
                 PROVE  call'[k].request = call[k].request /\ call'[k].pc = "failed"
      BY <1>8 DEF Crash
    <3>1. call'[k] = [call[k] EXCEPT !.pc = "failed"]
      BY <1>8 DEF Crash
    <3>2. call[k] \in Handling
      BY <1>1 DEF New
    <3> QED
      BY <3>1, <3>2 DEF Handling
  <2> QED
    BY <1>1, <2>1, <2>2, LedgerUntouched
<1>9. CASE UNCHANGED vars
  BY <1>1, <1>9, LedgerUntouched DEF vars
<1> QED
  BY <1>2, <1>3, <1>4, <1>5, <1>6, <1>7, <1>8, <1>9 DEF Next, Step

\* Where a support platform gives every ticket a ref, the audit trail is true: no order
\* of calls, updates, failures and deaths makes a row tell what is not so
\* (ledger.py:1-4). UnknownRefs = {} is what the code relies on: see handoff_null.
THEOREM AuditTrailIsTrue ==
    ASSUME UnknownRefs = {}
    PROVE  Spec => []LedgerIsTrue
<1>1. LedgerInv => LedgerIsTrue
  BY DEF LedgerInv, LedgerIsTrue, RowIsTrue
<1>2. LedgerInv /\ [Next]_vars => LedgerInv'
  BY LedgerInvNext
<1> QED
  BY <1>1, <1>2, LedgerInvInit, PTL DEF Spec

-----------------------------------------------------------------------------
(* The promise *)

Answered == {k \in Calls : At(k, "done")}

LEMMA LandedCalls ==
    ASSUME LedgerInv, WithLedger, NEW k \in Calls, call[k].pc \in {"return", "done"}
    PROVE  k \in Landed
<1>1. k \in DOMAIN ledger /\ RowIsTrue(k, ledger[k]) /\ k \in Started
  BY DEF LedgerInv, Started, At
<1> QED
  BY <1>1 DEF Landed, RowIsTrue

\* The promise's next-state relation over this module's state.
LEMMA StepKeepsPromise ==
    ASSUME UnknownRefs = {}, WithLedger, LedgerInv, [Next]_vars
    PROVE  \/ \E k \in Calls :
                 \/ Started' = Started \cup {k} /\ UNCHANGED <<Landed, Answered>>
                 \/ k \in Started /\ Landed' = Landed \cup {k} /\ UNCHANGED <<Started, Answered>>
                 \/ k \in Landed /\ Answered' = Answered \cup {k} /\ UNCHANGED <<Started, Landed>>
           \/ UNCHANGED <<Started, Landed, Answered>>
<1> DEFINE Promised ==
       \/ \E k \in Calls :
             \/ Started' = Started \cup {k} /\ UNCHANGED <<Landed, Answered>>
             \/ k \in Started /\ Landed' = Landed \cup {k} /\ UNCHANGED <<Started, Answered>>
             \/ k \in Landed /\ Answered' = Answered \cup {k} /\ UNCHANGED <<Started, Landed>>
       \/ UNCHANGED <<Started, Landed, Answered>>
<1>1. call \in [Calls -> Handling \cup {New}] /\ DOMAIN ledger \subseteq Calls
  BY DEF LedgerInv, CallInv, TypeOK
<1>2. ASSUME NEW k \in Calls, Raise(k) PROVE Promised
  <2>1. /\ At(k, "new") /\ At(k, "dispatch")' /\ UNCHANGED <<tickets, ledger>>
        /\ \A x \in Calls \ {k} : call'[x] = call[x]
    BY <1>1, <1>2 DEF Raise, At
  <2>2. TicketsOf(k) = {} /\ k \notin DOMAIN ledger
    BY <2>1 DEF LedgerInv, CallInv, At
  <2>3. Started' = Started \cup {k} /\ Answered' = Answered
    BY <2>1 DEF Started, Answered, At
  <2>4. Landed' = Landed
    BY <2>1, <2>2, <2>3 DEF Landed, TicketsOf
  <2> QED
    BY <2>3, <2>4
<1>3. ASSUME NEW k \in Calls, Step(k) PROVE Promised
  <2>1. /\ k \in Started /\ k \in Started'
        /\ \A x \in Calls \ {k} : call'[x] = call[x]
    BY <1>1, <1>3 DEF Step, Enqueue, EnqueueFails, GiveUpQueue, DeadLetter, Record, RecordFails,
                      Return, Trying, Started, At, Handling, New
  <2>2. Started' = Started
    BY <2>1 DEF Started, At
  <2>3. CASE ~Return(k)
    <3>1. /\ call[k].pc # "done" /\ call'[k].pc # "done"
      BY <1>1, <1>3, <2>3 DEF Step, Enqueue, EnqueueFails, GiveUpQueue, DeadLetter, Record,
                        RecordFails, Trying, At, Handling, New
    <3>2. Answered' = Answered
      BY <2>1, <3>1 DEF Answered, At
    <3>3. \A x \in Calls \ {k} : TicketsOf(x)' = TicketsOf(x)
      BY <1>3, <2>3 DEF Step, Enqueue, EnqueueFails, GiveUpQueue, DeadLetter, Record,
                        RecordFails, TicketsOf, Ticket
    <3>4. tickets \subseteq tickets'
      BY <1>3, <2>3 DEF Step, Enqueue, EnqueueFails, GiveUpQueue, DeadLetter, Record, RecordFails
    <3>5. \A x \in Calls \ {k} : /\ x \in DOMAIN ledger <=> x \in DOMAIN ledger'
                                 /\ x \in DOMAIN ledger => ledger'[x] = ledger[x]
      BY <1>3, <2>3 DEF Step, Enqueue, EnqueueFails, GiveUpQueue, DeadLetter, Record,
                        RecordFails, Insert
    <3>6. \A x \in Calls \ {k} : x \in Landed' <=> x \in Landed
      BY <2>2, <3>3, <3>5 DEF Landed
    <3>7. k \in Landed => k \in Landed'
      <4>1. k \notin DOMAIN ledger
        BY <1>3, <2>3 DEF Step, Enqueue, EnqueueFails, GiveUpQueue, DeadLetter, Record,
                          RecordFails, Trying, LedgerInv, At
      <4> QED
        BY <2>1, <3>4, <4>1 DEF Landed, TicketsOf
    <3>8. Landed \subseteq Calls /\ Landed' \subseteq Calls
      BY DEF Landed, Started
    <3>9. Landed' = Landed \/ Landed' = Landed \cup {k}
      BY <3>6, <3>7, <3>8
    <3> QED
      BY <2>1, <2>2, <3>2, <3>9
  <2>4. CASE Return(k)
    <3>1. /\ call[k].pc = "return" /\ call'[k].pc = "done" /\ UNCHANGED <<tickets, ledger>>
      BY <1>1, <2>4 DEF Return, At, Handling, New
    <3>2. k \in Landed
      BY <3>1, LandedCalls
    <3>3. Landed' = Landed
      BY <2>2, <3>1 DEF Landed, TicketsOf
    <3>4. Answered' = Answered \cup {k}
      BY <2>1, <3>1 DEF Answered, At
    <3> QED
      BY <2>2, <3>2, <3>3, <3>4
  <2> QED
    BY <2>3, <2>4
<1>4. ASSUME NEW ref \in {t.ref : t \in tickets} \cup UnknownRefs,
             NEW status \in {"accepted", "resolved"}, UpdateStatus(ref, status)
      PROVE  Promised
  <2>1. /\ UNCHANGED <<call, tickets>> /\ DOMAIN ledger' = DOMAIN ledger
    BY <1>4 DEF UpdateStatus, SetStatus
  <2>2. ref # NoTicket
    BY HandoffAssumption DEF LedgerInv, CallInv, TypeOK
  <2>3. \A k \in DOMAIN ledger :
           ledger'[k].status = "dead_lettered" <=> ledger[k].status = "dead_lettered"
    BY <1>4, <2>2 DEF UpdateStatus, SetStatus, LedgerInv, RowIsTrue
  <2>4. Started' = Started /\ Answered' = Answered
    BY <2>1 DEF Started, Answered, At
  <2>5. Landed' = Landed
    BY <2>1, <2>3, <2>4 DEF Landed, TicketsOf
  <2> QED
    BY <2>4, <2>5
<1>5. CASE Crash
  <2>1. UNCHANGED <<ledger, tickets>>
    BY <1>5 DEF Crash
  <2>2. \A k \in Calls : /\ call'[k].pc = "new" <=> call[k].pc = "new"
                         /\ call'[k].pc = "done" <=> call[k].pc = "done"
    <3> SUFFICES ASSUME NEW k \in Calls, call[k].pc \notin {"new", "done", "failed"}
                 PROVE  call'[k].pc = "failed"
      BY <1>5 DEF Crash
    <3>1. call'[k] = [call[k] EXCEPT !.pc = "failed"]
      BY <1>5 DEF Crash
    <3>2. call[k] \in Handling
      BY <1>1 DEF New
    <3> QED
      BY <3>1, <3>2 DEF Handling
  <2>3. Started' = Started /\ Answered' = Answered
    BY <2>2 DEF Started, Answered, At
  <2>4. Landed' = Landed
    BY <2>1, <2>3 DEF Landed, TicketsOf
  <2> QED
    BY <2>3, <2>4
<1>6. CASE UNCHANGED vars
  BY <1>6 DEF vars, Started, Landed, Answered, At, TicketsOf
<1> QED
  BY <1>2, <1>3, <1>4, <1>5, <1>6 DEF Next

\* With a ledger, and a ref on every ticket, the manager implements its promise: no
\* handoff is dropped silently, however many there are and whatever fails
\* (manager.py:1-4).
THEOREM ImplementsPromise ==
    ASSUME UnknownRefs = {}, WithLedger
    PROVE  Spec => NeverDropped
<1>1. Init => Promise!Init
  <2> SUFFICES ASSUME Init PROVE Promise!Init
    OBVIOUS
  <2>1. \A k \in Calls : call[k].pc = "new"
    BY DEF Init, New
  <2> QED
    BY <2>1 DEF Promise!Init, Started, Landed, At
<1>2. LedgerInv /\ [Next]_vars => [Promise!Next]_(Promise!vars)
  <2> SUFFICES ASSUME LedgerInv, [Next]_vars PROVE [Promise!Next]_(Promise!vars)
    OBVIOUS
  <2> QED
    BY StepKeepsPromise DEF Promise!Next, Promise!vars, Promise!Raise, Promise!Land,
                            Promise!Answer, Answered
<1>3. LedgerInv /\ [Next]_vars => LedgerInv'
  BY LedgerInvNext
<1> QED
  BY <1>1, <1>2, <1>3, LedgerInvInit, PTL DEF Spec, NeverDropped, Promise!Spec

=============================================================================
