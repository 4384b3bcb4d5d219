------------------------------ MODULE Handoff ------------------------------
(***************************************************************************)
(* The human handoff manager (A8 / M07): services/event_pipeline/handoff.  *)
(* manager.py routes a handoff, tries its queues and records what came of  *)
(* it; ledger.py keeps the record, which the agents' tools update while    *)
(* other handoffs are under way. The support platform behind the adapter   *)
(* may refuse a ticket, or take it and lose the answer.                    *)
(***************************************************************************)
EXTENDS Naturals, FiniteSets, Sequences

CONSTANTS Calls,       \* the calls of handle() there may be
          Requests,    \* [conversation, context]: HandoffRequests, with context_of()'s dict as pairs
          Rules,       \* the routing rules: [match, queue, fallback_queue], in order
          MaxAttempts, \* max_attempts, per queue
          WithLedger,  \* whether the manager was given a ledger
          NoTicket,    \* ticket_ref None
          UnknownRefs, \* other refs the agents' tools may pass: {} or {NoTicket}
          MaxFaults    \* bound: failing INSERTs and deaths of the process

ASSUME HandoffAssumption ==
    /\ \A r \in Requests : DOMAIN r = {"conversation", "context"} /\ IsFiniteSet(r.context)
    /\ MaxAttempts \in Nat /\ MaxFaults \in Nat
    /\ WithLedger \in BOOLEAN
    /\ NoTicket \notin Nat /\ UnknownRefs \subseteq {NoTicket}

VARIABLES call,    \* call -> where handle() is
          tickets, \* what the queues hold: [ref, conversation, queue, by], `by` a history field
          dead,    \* the dead letters: in memory, by default
          ledger,  \* the `handoffs` table: call -> its row
          faults

vars == <<call, tickets, dead, ledger, faults>>

-----------------------------------------------------------------------------
(* routing.py *)

NoRule == [match |-> {}, queue |-> "", fallback_queue |-> ""]

\* The first rule whose every key the context has, with that value.
RouteFor(context) ==
    LET matching == SelectSeq(Rules, LAMBDA rule : rule.match \subseteq context)
    IN  IF matching = <<>> THEN NoRule ELSE Head(matching)

OrGeneral(queue) == IF queue = "" THEN "general" ELSE queue

Primary(request) == OrGeneral(RouteFor(request.context).queue)

Fallback(request) == OrGeneral(RouteFor(request.context).fallback_queue)

-----------------------------------------------------------------------------
(* HandoffManager.handle() *)

Attempt(queue, status) == [queue |-> queue, status |-> status]

\* The queues to try. Without an agent the primary one is passed over, and when both
\* are the same it is tried once.
Attempts(request, available) ==
    (IF available THEN <<Attempt(Primary(request), "routed")>> ELSE <<>>)
    \o (IF ~available \/ Fallback(request) # Primary(request)
        THEN <<Attempt(Fallback(request), "fallback")>> ELSE <<>>)

Queues == {Primary(r) : r \in Requests} \cup {Fallback(r) : r \in Requests}

New == [pc |-> "new"]

\* `attempts` are the queues not given up yet, `tries` those made at the first of
\* them; `lost` counts the answers that were lost.
Handling == [pc : {"dispatch", "record", "return", "done", "failed"}, request : Requests,
             attempts : Seq([queue : Queues, status : {"routed", "fallback"}]),
             tries : 0..MaxAttempts, ticket : Nat \cup {NoTicket}, lost : Nat]

At(k, pc) == call[k].pc = pc

Raise(k) ==
    /\ At(k, "new")
    /\ \E request \in Requests, available \in BOOLEAN :
          call' = [call EXCEPT ![k] =
              [pc |-> "dispatch", request |-> request, attempts |-> Attempts(request, available),
               tries |-> 0, ticket |-> NoTicket, lost |-> 0]]
    /\ UNCHANGED <<tickets, dead, ledger, faults>>

\* The loop of _dispatch has a try left.
Trying(k) == At(k, "dispatch") /\ call[k].attempts # <<>> /\ call[k].tries < MaxAttempts

NewRef == Cardinality(tickets) + 1

Ticket(k) ==
    [ref |-> NewRef, conversation |-> call[k].request.conversation,
     queue |-> Head(call[k].attempts).queue, by |-> k]

\* Bug: the loop goes on after a success.
Enqueue_goesOn(k) ==
    /\ Trying(k)
    /\ tickets' = tickets \cup {Ticket(k)}
    /\ call' = [call EXCEPT ![k].tries = @ + 1, ![k].ticket = NewRef]
    /\ UNCHANGED <<dead, ledger, faults>>

Enqueue(k) ==
    /\ Trying(k)
    /\ tickets' = tickets \cup {Ticket(k)}
    /\ call' = [call EXCEPT ![k].pc = "record", ![k].ticket = NewRef]
    /\ UNCHANGED <<dead, ledger, faults>>

\* Bug: one try too many.
EnqueueFails_onceMore(k) ==
    /\ At(k, "dispatch") /\ call[k].attempts # <<>> /\ call[k].tries <= MaxAttempts
    /\ call' = [call EXCEPT ![k].tries = @ + 1]
    /\ UNCHANGED <<tickets, dead, ledger, faults>>

\* The queue refuses, or takes the ticket and then the exception comes.
EnqueueFails(k) ==
    /\ Trying(k)
    /\ \/ /\ call' = [call EXCEPT ![k].tries = @ + 1]
          /\ UNCHANGED tickets
       \/ /\ call' = [call EXCEPT ![k].tries = @ + 1, ![k].lost = @ + 1]
          /\ tickets' = tickets \cup {Ticket(k)}
    /\ UNCHANGED <<dead, ledger, faults>>

\* Bug: the last queue is waited for.
GiveUpQueue_unlessLast(k) ==
    /\ At(k, "dispatch") /\ Len(call[k].attempts) > 1 /\ call[k].tries = MaxAttempts
    /\ call' = [call EXCEPT ![k].attempts = Tail(@), ![k].tries = 0]
    /\ UNCHANGED <<tickets, dead, ledger, faults>>

\* _dispatch returns None.
GiveUpQueue(k) ==
    /\ At(k, "dispatch") /\ call[k].attempts # <<>> /\ call[k].tries = MaxAttempts
    /\ call' = [call EXCEPT ![k].attempts = Tail(@), ![k].tries = 0]
    /\ UNCHANGED <<tickets, dead, ledger, faults>>

DeadLetter(k) ==
    /\ At(k, "dispatch") /\ call[k].attempts = <<>>
    /\ dead' = dead \cup {k}
    /\ call' = [call EXCEPT ![k].pc = "record"]
    /\ UNCHANGED <<tickets, ledger, faults>>

\* Where the handoff ended up: in the queue that took it, or, dead, for the primary.
Outcome(k) ==
    IF call[k].attempts = <<>>
    THEN Attempt(Primary(call[k].request), "dead_lettered")
    ELSE Head(call[k].attempts)

Row(k) ==
    [conversation |-> call[k].request.conversation, queue |-> Outcome(k).queue,
     ticket_ref |-> call[k].ticket, status |-> Outcome(k).status]

Insert(k) == ledger' = [x \in DOMAIN ledger \cup {k} |-> IF x = k THEN Row(k) ELSE ledger[x]]

\* Bug: a dead letter is not put on record.
Record_ticketsOnly(k) ==
    /\ At(k, "record")
    /\ IF WithLedger /\ call[k].ticket # NoTicket THEN Insert(k) ELSE UNCHANGED ledger
    /\ call' = [call EXCEPT ![k].pc = "return"]
    /\ UNCHANGED <<tickets, dead, faults>>

Record(k) ==
    /\ At(k, "record")
    /\ IF WithLedger THEN Insert(k) ELSE UNCHANGED ledger
    /\ call' = [call EXCEPT ![k].pc = "return"]
    /\ UNCHANGED <<tickets, dead, faults>>

\* The INSERT raises, done or not, and handle() with it.
RecordFails(k) ==
    /\ At(k, "record") /\ WithLedger /\ faults < MaxFaults
    /\ faults' = faults + 1
    /\ Insert(k) \/ UNCHANGED ledger
    /\ call' = [call EXCEPT ![k].pc = "failed"]
    /\ UNCHANGED <<tickets, dead>>

Return(k) ==
    /\ At(k, "return")
    /\ call' = [call EXCEPT ![k].pc = "done"]
    /\ UNCHANGED <<tickets, dead, ledger, faults>>

-----------------------------------------------------------------------------
(* Around the manager *)

SetStatus(rows, status) ==
    /\ rows # {}
    /\ ledger' = [k \in DOMAIN ledger |->
                     IF k \in rows THEN [ledger[k] EXCEPT !.status = status] ELSE ledger[k]]
    /\ UNCHANGED <<call, tickets, dead, faults>>

\* Bug: the row is looked up by the conversation.
UpdateStatus_byConversation(ref, status) ==
    SetStatus({k \in DOMAIN ledger : \E t \in tickets : /\ t.ref = ref
                                                        /\ t.conversation = ledger[k].conversation},
              status)

\* An agent's tool moves the rows of a ticket: in any order, and as soon as the queue
\* has it. With no row to move update_status returns False. `ticket_ref == None` is
\* IS NULL to SQLAlchemy, so that None finds the rows that have no ticket.
UpdateStatus(ref, status) == SetStatus({k \in DOMAIN ledger : ledger[k].ticket_ref = ref}, status)

\* The process dies, its calls with it; the dead letters were in its memory.
Crash ==
    /\ faults < MaxFaults
    /\ faults' = faults + 1
    /\ dead' = {}
    /\ call' = [k \in Calls |-> IF call[k].pc \in {"new", "done", "failed"} THEN call[k]
                                ELSE [call[k] EXCEPT !.pc = "failed"]]
    /\ UNCHANGED <<tickets, ledger>>

-----------------------------------------------------------------------------

Init ==
    /\ call = [k \in Calls |-> New]
    /\ tickets = {}
    /\ dead = {}
    /\ ledger = [k \in {} |-> {}]
    /\ faults = 0

Step(k) ==
    \/ Enqueue(k) \/ EnqueueFails(k) \/ GiveUpQueue(k) \/ DeadLetter(k)
    \/ Record(k) \/ RecordFails(k) \/ Return(k)

Next ==
    \/ \E k \in Calls : Raise(k) \/ Step(k)
    \/ \E ref \in {t.ref : t \in tickets} \cup UnknownRefs, status \in {"accepted", "resolved"} :
          UpdateStatus(ref, status)
    \/ Crash

Spec == Init /\ [][Next]_vars

\* handle() is a sequential call: it goes on unless its process dies.
Fairness == \A k \in Calls : WF_vars(Step(k))

LiveSpec == Spec /\ Fairness

-----------------------------------------------------------------------------
(* Properties *)

TypeOK ==
    /\ call \in [Calls -> Handling \cup {New}]
    /\ \A k \in Calls : ~At(k, "new") => Len(call[k].attempts) <= 2
    /\ \A t \in tickets : t.ref \in 1..Cardinality(tickets) /\ t.by \in Calls
    /\ dead \subseteq Calls
    /\ DOMAIN ledger \subseteq Calls
    /\ faults \in 0..MaxFaults

TicketsOf(k) == {t \in tickets : t.by = k}

Started == {k \in Calls : ~At(k, "new")}

\* A ticket in some queue, or the ledger's row, which unlike the dead letter itself
\* outlives the process.
Landed ==
    {k \in Started : TicketsOf(k) # {} \/ (k \in DOMAIN ledger /\ ledger[k].status = "dead_lettered")}

Promise == INSTANCE HandoffPromise
    WITH raised <- Started, landed <- Landed, answered <- {k \in Calls : At(k, "done")}

\* "never drop it silently" (manager.py:1-4): lost answers, failing queues, agents'
\* updates and crashes notwithstanding, the manager implements the promise.
NeverDropped == Promise!Spec

\* The audit trail is true (ledger.py:1-4): a row's ticket is in the row's queue and
\* of its conversation, and a fresh row's status and queue are those its rule gives.
\* Only a dead-lettered row has no ticket, and it stays so whatever the agents report.
LedgerIsTrue ==
    \A k \in DOMAIN ledger :
        LET row == ledger[k]
        IN  /\ row.ticket_ref = NoTicket <=> row.status = "dead_lettered"
            /\ row.ticket_ref # NoTicket =>
                  \E t \in TicketsOf(k) : /\ t.ref = row.ticket_ref /\ t.queue = row.queue
                                          /\ t.conversation = row.conversation
            /\ row.status = "routed" => row.queue = Primary(call[k].request)
            /\ row.status = "fallback" => row.queue = Fallback(call[k].request)

\* An agent meets a handoff once, and again only for an answer that was lost; the
\* ticket that handle() knows of is one of them (manager.py:88-94).
SparesExplained ==
    \A k \in Started :
        Cardinality(TicketsOf(k)) = call[k].lost + (IF call[k].ticket = NoTicket THEN 0 ELSE 1)

\* However the queues fail, handle() comes to an end: with a ticket, with a dead
\* letter, or with an exception that a fault explains.
HandlingEnds ==
    \A k \in Calls : At(k, "dispatch") ~> (At(k, "done") \/ (At(k, "failed") /\ faults > 0))

\* "unknown/null ticket_ref -> False" (ledger.py:34-35): a row without a ticket is not
\* moved by any update_status.
NullMovesNothing ==
    [][\A k \in DOMAIN ledger : ledger[k].ticket_ref = NoTicket => ledger'[k] = ledger[k]]_ledger

=============================================================================
