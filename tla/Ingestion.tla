----------------------------- MODULE Ingestion -----------------------------
(***************************************************************************)
(* The ingestion API (A4): services/event_pipeline/ingestion/router.py,    *)
(* service.py, ratelimit.py, auth.py and schemas.py, wired by main.py.     *)
(*                                                                         *)
(* FastAPI runs its handlers on a pool of threads. The threads share the   *)
(* rate limiter's dictionary, which no lock guards, and the event store,   *)
(* whose write_event is one step here: EventStore has its statements.      *)
(***************************************************************************)
EXTENDS Integers, Sequences, FiniteSets

CONSTANTS Events,     \* event ids
          Customers,
          CustomerOf, \* the customer_id in each event's body
          Malformed,  \* the events that Event.model_validate refuses
          Verified,   \* the customer the principal is bound to: a set of one, {} for None
          Threads,    \* of the server's pool, numbered
          Limit,      \* ingest_rate_limit_per_min; 0 for none
          Window,     \* the 60 seconds of a window
          EvictAfter, \* _EVICT_AFTER_S
          Capacity,   \* the 1024 windows that are kept without evicting
          MaxTime,    \* bound: the instants of the run
          MaxFaults   \* bound: failing statements and loops, lost answers and deaths

ASSUME IngestionAssumption ==
    /\ CustomerOf \in [Events -> Customers]
    /\ Malformed \subseteq Events /\ Verified \subseteq Customers
    /\ Threads \subseteq Int
    /\ Limit \in Nat /\ Window \in Nat \ {0} /\ EvictAfter \in Nat /\ Capacity \in Nat
    /\ MaxTime \in Nat /\ MaxFaults \in Nat

VARIABLES stored,  \* the ids in the `events` table
          windows, \* the limiter's _windows: customer -> [start, count]
          thread,  \* thread -> the request it serves
          clock,   \* time.monotonic()
          faults,
          calls    \* history: customer -> when allow() was called for it

serverVars == <<stored, windows, thread, clock, faults, calls>>

Outcome == {"accepted", "duplicate", "invalid", "identity_conflict", "rate_limited"}

Window0 == [start : 0..MaxTime, count : Nat]

Idle == [pc |-> "idle"]

\* `results` answers the first items; `seen` is what allow() works on, at the time
\* `now`; `stale` what _evict is about to delete.
Request == [pc : {"item", "count", "evict", "delete", "write", "answer", "error"},
            caller : {"sdk", "portal", "gone"}, endpoint : {"events", "events:batch"},
            items : Seq(Events), results : Seq(Outcome), seen : Window0,
            now : 0..MaxTime, stale : SUBSET Customers]

Nothing == [start |-> 0, count |-> 0]

\* A request gets a thread. The threads are alike: let it be the first that is idle.
Receive(t, caller, endpoint, items) ==
    /\ thread[t] = Idle /\ \A other \in Threads : thread[other] = Idle => t <= other
    /\ thread' = [thread EXCEPT ![t] =
          [pc |-> "item", caller |-> caller, endpoint |-> endpoint, items |-> items,
           results |-> <<>>, seen |-> Nothing, now |-> 0, stale |-> {}]]
    /\ UNCHANGED <<stored, windows, clock, faults, calls>>

At(t, pc) == thread[t].pc = pc

Current(t) == thread[t].items[Len(thread[t].results) + 1]

Customer(t) == CustomerOf[Current(t)]

Goto(t, pc) == thread' = [thread EXCEPT ![t].pc = pc]

\* allow() is over, and its variables with it.
After(request, pc) == [request EXCEPT !.pc = pc, !.seen = Nothing, !.now = 0, !.stale = {}]

\* The item is done with; the loop goes on, or the request is answered.
Result(t, outcome) ==
    LET more == Len(thread[t].results) + 1 < Len(thread[t].items)
        next == After(thread[t], IF more THEN "item" ELSE "answer")
    IN  thread' = [thread EXCEPT ![t] = [next EXCEPT !.results = Append(@, outcome)]]

-----------------------------------------------------------------------------
(* ingest(), item by item *)

IdentityConflict(c) == \E v \in Verified : v # c

\* The status of the answer: a batch is 202 whatever its items were; a single event
\* has its outcome's status. An exception, "error", is 503 or 500.
StatusOf(t) ==
    LET outcome == thread[t].results[1]
    IN  IF At(t, "error") THEN "503"
        ELSE IF thread[t].endpoint = "events:batch" THEN "202"
        ELSE CASE outcome = "identity_conflict" -> "409"
               [] outcome = "rate_limited" -> "429"
               [] outcome = "invalid" -> "422"
               [] OTHER -> "202"

Refuse(t) ==
    /\ At(t, "item")
    /\ \/ Current(t) \in Malformed /\ Result(t, "invalid")
       \/ /\ Current(t) \notin Malformed /\ IdentityConflict(Customer(t))
          /\ Result(t, "identity_conflict")
    /\ UNCHANGED <<stored, windows, clock, faults, calls>>

\* Bug: a window never ends.
FreshWindow_endless(c) ==
    IF c \in DOMAIN windows THEN windows[c] ELSE [start |-> clock, count |-> 0]

\* The window of customer c, or a fresh one when there is none or it is over.
FreshWindow(c) ==
    IF c \in DOMAIN windows /\ clock - windows[c].start < Window
    THEN windows[c] ELSE [start |-> clock, count |-> 0]

\* allow() reads the window. Without a limit, NoRateLimit lets everything through.
ReadWindow(t) ==
    /\ At(t, "item")
    /\ Current(t) \notin Malformed /\ ~IdentityConflict(Customer(t))
    /\ IF Limit = 0
       THEN Goto(t, "write") /\ UNCHANGED calls
       ELSE /\ thread' = [thread EXCEPT ![t].pc = "count", ![t].now = clock,
                                           ![t].seen = FreshWindow(Customer(t))]
            /\ calls' = [calls EXCEPT ![Customer(t)] = Append(@, clock)]
    /\ UNCHANGED <<stored, windows, clock, faults>>

\* An exception: nothing of the request but its caller matters any more.
Fail(t) == thread' = [thread EXCEPT ![t] = After(@, "error")]

\* allow() returns, having counted up to n.
Verdict(t, n) ==
    IF n > Limit THEN Result(t, "rate_limited")
    ELSE thread' = [thread EXCEPT ![t] = After(@, "write")]

\* It writes the window back, a refused call counted like the others.
CountCall(t) ==
    LET seen == [thread[t].seen EXCEPT !.count = @ + 1]
    IN  /\ At(t, "count")
        /\ windows' = [c \in DOMAIN windows \cup {Customer(t)} |->
                          IF c = Customer(t) THEN seen ELSE windows[c]]
        /\ IF Cardinality(DOMAIN windows') > Capacity
           THEN Goto(t, "evict") ELSE Verdict(t, seen.count)
        /\ UNCHANGED <<stored, clock, faults, calls>>

\* _evict looks for the windows to drop. Another thread that is inside allow() may
\* change the dictionary under the loop, which then raises.
Evict(t) ==
    /\ At(t, "evict")
    /\ \/ /\ thread' = [thread EXCEPT ![t].pc = "delete", ![t].stale =
                          {c \in DOMAIN windows : thread[t].now - windows[c].start >= EvictAfter}]
          /\ UNCHANGED faults
       \/ /\ \E other \in Threads \ {t} : thread[other].pc \in {"count", "delete"}
          /\ faults < MaxFaults
          /\ faults' = faults + 1
          /\ Fail(t)
    /\ UNCHANGED <<stored, windows, clock, calls>>

Without(keys) == [c \in DOMAIN windows \ keys |-> windows[c]]

\* Bug: it evicts until the windows are few enough again.
DeleteStale_untilFits(t) ==
    /\ At(t, "delete") /\ thread[t].stale \subseteq DOMAIN windows
    /\ windows' = Without(thread[t].stale)
    /\ IF Cardinality(DOMAIN windows') > Capacity
       THEN Goto(t, "evict") ELSE Verdict(t, thread[t].seen.count + 1)
    /\ UNCHANGED <<stored, clock, faults, calls>>

\* It drops them; one that another thread has dropped meanwhile is a KeyError.
DeleteStale(t) ==
    /\ At(t, "delete")
    /\ IF thread[t].stale \subseteq DOMAIN windows
       THEN windows' = Without(thread[t].stale) /\ Verdict(t, thread[t].seen.count + 1)
       ELSE /\ \E some \in SUBSET thread[t].stale : windows' = Without(some)
            /\ Fail(t)
    /\ UNCHANGED <<stored, clock, faults, calls>>

WriteEvent(t) ==
    /\ At(t, "write")
    /\ stored' = stored \cup {Current(t)}
    /\ Result(t, IF Current(t) \in stored THEN "duplicate" ELSE "accepted")
    /\ UNCHANGED <<windows, clock, faults, calls>>

\* Bug: the failure is noted as one item's result and the batch goes on.
WriteFails_swallowed(t) ==
    /\ At(t, "write") /\ faults < MaxFaults
    /\ faults' = faults + 1
    /\ stored' \in {stored, stored \cup {Current(t)}}
    /\ Result(t, "duplicate")
    /\ UNCHANGED <<windows, clock, calls>>

\* A SQLAlchemyError, with the commit done or not, ends the whole request; the items
\* before it stay stored, and counted.
WriteFails(t) ==
    /\ At(t, "write") /\ faults < MaxFaults
    /\ faults' = faults + 1
    /\ stored' \in {stored, stored \cup {Current(t)}}
    /\ Fail(t)
    /\ UNCHANGED <<windows, clock, calls>>

-----------------------------------------------------------------------------

ServerInit ==
    /\ stored = {}
    /\ windows = [c \in {} |-> {}]
    /\ thread = [t \in Threads |-> Idle]
    /\ clock = 0
    /\ faults = 0
    /\ calls = [c \in Customers |-> <<>>]

ServerStep(t) ==
    \/ Refuse(t) \/ ReadWindow(t) \/ CountCall(t) \/ Evict(t)
    \/ DeleteStale(t) \/ WriteEvent(t)

\* The process dies and starts again: its requests and its windows are gone.
ServerCrash ==
    /\ faults < MaxFaults
    /\ faults' = faults + 1
    /\ thread' = [t \in Threads |-> Idle]
    /\ windows' = [c \in {} |-> {}]
    /\ UNCHANGED <<stored, clock, calls>>

Tick ==
    /\ clock < MaxTime
    /\ clock' = clock + 1
    /\ UNCHANGED <<stored, windows, thread, faults, calls>>

ServerType ==
    /\ stored \subseteq Events
    /\ DOMAIN windows \subseteq Customers
    /\ windows \in [DOMAIN windows -> Window0]
    /\ thread \in [Threads -> Request \cup {Idle}]
    /\ clock \in 0..MaxTime
    /\ faults \in 0..MaxFaults
    /\ calls \in [Customers -> Seq(0..MaxTime)]

\* The calls of allow() for customer c in the window that starts at `start`.
CallsIn(c, start) == {i \in DOMAIN calls[c] : calls[c][i] - start \in 0..(Window - 1)}

=============================================================================
