--------------------------- MODULE CaptureDelivery ---------------------------
(***************************************************************************)
(* The capture SDK (A3 / M01) against the ingestion API:                   *)
(* services/event_pipeline/capture/client.py, buffer.py, session.py and    *)
(* transport.py. One client captures a customer's signals into its bounded *)
(* buffer and flushes the buffer now and then, while the portal posts      *)
(* events of its own to the same API.                                      *)
(***************************************************************************)
EXTENDS Ingestion, SequencesExt

CONSTANTS Analytics,     \* consent.analytics
          Signals,       \* the signals the customer gives: 1..n, in order, also their event ids
          MaxBuffer,     \* max_buffer
          PortalRequests, \* what else is posted: [endpoint, items]
          MaxPosts       \* bound: how often

ASSUME CaptureAssumption ==
    /\ Analytics \in BOOLEAN
    /\ Signals \in Nat /\ 1..Signals \subseteq Events
    /\ MaxBuffer \in Nat \ {0}
    /\ PortalRequests \subseteq [endpoint : {"events", "events:batch"}, items : Seq(Events) \ {<<>>}]
    /\ MaxPosts \in Nat

VARIABLES captured, \* how many signals were captured
          buffer,   \* EventBuffer._items
          posted,   \* how many requests the portal has sent
          dropped   \* history: <<event, why it left the buffer unsent or refused>>

clientVars == <<captured, buffer, posted, dropped>>

vars == <<serverVars, clientVars>>

Flushing == \E t \in Threads : thread[t] # Idle /\ thread[t].caller = "sdk"

\* Bug: the deque has no maxlen.
Added_unbounded(e) == Append(buffer, e)

\* Bug: a full buffer refuses the event.
Added_refused(e) == IF Len(buffer) = MaxBuffer THEN buffer ELSE Append(buffer, e)

\* deque(maxlen): the oldest item makes room.
Added(e) == IF Len(buffer) = MaxBuffer THEN Append(Tail(buffer), e) ELSE Append(buffer, e)

\* One of the detectors, C to H, sees a signal: the event has a new id. A flush in
\* another thread may be waiting for its answer.
Capture ==
    /\ Analytics /\ captured < Signals
    /\ captured' = captured + 1
    /\ buffer' = Added(captured')
    /\ dropped' = dropped \cup
          (IF Len(buffer) = MaxBuffer THEN {<<Head(buffer), "evicted">>} ELSE {})
    /\ UNCHANGED <<serverVars, posted>>

\* flush() posts a snapshot of the buffer and waits. An API that cannot be reached
\* leaves everything as it is.
Flush(t) ==
    /\ ~Flushing /\ buffer # <<>>
    /\ Receive(t, "sdk", "events:batch", buffer)
    /\ UNCHANGED clientVars

\* The items the acknowledgement lists as neither accepted nor duplicates.
Failed(t) ==
    {thread[t].items[i] : i \in {j \in DOMAIN thread[t].results :
                                    thread[t].results[j] \notin {"accepted", "duplicate"}}}

\* The answer arrives: a 2xx clears the buffer, whatever it says of the items and
\* whatever has been captured since the snapshot; anything else keeps it.
Acknowledge(t) ==
    /\ thread[t].pc \in {"answer", "error"} /\ thread[t].caller = "sdk"
    /\ thread' = [thread EXCEPT ![t] = Idle]
    /\ IF StatusOf(t) = "202"
       THEN /\ buffer' = <<>>
            /\ dropped' = dropped \cup (Failed(t) \X {"refused"})
                          \cup ((ToSet(buffer) \ ToSet(thread[t].items)) \X {"overtaken"})
       ELSE UNCHANGED <<buffer, dropped>>
    /\ UNCHANGED <<stored, windows, clock, faults, calls, captured, posted>>

\* The client gives up after its timeout, or the connection breaks; the server does
\* not notice.
Timeout(t) ==
    /\ thread[t] # Idle /\ thread[t].caller = "sdk" /\ faults < MaxFaults
    /\ faults' = faults + 1
    /\ thread' = [thread EXCEPT ![t].caller = "gone"]
    /\ UNCHANGED <<stored, windows, clock, calls, clientVars>>

Post(t) ==
    /\ posted < MaxPosts
    /\ posted' = posted + 1
    /\ \E r \in PortalRequests : Receive(t, "portal", r.endpoint, r.items)
    /\ UNCHANGED <<captured, buffer, dropped>>

\* Nobody in this system acts on the portal's answers.
Answer(t) ==
    /\ thread[t].pc \in {"answer", "error"} /\ thread[t].caller # "sdk"
    /\ thread' = [thread EXCEPT ![t] = Idle]
    /\ UNCHANGED <<stored, windows, clock, faults, calls, clientVars>>

-----------------------------------------------------------------------------

Init ==
    /\ ServerInit
    /\ captured = 0 /\ buffer = <<>> /\ posted = 0 /\ dropped = {}

Next ==
    \/ Capture
    \/ \E t \in Threads :
          \/ Flush(t) \/ Acknowledge(t) \/ Timeout(t) \/ Post(t) \/ Answer(t)
          \/ (ServerStep(t) \/ WriteFails(t)) /\ UNCHANGED clientVars
    \/ (ServerCrash \/ Tick) /\ UNCHANGED clientVars

Spec == Init /\ [][Next]_vars

\* Somebody flushes again and again ("retried on the next flush", client.py:127),
\* and the server's threads are not starved. Faults are finitely many.
Fairness ==
    /\ WF_vars(\E t \in Threads : Flush(t))
    /\ \A t \in Threads : WF_vars(Acknowledge(t) \/ Answer(t))
                          /\ WF_vars(ServerStep(t) /\ UNCHANGED clientVars)

LiveSpec == Spec /\ Fairness

-----------------------------------------------------------------------------
(* Properties *)

TypeOK ==
    /\ ServerType
    /\ captured \in 0..Signals
    /\ buffer \in Seq(1..captured) /\ Len(buffer) <= MaxBuffer
    /\ posted \in 0..MaxPosts
    /\ dropped \subseteq (1..captured) \X {"evicted", "refused", "overtaken"}

\* "On a transport failure the buffer is KEPT ... so no event is lost" (client.py:119):
\* through failures half-way, timeouts whose request goes on, retries that overlap it
\* and crashes, an event that is gone is stored, or left for one of three reasons: a
\* full buffer, an item the API refused, a capture while the flush was waiting.
NothingVanishes ==
    \A e \in 1..captured :
        e \in ToSet(buffer) \cup stored \cup {d[1] : d \in dropped}

\* The oldest go first and a retry sends them in order: the buffer always holds the
\* most recent captures, without a gap (buffer.py:1-3).
NewestKept == \A i \in DOMAIN buffer : buffer[i] = captured - Len(buffer) + i

\* Though its threads overwrite each other's counts, the limiter refuses a customer
\* only when more than the limit were counted in a period of the window's length:
\* lost updates, evictions and restarts err in the customer's favour.
RefusedOverLimit ==
    [][\A t \in Threads :
          /\ thread[t] # Idle /\ thread'[t] # Idle
          /\ thread'[t].results = Append(thread[t].results, "rate_limited")
          => \E start \in 0..MaxTime : Cardinality(CallsIn(Customer(t), start)) > Limit]_vars

\* The buffer empties again and again, whatever the outage and however the retries go.
BufferDrains == []<>(buffer = <<>>)

\* What client.py:119 says of an outage: the items a retry was refused are stored.
RetryLosesNothing ==
    \A e \in 1..captured : <<e, "refused">> \in dropped => e \in stored

=============================================================================
