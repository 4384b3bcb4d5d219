# Specifications of the Hertz chatbot

TLA+ models of the event pipeline under `src/services/event_pipeline`, the part of
the repository that carries its own protocols (how a customer's events are captured,
stored, handed to a stream, matched against triggers, held to frequency caps,
deferred, turned into engagements and handed to humans), and of the reference rules,
scripted conversations and prices under `src/generator` that the chatbot's sessions
run on. Each module is checked by TLC on small instances; every safety and action
property of the passing runs is also proved with TLAPS, for every instance. The
liveness properties are model-checked.

## The system

A browser SDK (capture) posts a customer's events to the ingestion API, which
writes them to the event store. The store keeps an append-only `events` table and
a transactional outbox; a relay copies the outbox to the Redis stream
`events:in`. A consumer reads the stream and gives each event to the trigger
evaluator, which matches it against the rules. Deferred matches go to the pending
queue; in-session matches go to the frequency engine, which allows at most one of
them within the caps and records it in the `engagements` ledger as `reserved`.
An approved engagement becomes a `FireMessage` to the conversation orchestrator
(M08, not in this repository), which later confirms the reservation or rolls it
back. When a customer logs in, the pending scheduler puts that customer's deferred
matches through the same engine. In the session an LLM drafts messages, whose claims
are verified against a booking API before they are delivered. The handoff manager
routes conversations to human queues.

| Component | State | Operations | Interacts with |
|---|---|---|---|
| Capture SDK (`capture/`) | bounded buffer, session | `capture`, `flush`, `start_session` | posts to ingestion |
| Ingestion (`ingestion/`) | rate-limit windows, in memory | `ingest`, `ingest_batch`, `allow` | calls `write_event` |
| Event store (`store/store.py`) | `events`, `event_outbox` | `write_event`, reads | called by ingestion and relay |
| Relay (`store/relay.py`) | the batch in hand | `run_once` | outbox to Redis stream |
| Consumer, evaluator (`triggers/`) | seen event ids, in memory | `run_once`, `evaluate` | stream, engine, pending queue, M08 |
| Engine (`frequency/`) | `engagements`, locks in memory | `reserve`, `confirm`, `rollback` | called by evaluator, scheduler, M08 |
| Pending queue (`pending/`) | `pending_engagements` | `enqueue`, `on_login`, `expire_due`, `reconcile_stuck` | engine, M08, Celery Beat |
| Handoff (`handoff/`) | `handoffs`, dead letters in memory | `handle`, `update_status` | support queue adapters, agents' tools |
| Session (`tests/runner.py`, `generator/reference.py`, `mocks/`) | draft, answers, transcript | draft, verify, deliver | LLM, booking API, HS-103 |
| Conversations, golden scenarios (`generator/intents.py`, `scenarios.py`) | none | paths, replies, evaluator | played in sessions |
| World, bookings, fees (`generator/world.py`, `customers.py`, `catalogues.py`, `durations.py`) | none | rate cards, prices, fees | read by sessions and disputes |

What is hard in it, and what makes each part correct:

- **Engine.** `reserve()` counts rows, decides, and inserts in separate
  transactions, under a lock in its process's memory, while M08's calls take no
  lock. `now` is the event's own timestamp, so calls do not come in the order of
  their times. Correct means: no window of a cap's length ever holds more counted
  engagements than the cap, no two lie within the cooldown, a settled reservation
  stays settled, a reservation is stranded only by an interruption of the call that
  holds it, a lock always comes free.
- **Store and relay.** Concurrent writers race for one event id; outbox ids are
  given out before the commit; the relay can die between publishing and marking.
  Correct means: event and outbox row together or not at all, nothing marked
  before it is delivered, everything stored delivered in the end.
- **Pending queue.** Logins overlap each other and the expiry sweep, status updates
  carry no condition, any statement may raise, and the default lock excludes nobody.
  Correct means: an entry fires at most once and in its window, is lost only by an
  interruption of the call that holds it, and leaves the queue in the end.
- **Evaluator and consumer.** An event is marked as seen before it is processed,
  in memory; entries read and not acknowledged are not read again.
- **Capture and ingestion.** The client clears its buffer for a 2xx whatever the
  answer says of the items; its timeout does not stop the server; the limiter's
  dictionary is shared by threads without a lock, its eviction too. Correct means:
  an event that leaves the buffer is stored or its loss has one of three known
  reasons, and nobody below the limit is refused.
- **Handoff.** A queue may take a ticket and lose the answer; the INSERT that
  records it may fail; dead letters live in memory; agents update tickets in any
  order. Correct means: no handoff is dropped, the record is true, spare tickets are
  explained.
- **Session.** The booking API may fail on one claim and answer the next; claims are
  corrected one after another in one text; a customer's later turn replaces what an
  earlier one said. Correct means: the customer reads no claim that was not checked,
  and what is booked is what was quoted last.

`PROJECT.json` lists these hazards one by one, at the line where each one bites.

## The modules

| Module | Models |
|---|---|
| `EngagementLedger` | the `engagements` table, its queries and writes, `would_fire`; states the cap properties |
| `EngagementCap` | abstract: the engine as one indivisible check-and-insert |
| `Precedence` | `_sort_key` and `choose_winner` |
| `FrequencyEngine` | `reserve()` step by step, the locks, `confirm`, `rollback`, crashes, failing calls; implements `EngagementCap` |
| `AtomicReserve` | `reserve()` as one step with its arbitration, for the modules that call it |
| `EventHandover` | abstract: events stored once, delivered at least once |
| `EventStore` | `write_event` statement by statement, the outbox, the relay; implements `EventHandover` |
| `Ingestion` | both endpoints on a pool of threads, item by item; the limiter's unlocked steps |
| `CaptureDelivery` | the SDK's buffer, flushes, timeouts; composed with `Ingestion` |
| `RuleDsl` | the rules' predicates: operators, absent fields, what raises |
| `TriggerConsumer` | the consumer group, `run_once` and `evaluate` step by step, the idempotency guard |
| `PendingScheduler` | the queue, `on_login` statement by statement with either lock, failing statements, the Celery tasks |
| `HandoffPromise` | abstract: no handoff is answered before it has landed |
| `Handoff` | routing, retries, fallback, dead letters, the record, the agents' updates; implements `HandoffPromise` |
| `Verification` | M10: claims, `BookingAPIMock.verify`, `apply_verification`; `decide_llm`, `fallback_message`, `terminal_state` |
| `Conversations` | the 17 conversation trees, their paths, the reply source, the evaluator, final slots |
| `GoldenScenarios` | the seven golden scenarios |
| `ChatSession` | a session: gate, draft, verification claim by claim, delivery, outcome; plays the two above |
| `World` | stations, classes, list prices, the passes that emit the rate cards |
| `Fees` | the fee rules, the fees on a booking, the dispute fixtures |
| `Bookings` | the price, tax and cancellation fee of a generated booking |
| `MC...` | small instances of the module of that name |
| `...Proofs` | theorems about the module of that name; `ReferenceProofs` covers `World`, `Fees`, `Bookings`, `Verification`, `Conversations`, `GoldenScenarios` and `ChatSession` |

Operators named `X_suffix` under a comment that starts with "Bug:" are variants
of the operator `X` with a plausible mistake in them. No specification uses them;
each property is known to fail when one of them takes the place of its original.

### How the engine's model corresponds to the code

`ledger` is the table, a function from reservation ids to rows. One action is one
SQL transaction. A thread's `call` holds the local variables of `reserve()`; `pc`
says which query comes next. `Acquire` and `Unlock` are the context manager of
`lock.py`; `lock` is indexed by process because a `PerCustomerLock` is an object
in one process's memory. `FilterOne` is one turn of the loop at `engine.py:74-79`,
each turn reading the table anew. The choice of the winner is pure and is one step
with the insert. `Emit` is what the evaluator does with the decision, and gives M08
the reservation id; `Confirm` and `Rollback` then come as often, as late and in
whatever order M08's retries have them. `Crash` empties a process's calls and
locks and leaves the table.

Any call to the outside may raise. `QueryFails` is a query inside the `with` block;
`RecordFails` is the INSERT or its commit, with or without the row written (a lost
answer); both put the thread at `raising`, from where `Raise` leaves through the lock's
`finally`, without a decision. `EmitFails` is `fire_sink.emit` raising at
evaluator.py:125, with or without the message on its way. Nothing gives a reservation
back. A suppression sink that raises (evaluator.py:128) touches no state here.

Times are integers in arbitrary order; a trigger is a number that stands for its
rank in string order, which is all the tiebreak looks at. Trigger configurations
do not change during a behaviour of `FrequencyEngine`. A negative `max`, which the
pydantic model admits, is not modelled: such a cap never fires anything.

### The store's model

A writer goes through the statements of `write_event` as Postgres runs them at
READ COMMITTED: the existence check sees committed rows only; the insert into
`events` waits for an open transaction that holds the same key and then fails if
that one commits; the outbox id comes from a sequence that no rollback rewinds. A
relay reads a batch once and then publishes and marks it row by row, from a list
that may be stale. A publish that raises may still have added its entry. The
entry carries what `_stream_fields` puts into it, which is not all of the event.

### The model of capture and ingestion

`thread` is FastAPI's pool: a request keeps its items, the results so far, and the
local variables of `allow()`. Reading the window, counting and writing it back,
collecting the stale windows and deleting them are steps of their own, because
nothing keeps another thread out between them; a loop over the dictionary raises if
another thread is in a position to change it, and a window that was deleted already
is a `KeyError`, either of which ends the whole request. `write_event` is one step
here, as `EventStore` has its statements. `StatusOf` is what the client sees. On the
client's side `Flush` takes the snapshot and hands it to a thread; `Capture` may
come at any time until `Acknowledge`; `Timeout` leaves the request to the server and
the buffer to the next flush. `dropped` is a history variable: why an event left the
buffer unsent or refused. The detectors C to H of the SDK differ in a signal's
fields only, and signals are numbers. A wrong API key ends a request at once and
changes nothing; it is left out.

### The consumer's model

`stream` holds the event ids in the order of their entries; `handed` and `pel` are
the group's last-delivered position and its pending entries list. `consumer` is the
call of `run_once`: the rest of the batch, the deferred matches still to enqueue, the
reservation in hand. `Match` stands for the guard and `matching_rules` together,
which touch nothing outside the process; `Defer`, `Reserve`, `Emit`,
`RecordSuppression` and `Ack` are calls to the outside, and `Fail` lets any of them
raise, which ends `run_once` and leaves the rest of the batch undone. The loop
around `run_once` is not in the repository; it is assumed to call it again. `evaluated`
is a history variable: the events on which `evaluate` has returned. The relay
publishes any event at any time and more than once, as `EventStore` allows it to.
There is one consumer, because `reserve()` is one step here, which is proved of one
process only. Trigger rules are fixed, as `StaticRuleSource` has them.

### The scheduler's model

`queue` is the table. `on_login` reads the eligible entries, looks up the rules,
discards entries without one, lets the engine decide (`AtomicReserve`), marks the
entry, emits. The expiry sweep is a select and an update by id. All steps
interleave with `Enqueue`, rule removal, M08, the clock and a crash. `Init` chooses the
lock: `NullLock`, the default of scheduler.py:39, or a `PerCustomerLock`. `Fail` lets
any statement of `on_login` raise, before it has done anything or, its answer lost,
after: the exception leaves through the lock's `finally` and undoes nothing.
`SweepFails` rolls the sweep's transaction back. A login's
`now` is the time of the call, the mildest assumption: an older `now` would only
widen the races. An entry that expires during the call is still raised: the code looks
at the time of the login, and so does `EngagedInWindow`. `Reconcile` is the second Celery task; it looks for status
`raising`, which no code writes, so it never moves a row.

### The handoff manager's model

`call` is where each call of `handle()` is: the queues not given up yet, the tries
made at the first, the ticket. `EnqueueFails` has the queue refuse, or take the
ticket and lose the answer (`lost` counts these). `RecordFails` has the INSERT raise,
done or not. `tickets` is what the queues hold, external to the program, and outlives
it; `dead` is the default sink, a list in memory, which `Crash` empties. Agents
update any ticket a queue holds, at any time. A request is its conversation and the
pairs of `context_of`; the ticket's payload is not looked at.

### The session's model

A text is a sequence of fragments: plain words, a price with its currency, a phrase.
A claim's token is one fragment and `str.replace` replaces every fragment equal to
it. Prices that are prefixes of other prices ("£6" in "£68") are not modelled; that
"available" is a part of "not currently available" is. The trees and scenarios are
translated one by one, turn by turn, with the slots and claims of each turn; wording
is dropped. `ChatSession` plays a script the way `tests/runner.py` does for golden
scenarios; for the trees the bot's turns go through the same verification and
delivery, which is what M08 and M09, outside this repository, are specified to do
(`BotTurn` is external). The booking API's failures start and stop between any two
claims. `verify` catches `BookingAPIFailure` only (booking_api.py:65), so a claim about
a key the world has no card for is a `KeyError` (world.py:198, 201): `VerificationRaises`
ends the round, and the draft is not delivered.

### World, bookings and fees

Pure definitions; amounts are in pence, times in minutes, discounts in percent. What
the seeded generator draws at random (which extras, which drop-off, how late) is a
parameter. The jitter of the daily rate cards is left out: bookings are priced at the
list price, `nominal_daily_rate`.

## What the runs show

| Run | Instance | Shows |
|---|---|---|
| `engine` | 1 process, 2 threads, 1 customer, 2 triggers, 3 reservations, times 0..2, no cooldown, 1 crash or failing call | type correctness; both caps, for events that arrive out of order too; what a thread has checked stays true until it inserts; the decision accounts for each candidate; settled rows never change; the steps implement `EngagementCap`; only an interruption of the call that holds a reservation strands it; a customer's lock always comes free, after an exception too |
| `store` | 2 writers, 2 relays, 2 ids, 2 contents, batches of 2, 1 crash or failed publish | event and outbox row together; marked only when delivered; true answers; an event at most once for each relay, but for the entries that interruptions account for; implements `EventHandover`; every stored event is delivered |
| `capture` | 3 signals, a buffer of 2, 2 server threads, limit 2 and 1 window kept, 2 instants, 1 fault, 1 request of a portal | what leaves the buffer is stored or accounted for; the buffer holds the newest; nobody below the limit is refused; the buffer empties again and again |
| `capture_loss` | 2 signals, 1 thread, 1 fault | **violated**: a retry's refused item is lost, against client.py:119-120 |
| `trigger` | 3 events, 4 rules of which one raises, 3 entries, a stream kept to 2, batches of 2, cooldown 1, 1 restart, 2 failing calls | one life of the process acts on an event once; a returned decision has all its effects; an event handed out and undecided is still on the pending list; the cooldown holds across redelivery |
| `trigger_at_least_once` | 2 events, 2 entries, 1 restart, a fair loop | **violated**: an entry read before the restart is never evaluated, against consumer.py:3-4 |
| `pending` | 2 logins, 2 entries, 2 reservations, times 0..2, 1 crash or failing statement, either lock | an entry is raised in its window and, with a `PerCustomerLock`, once (with `NullLock`, once for each thread); only an interruption of the call that holds it loses one; none is pending for ever |
| `pending_default` | as `pending`, 1 entry, no interruption | **violated**: with the default lock two logins raise one entry twice, against scheduler.py:6-7 |
| `handoff` | 2 calls of 1 conversation, 3 rules, 2 tries a queue, 1 fault | none is dropped (implements `HandoffPromise`); the record is true; spare tickets are lost answers; every call comes to an end |
| `handoff_null` | as `handoff`, `None` among the refs | **violated**: `update_status(None, ...)` moves dead-lettered rows, against ledger.py:34-35 |
| `conversation` | all 20 paths of the 17 trees, the 7 golden scenarios, 9 other drafts (one about a station without a card), 2 faults | no unchecked claim is read; every path passes its evaluator; what is booked was quoted last; the pinned outcomes are met. Evaluates the assumptions on fees and world |
| `claims_swap` | a draft with two classes at each other's rates | **violated**: an unverified claim survives, against reference.py:69 |

The violated runs are the project's findings; `PROJECT.json` quotes the lines.

### Bounds

- *Reservation ids.* A call starts only while an id is left for it (`IdLeft`), so
  no call fails for want of one; in `engine` three fill every cap of the instance and
  leave one to roll back. `OutOfIds` is the stuttering of a system that has used them
  up.
- *Times.* The windows (2 and 3 long, cooldown 1) overlap the three instants in
  every way: rows just inside, on and just outside the edge, before and after
  `now`.
- *Threads, writers, relays, calls.* Two of each: the properties speak of one
  customer, event id, entry or conversation, and the races the code has are between
  two parties.
- *Crashes, failures* (`MaxInterruptions` in `engine`, `store` and `pending`). One or two
  per behaviour; a further one adds no new kind of state that the first does not leave
  behind. In `handoff` refusals and lost answers
  are not counted: `MaxAttempts` bounds them.
- *Stream entries.* Three: a duplicate of an event whose first entry was
  interrupted, with another entry in the same batch. Every entry engages at most
  once, so as many reservation ids never run out.
- *Rules.* Of the scheduler's two triggers one may leave the configuration (`Removable`);
  the other then still competes.
- *Entries of the queue.* They are enqueued only if they expire within `Times`
  (`ExpiresInTime`), or the end of the model's time would look like a fault.
- *Buffer and limiter.* Three signals overflow a buffer of two; a limit of two is
  reached by one batch and its retry; with one window kept, the second customer
  makes `_evict` run.
- *Conversations.* Not bounded: the trees and scenarios are the repository's own.
  Two faults reach two claims of one draft.

### Fairness

Safety is checked without any; the runs that check liveness (`engine`, `store`,
`pending`, `capture`, `handoff`, `trigger_at_least_once`) do so under `LiveSpec`.

- Engine: each thread's next step. Python's locks are not fair, so nothing is assumed
  of who gets a contended one.
- Store: the relay's steps; `run_once` is run in a loop (relay.py:10). Nothing of
  writers.
- Consumer: its steps, likewise (consumer.py:1-3).
- Pending: time, the sweep, which Celery Beat repeats (tasks.py:17-25), and login
  steps; nobody has to log in.
- Capture: somebody flushes again and again (client.py:127) and the server's threads
  are not starved.
- Handoff: the next step of a call, which is sequential code.

Crashes and failures are finitely many everywhere.

## What is proved

All theorems hold for any number of customers, triggers, threads, times, events,
calls and ids, under the assumptions on the constants that the modules name.

**The engine.** `FrequencyEngineProofs.CapsHold`: the one-step engine keeps both caps
and the cooldown. The heart is a counting lemma (`SpanInsert` in
`EngagementLedgerProofs`): if fewer than `max` rows lie after `now - per`, *including
rows later than now*, then adding one at `now` overfills no period, whether it starts
before or after `now`. This is why `would_fire`'s window, open towards the future, is
right when events come out of order. In the same module, `TypeCorrect` and
`EngineSettlesForGood` hold for any number of processes; with one process,
`ChecksAlwaysStand` says that what a thread has checked is still true when it inserts.
The inductive invariant is `TypeOK /\ LockHeld /\ ChecksStand`. `LockHeld` (who is in
the critical section holds the lock) is what excludes a second insert for the same
customer; `ChecksStand` alone is not inductive. M08's steps only take rows out of the
count and keep it. `EngineActsAtomically` and `EngineCapsHold` follow: the insert maps
to `Engage` because the checks still stand, M08's steps to `Settle`, all others to
stuttering. `OneProcess` is needed: a `PerCustomerLock` excludes nobody in another
process, and with a lock that excludes nobody (`Acquire_nullLock`) TLC finds a cap
exceeded.

`DecisionsAccount` and `InterruptionsAloneStrand` hold for any number of processes. The first
follows each candidate through the filter loop (`Sifted`: not looked at yet, eligible, or a
loser for its cap), so that at the decision the losers are those who did not win. The
second follows a reservation from the insert to the message (`Carries`): one that nobody
carries was inserted, or was being carried, by a call that this very step interrupts, by
the death of its process or by an exception.

The arbitration: `OneWinner` (a list that is not empty has exactly one winner, which the
stable sort decides between equal keys) and `OrderDoesNotDecide` (the docstring's "no
reliance on input order": lists of the same matches have the same trigger win). Both rest
on `RankOrder`: the sort key is a total order, and equal keys mean the same trigger and time.

**The store.** `EventStoreProofs` proves the types, `StoredTogether`,
`MarkedIsDelivered`, `AnswerIsTrue` and the refinement of `EventHandover`. The inductive
invariant (`StoreInv`) adds what makes these inductive: which transaction holds a key,
that the ids of an outbox row and a batch come from the sequence, and that a relay about
to mark a row has published it. `OnlyInterruptedRepublished` counts, for
every set of delivered events: at most one entry of each for each relay, and of all of them
together one more for each interruption; for a single event, at most as many as there are
relays and interruptions. `EntriesAccounted` makes
the count inductive by naming a witness: a function that gives each stream entry the
relay that sent it, and a set of entries whose marking was interrupted, such that
outside that set a relay has sent at most one entry of an event. The relays are assumed
to be finitely many, so that the entries can be counted.

**Capture and ingestion.** `CaptureDeliveryProofs` proves the types, `NothingVanishes`,
`NewestKept` and `RefusedOverLimit`. `ServerInv` says of each request what its results
so far stand for (an accepted item is stored), and that a window's count is backed by as
many calls within the window's length, which no lost update, eviction or restart can
break, since each of them only lowers a count. `ClientInv` adds that the SDK's request
carries a snapshot of signals that are in the buffer, stored or accounted for.

**Handoff.** `HandoffProofs` proves the types and `SparesExplained` from `CallInv`, and
`LedgerIsTrue` and the refinement of `HandoffPromise` from `LedgerInv`, which ties each
row to the call that wrote it and to a ticket in its queue. The last two assume
`UnknownRefs = {}`: no agent's tool passes the ref of a dead-lettered handoff. The run
`handoff_null` shows that they fail without it. The refinement also assumes
`WithLedger`: without a ledger, a dead letter is gone with the process.

**Fees and prices.** `ReferenceProofs`: `late_return_extra_days` is the number of started
days for every delay and grace (`StartedDays`, `LaterCostsMore`); in every world the
dispute fixtures pin what the rules charge (`EveryWorldGrounded`); one rate card for
each station and class (`CardsOnce`); a one-way fee exactly where the drop-off is
elsewhere (`OneWayFeeIffElsewhere`); a booking's tax is a sixth of its total, to the
penny (`TaxIsASixth`); a late cancellation costs at least a no-show and at most the
total (`CancellingCostsNoLess`).

**The scheduler.** `PendingSchedulerProofs` proves the types, `EngagedInWindow`, the
caps and the cooldown, `OnlyInterruptionsLose` and `RaisedOnce`, whichever lock the
scheduler has; `RaisedOnce` says less of the default one. `RaisedOnce` is not inductive;
`PendingInv` adds that whoever is in the critical section holds its customer's lock
(`LockHeld`), that what `eligible_pending` found out is still true of the entries in a
call's hands (`Ready`: a window never changes, and nobody else fires them), that the
reservation in hand was made for the entry in hand (`Engages`), and that an entry that
was fired is never pending again (`FiredGone`), which neither the sweep, `Reconcile`, a
failing statement nor a crash undoes. `LockHeld`, and in `Ready` that nobody else has
fired the entry, are only claimed where there is a `PerCustomerLock`; with `NullLock` what
is left is that the thread itself has not fired it, and so two threads may raise one entry
(`pending_default` shows it) but no thread raises one twice. `InterruptionsAloneLose`
follows an entry and its reservation through `mark` and `emit`: each is in the hands of a
call until its message is sent or the call is interrupted.

**The consumer.** `TriggerConsumerProofs` proves `OncePerLife`, `NothingUntraced`,
`WholeEffects` and the caps for any stream, batch, rules, restarts and failures. Four
invariants carry it. `TypeInv` knows the last entry handed out (`HasLast`), so that a
read takes only entries that nobody holds. `TraceInv` says where an event is that the
guard knows and that has no decision: in hand, or on the pending list under an entry
*outside* the batch in hand (`Interrupted`); this is why acknowledging a duplicate does
not remove the last trace. `LifeInv` bounds an event's fires by the restarts so far while
the guard does not know it or has it still before its `emit`, and by one more after
that. `EffectInv` follows the call in hand: what it has enqueued, reserved and answered
by the step it is at.

**Verification.** `VerificationStands`: whatever a draft's text and however many claims
it makes, if no claim is written like another or like what another may be replaced by
(`Apart`), each claim's places read what its own answer allows. The fold of
`apply_verification` over the claims is a recursive function, and the proof is an
induction over the claims already applied (`SetInduction`, the set form of induction
that follows from `WFMin` and `NatLessThanWellFounded`): a claim put right stays right
while the ones after it are put right.

**The session.** `SessionInvariant` holds for any rate cards, LLM responses, mix of
faults and script: the types, what each step of the round may rely on (`RoundInv`), that
the answers in hand are the booking API's or a fault's (`AnswersOfTheAPI`), and that each
delivered turn is a verified draft. `CorrectionsAlwaysStand` follows from it and
`VerificationStands`: of a claim without a card, what is delivered is only the
unverifiable answer of an outage, as otherwise the exception ends the round. `GoldenAlwaysEndRight` adds what is known of the transcript and the
terminal state of a golden scenario at each turn (`GoldenInv`).

**The trees.** `PathsAlwaysEndRight`: a path that has been played to its end passes its
tree's evaluator, and what its slots book is what was quoted last, whatever the rate
cards. `PlayedInv` says what is played of a path: the transcript is the path's own turns
up to there, the bot's verified. `RetainEnds`, `AbandonEnds`, `RevertEnds` and one lemma
for each tree (`CV01Ends` to `CV17Ends`) evaluate the scenarios on it; `SlotsStay` says
that verification rewrites texts and leaves the slots alone. The exception of CV-06
(`CorrectedSoldOut`) is in the property, as it is in the code. `SeededAssumption` is
needed: the five rate cards that the trees quote exist, the two of CV-17 differ in
price, and something is sold out at seed; the run `conversation` evaluates it on the
repository's values.

Only model-checked: the five liveness properties (`LockGivenBack`, `AllDelivered`,
`NothingPendingForever`, `BufferDrains`, `HandlingEnds`), as liveness under fairness and
ENABLED are out of the prover's reach.

## Observations beside the findings

Five disagreements between the code and the repository's own words are findings with a
violated run. Three more were met, and are described here without a run of their own:

- *The sweep.* `expire_due` selects the overdue pending ids and updates them by id alone
  (queue.py:109-116), against "Never touches raised/raising rows" (queue.py:106). A login
  that starts before an entry is overdue and raises it between the two statements has its
  row recorded as expired. `PendingScheduler` contains these behaviours; `RaisedOnce` and
  `OnlyInterruptionsLose` say that they raise nothing twice and lose no message.
- *KeyError.* "Any error/timeout during verification is treated as UNVERIFIABLE"
  (booking_api.py:6-7), but a claim about a key without a card raises (world.py:198, 201),
  which booking_api.py:65 does not catch. `VerificationRaises` models it; the draft is not
  delivered, so `CorrectionsStand` holds.
- *CV-06.* M10 corrects "available" to "not currently available", which still contains
  the token that the scenario excludes (intents.py:467) and that the test for it
  (test_conversation_intents.py:128-130) wants never delivered. The corrected conversation
  fails its evaluator; `PathsEndRight` names the exception (`CorrectedSoldOut`).

Other places where the model made us look twice:

- *Locks.* `PerCustomerLock` excludes within one process only, as engine.py:47-49 says, and
  its dictionary never shrinks (lock.py:22).
- *engine.py:88-90.* Two pending entries of one trigger are two candidates; the loser
  is recorded under the winner's name, where POA/05:123 has losers name dropped
  triggers. `DecisionAccounts` is stated for lists of distinct triggers.
- *CV-17.* The docstring says `delivered_excludes`; the tokens are in
  `superseded_tokens`.
- *booking_api.py:52.* Corrections are written in pounds everywhere, also where the
  composers quote euros. A batch of claims and a shorter list of results would be cut
  short by `zip` in `apply_verification`; the runner never passes one.
- *Handoff.* An agent's update that arrives between the queue's answer and the INSERT
  finds no row and is lost; statuses may go backwards.
- *reconcile_stuck* never finds a row: no code writes `raising`.
- *Rate plans.* `included_extras` (catalogues.py:161, 168) are still charged by
  `_value`, which knows the discount only.
- *Cancellation.* The fee divides the total, with add-ons and the one-way fee, by the
  days (customers.py:201), where the policy speaks of one rental day.

## What is not modelled, and the plan

Not modelled: the rest of the test-data generator (names, companies, the shape of a
customer's history, event volume: sequential, seeded, without a protocol), the platform
library (configuration, logging, tracing, health endpoints), the FastAPI wiring, the
project trackers (spreadsheet scripts), the read models of the store, which change
nothing, and authentication by API key, which changes nothing either.

Next, in this order:

1. Two pending entries of one trigger, with the suppression that names the winner, as a
   run of its own (engine.py:88-90).
2. The sweep against queue.py:106 and CV-06 against its test, as runs of their own.
