------------------------- MODULE EngagementLedger -------------------------
(***************************************************************************)
(* The `engagements` table and the operations of EngagementLedger on it:   *)
(* services/event_pipeline/frequency/ledger.py and tables.py, with the     *)
(* sliding-window rule generator/reference.py computes over its rows.      *)
(* Each operation of the class is one SQL statement in one transaction,    *)
(* hence one step.                                                         *)
(***************************************************************************)
EXTENDS Integers, FiniteSets

CONSTANTS Customers,  \* customer ids
          Triggers,   \* trigger ids, each the rank of the id in string order
          ResIds,     \* the values uuid4 can return
          Times,      \* the instants events and logins are stamped with
          TriggerCap, \* trigger.frequency_cap of each trigger
          GlobalCap,  \* the engine's global_cap: a set of one cap, {} for None
          Cooldown    \* the engine's cooldown: a set of one length, {} for None

\* A FrequencyCap: at most `max` engagements in any period of length `per`.
\* parse_duration accepts no negative length.
Cap == [per : Nat, max : Nat]

ASSUME LedgerAssumption ==
    /\ Triggers \subseteq Int
    /\ Times \subseteq Int
    /\ TriggerCap \in [Triggers -> Cap]
    /\ GlobalCap \subseteq Cap
    /\ Cooldown \subseteq Nat

VARIABLE ledger  \* the table: reservation_id -> the row's other columns

Status == {"reserved", "confirmed", "rolled_back"}

CountedStatus == {"reserved", "confirmed"}

Row == [customer : Customers, trigger : Triggers, reserved_at : Times, status : Status]

LedgerInit == ledger = [r \in {} |-> {}]

-----------------------------------------------------------------------------
(* Queries *)

\* fire_times(c): the rows of customer c that count, over all triggers.
CountedRows(c) ==
    {r \in DOMAIN ledger : ledger[r].customer = c /\ ledger[r].status \in CountedStatus}

\* fire_times(c, t): those of trigger t alone.
CountedRowsOf(c, t) == {r \in CountedRows(c) : ledger[r].trigger = t}

\* The rows would_fire calls recent. One stamped later than `now` is recent too.
Recent(rows, now, per) == {r \in rows : now - ledger[r].reserved_at < per}

\* Bug: rows stamped later than `now` are left out of the window.
WouldFire_pastOnly(rows, now, cap) ==
    Cardinality({r \in Recent(rows, now, cap.per) : ledger[r].reserved_at <= now}) < cap.max

WouldFire(rows, now, cap) == Cardinality(Recent(rows, now, cap.per)) < cap.max

\* Bug: a reservation starts no quiet period until it is confirmed.
InCooldown_confirmedOnly(c, now) ==
    \E length \in Cooldown, r \in CountedRows(c) :
        ledger[r].status = "confirmed" /\ now - ledger[r].reserved_at < length

\* `now` falls in the quiet period of c's last engagement. last_engagement_at
\* returns the latest counted time, so some row is too close iff that one is.
InCooldown(c, now) ==
    \E length \in Cooldown, r \in CountedRows(c) : now - ledger[r].reserved_at < length

-----------------------------------------------------------------------------
(* Statements that write *)

\* A uuid4 that no row has: a set of one, {} when all are used up. Which one it is
\* tells nothing.
FreshIds ==
    LET unused == ResIds \ DOMAIN ledger
    IN  {r \in unused : r = CHOOSE x \in unused : TRUE}

InsertRow(r, c, t, now) ==
    ledger' = [x \in DOMAIN ledger \cup {r} |->
                IF x = r
                THEN [customer |-> c, trigger |-> t, reserved_at |-> now,
                      status |-> "reserved"]
                ELSE ledger[x]]

\* Bug: the UPDATE loses its only_from condition.
SetStatus_anyRow(r, status, onlyFrom) ==
    /\ r \in DOMAIN ledger
    /\ ledger' = [ledger EXCEPT ![r].status = status]

\* set_status(r, status, only_from) when it moves a row; otherwise it returns
\* False and leaves the table as it is.
SetStatus(r, status, onlyFrom) ==
    /\ r \in DOMAIN ledger
    /\ ledger[r].status \in onlyFrom
    /\ ledger' = [ledger EXCEPT ![r].status = status]

-----------------------------------------------------------------------------
(* What the table must satisfy *)

LedgerType ==
    /\ IsFiniteSet(DOMAIN ledger)
    /\ DOMAIN ledger \subseteq ResIds
    /\ ledger \in [DOMAIN ledger -> Row]

\* The rows stamped in the half-open period of length `per` that r starts.
Period(rows, r, per) ==
    {x \in rows : /\ ledger[r].reserved_at <= ledger[x].reserved_at
                  /\ ledger[x].reserved_at < ledger[r].reserved_at + per}

\* No period holds more rows than the cap allows. One that does can be slid
\* forward until it starts at a row, so those periods are enough.
Within(rows, cap) == \A r \in rows : Cardinality(Period(rows, r, cap.per)) <= cap.max

\* FrequencyPrecedenceEngine.reserve's promise per trigger: in whatever order
\* the events' own timestamps reach the engine, no period of the cap's length
\* ever holds more counted engagements of a customer with a trigger than the cap.
TriggerCapHolds ==
    \A c \in Customers, t \in Triggers : Within(CountedRowsOf(c, t), TriggerCap[t])

\* The same promise for the cap over all of a customer's triggers.
GlobalCapHolds ==
    \A c \in Customers, cap \in GlobalCap : Within(CountedRows(c), cap)

\* The quiet period after an engagement: the counted engagements of a customer
\* are pairwise at least the cooldown apart.
CooldownHolds ==
    \A c \in Customers, length \in Cooldown : \A r, x \in CountedRows(c) :
        \/ r = x
        \/ ledger[r].reserved_at - ledger[x].reserved_at >= length
        \/ ledger[x].reserved_at - ledger[r].reserved_at >= length

\* A step leaves every settled row as it is, deletes none, and gives none another
\* customer, trigger or time.
SettledRowsKept ==
    \A r \in DOMAIN ledger :
        /\ r \in DOMAIN ledger'
        /\ ledger[r].status # "reserved" => ledger'[r] = ledger[r]
        /\ [ledger'[r] EXCEPT !.status = ledger[r].status] = ledger[r]

\* set_status's promise: M08's confirm and rollback calls may be late, repeated
\* or out of order, and the first to arrive still settles the reservation for good.
SettledForGood == [][SettledRowsKept]_ledger

=============================================================================
