--------------------------- MODULE AtomicReserve ---------------------------
(***************************************************************************)
(* reserve() as its callers see it: one step on the ledger. FrequencyEngine *)
(* has its steps; that they add up to this is ActsAtomically there. M08's  *)
(* answers between those steps, which can only make room, are left out.    *)
(***************************************************************************)
EXTENDS EngagementLedger, Precedence

\* The candidates whose own cap has room.
Eligible(c, candidates, now) ==
    {k \in candidates : WouldFire(CountedRowsOf(c, k.trigger), now, TriggerCap[k.trigger])}

Refused(c, candidates, now) ==
    \/ InCooldown(c, now)
    \/ \E cap \in GlobalCap : ~WouldFire(CountedRows(c), now, cap)
    \/ Eligible(c, candidates, now) = {}

\* Candidate w wins and gets reservation r.
Approved(c, candidates, now, w, r) ==
    /\ ~Refused(c, candidates, now)
    /\ IsWinner(w, Eligible(c, candidates, now))
    /\ r \notin DOMAIN ledger
    /\ InsertRow(r, c, w.trigger, now)

=============================================================================
