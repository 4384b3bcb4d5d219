--------------------------- MODULE EngagementCap ---------------------------
(***************************************************************************)
(* What the frequency engine promises its callers, with the locking, the   *)
(* separate queries and the arbitration abstracted away: a reservation is  *)
(* checked against the cooldown, the global cap and the trigger's cap and  *)
(* recorded in one indivisible step, and M08 settles it at most once.      *)
(***************************************************************************)
EXTENDS EngagementLedger

Engage(r, c, t, now) ==
    /\ r \notin DOMAIN ledger
    /\ ~InCooldown(c, now)
    /\ \A cap \in GlobalCap : WouldFire(CountedRows(c), now, cap)
    /\ WouldFire(CountedRowsOf(c, t), now, TriggerCap[t])
    /\ InsertRow(r, c, t, now)

Settle(r) ==
    \E status \in {"confirmed", "rolled_back"} : SetStatus(r, status, {"reserved"})

Next ==
    \/ \E r \in ResIds, c \in Customers, t \in Triggers, now \in Times : Engage(r, c, t, now)
    \/ \E r \in ResIds : Settle(r)

Spec == LedgerInit /\ [][Next]_ledger

=============================================================================
