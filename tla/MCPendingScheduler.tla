------------------------- MODULE MCPendingScheduler -------------------------
(***************************************************************************)
(* Small instances of PendingScheduler: one customer, two deferred         *)
(* triggers whose windows open and close within the few instants there are *)
(***************************************************************************)
EXTENDS PendingScheduler, TLC

\* Trigger 1 may engage twice in a period, as a second login would need.
MCTriggerCap == 1 :> [per |-> 3, max |-> 2] @@ 2 :> [per |-> 3, max |-> 1]

MCWeight == 1 :> 10 @@ 2 :> 20

MCSpecificity == 1 :> 1 @@ 2 :> 1

NoCap == {}

\* Trigger 1 opens after one instant and stays open for one; trigger 2 opens at once, and
\* is the one that may leave the configuration.
MCWait == 1 :> 1 @@ 2 :> 0

MCExpiry == 1 :> 2 @@ 2 :> 2

=============================================================================
