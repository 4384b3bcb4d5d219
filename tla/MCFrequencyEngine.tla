------------------------- MODULE MCFrequencyEngine -------------------------
(***************************************************************************)
(* Small instances of FrequencyEngine: one customer, two triggers, with    *)
(* windows that overlap the few instants in every way.                     *)
(***************************************************************************)
EXTENDS FrequencyEngine, TLC

CONSTANTS t1, t2, w1, r1, r2, r3, alice

MCTriggerCap == 1 :> [per |-> 2, max |-> 1] @@ 2 :> [per |-> 3, max |-> 2]

\* Trigger 2 has the larger weight.
MCWeight == 1 :> 10 @@ 2 :> 20

MCSpecificity == 1 :> 1 @@ 2 :> 1

\* Shorter than the instants span, so that early and late rows fall in and out of it.
ShortGlobalCap == {[per |-> 2, max |-> 2]}

\* No cooldown configured.
NoCap == {}

Match(pos, trigger) == [pos |-> pos, trigger |-> trigger, signal_at |-> 0]

OneOrBoth == {{Match(1, 1)}, {Match(1, 1), Match(2, 2)}}

OneProcess == t1 :> w1 @@ t2 :> w1

=============================================================================
