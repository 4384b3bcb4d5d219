---------------------------- MODULE Precedence ----------------------------
(***************************************************************************)
(* The arbitration among simultaneous matches:                             *)
(* services/event_pipeline/frequency/precedence.py.                        *)
(***************************************************************************)
EXTENDS Integers

CONSTANTS Weight,      \* trigger -> its `precedence`
          Specificity  \* trigger -> the number of its match conditions

\* A MatchCandidate: a trigger, the time of its signal, and its place in the list.
Candidate(triggers, times) == [pos : Nat, trigger : triggers, signal_at : times]

\* Bug: the weight is not negated, so that the lowest one wins.
Outranks_ascendingWeight(a, b) ==
    LET wa == Weight[a.trigger]       wb == Weight[b.trigger]
        sa == Specificity[a.trigger]  sb == Specificity[b.trigger]
    IN  \/ wa < wb
        \/ /\ wa = wb
           /\ \/ sa > sb
              \/ sa = sb /\ a.signal_at > b.signal_at
              \/ sa = sb /\ a.signal_at = b.signal_at /\ a.trigger < b.trigger

\* _sort_key(a) < _sort_key(b): the higher weight, then the more conditions, then
\* the later signal, then the lower trigger id.
Outranks(a, b) ==
    LET wa == Weight[a.trigger]       wb == Weight[b.trigger]
        sa == Specificity[a.trigger]  sb == Specificity[b.trigger]
    IN  \/ wa > wb
        \/ /\ wa = wb
           /\ \/ sa > sb
              \/ sa = sb /\ a.signal_at > b.signal_at
              \/ sa = sb /\ a.signal_at = b.signal_at /\ a.trigger < b.trigger

\* choose_winner: sorted() is stable, so the first in the list wins among equals.
IsWinner(w, candidates) ==
    /\ w \in candidates
    /\ \A c \in candidates \ {w} :
          \/ Outranks(w, c)
          \/ ~Outranks(c, w) /\ w.pos < c.pos

=============================================================================
