------------------------------ MODULE RuleDsl ------------------------------
(***************************************************************************)
(* The rules' predicates over an event:                                    *)
(* services/event_pipeline/triggers/dsl.py.                                *)
(*                                                                         *)
(* A value is a text or a number, ordered within its kind; the value of a  *)
(* condition may also be a list, or none at all, which is a kind too.      *)
(* Fields are paths over the event, and one that leads to None is left out *)
(* of an event's `context`. Left out, too, is `in` over a text, which      *)
(* Python takes as a search for a substring.                               *)
(***************************************************************************)
EXTENDS Integers, Sequences

Ops == {"eq", "ne", "in", "not_in", "gt", "gte", "lt", "lte", "exists"}

Comparisons == {"gt", "gte", "lt", "lte"}

\* The value a path leads to, if any.
Get(event, field) ==
    IF field \in DOMAIN event.context THEN {event.context[field]} ELSE {}

\* The condition cannot be evaluated: a key it lacks, an unknown operator, a comparison
\* of a text with a number, a membership in what is no list. Only a field that is there
\* gets as far as the last two.
Raises(event, cond) ==
    \/ ~({"field", "op"} \subseteq DOMAIN cond)
    \/ cond.op \notin Ops
    \/ \E actual \in Get(event, cond.field) :
          \/ cond.op \in Comparisons /\ cond.value.kind # actual.kind
          \/ cond.op \in {"in", "not_in"} /\ cond.value.kind # "list"

Compare(op, actual, value) ==
    \/ op = "gt"  /\ actual.rank > value.rank
    \/ op = "gte" /\ actual.rank >= value.rank
    \/ op = "lt"  /\ actual.rank < value.rank
    \/ op = "lte" /\ actual.rank <= value.rank

\* An absent field satisfies no operator, `ne` and `not_in` included.
Holds(event, cond) ==
    \E actual \in Get(event, cond.field) :
        \/ cond.op = "exists"
        \/ cond.op = "eq" /\ actual = cond.value
        \/ cond.op = "ne" /\ actual # cond.value
        \/ cond.op = "in" /\ actual \in cond.value.items
        \/ cond.op = "not_in" /\ actual \notin cond.value.items
        \/ cond.op \in Comparisons /\ Compare(cond.op, actual, cond.value)

\* Condition i is looked at: all() stops at the first that does not hold.
Reached(event, conds, i) ==
    \A j \in 1..(i - 1) : ~Raises(event, conds[j]) /\ Holds(event, conds[j])

Considered(event, rule) == rule.enabled /\ rule.signal_type = event.signal_type

Matches(event, rule) ==
    /\ Considered(event, rule)
    /\ Reached(event, rule.conditions, Len(rule.conditions) + 1)

\* One rule that raises makes matching_rules raise, whatever the others say.
MatchingRaises(event, rules) ==
    \E t \in DOMAIN rules :
        /\ Considered(event, rules[t])
        /\ \E i \in DOMAIN rules[t].conditions :
              /\ Reached(event, rules[t].conditions, i)
              /\ Raises(event, rules[t].conditions[i])

MatchingRules(event, rules) == {t \in DOMAIN rules : Matches(event, rules[t])}

=============================================================================
