------------------------ MODULE MCTriggerConsumer ------------------------
(***************************************************************************)
(* Small instances of TriggerConsumer: one customer, whose three events    *)
(* match several rules, one rule, or a rule that raises.                   *)
(***************************************************************************)
EXTENDS TriggerConsumer, TLC

CONSTANTS e1, e2, e3, alice

Text(n) == [kind |-> "text", rank |-> n]
Number(n) == [kind |-> "number", rank |-> n]
List(values) == [kind |-> "list", items |-> values]

Condition(field, op, value) == [field |-> field, op |-> op, value |-> value]

Rule(type, conditions) ==
    [enabled |-> TRUE, signal_type |-> "booking_abandoned", type |-> type,
     conditions |-> conditions]

\* Rule 1 defers what rules 2 and 3 compete for. Rule 4 compares a number with a text,
\* which only an event with a dwell time finds out.
MCRules ==
    1 :> Rule("deferred", <<Condition("step", "eq", Text(1))>>)
 @@ 2 :> Rule("in_session", <<Condition("step", "in", List({Text(1), Text(2)}))>>)
 @@ 3 :> Rule("in_session", <<Condition("step", "exists", Text(0)),
                              Condition("step", "lte", Text(1))>>)
 @@ 4 :> Rule("in_session", <<Condition("dwell_ms", "gt", Text(1))>>)

Context ==
    e1 :> ("step" :> Text(1)) @@ e2 :> ("step" :> Text(2)) @@ e3 :> ("dwell_ms" :> Number(3))

\* e1 matches rules 1, 2 and 3; e2, which happened before it, rule 2; e3 no rule, if
\* rule 4 lets it.
MCEventOf ==
    [e \in Events |->
        [customer |-> alice, signal_type |-> "booking_abandoned",
         occurred_at |-> IF e = e1 THEN 1 ELSE 0, context |-> Context[e]]]

MCTriggerCap == [t \in Triggers |-> [per |-> 2, max |-> 1]]

MCWeight == [t \in Triggers |-> IF t = 1 THEN 10 ELSE 20]

MCSpecificity == [t \in Triggers |-> Len(MCRules[t].conditions)]

NoCap == {}

\* As long as e1 and e2 are apart.
MCCooldown == {1}

=============================================================================
