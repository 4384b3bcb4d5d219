----------------------------- MODULE MCHandoff -----------------------------
(***************************************************************************)
(* Small instances of Handoff: the rules of fixtures.default_routing_rules *)
(* and requests that meet each of them, or none.                           *)
(***************************************************************************)
EXTENDS Handoff

Rule(match, queue, fallback) == [match |-> match, queue |-> queue, fallback_queue |-> fallback]

\* The catch-all's two queues are the same.
DefaultRules ==
    <<Rule({<<"language", "de">>, <<"customer_type", "corporate">>}, "de-corporate", "general-de"),
      Rule({<<"language", "en">>}, "en-general", "general"),
      Rule({}, "general", "general")>>

MCRequests ==
    {[conversation |-> "c1", context |-> {<<"language", "de">>, <<"customer_type", "corporate">>}],
     [conversation |-> "c1", context |-> {<<"language", "de">>}]}

NoRefs == {}

NullRef == {NoTicket}

=============================================================================
