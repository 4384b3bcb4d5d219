-------------------------- MODULE GoldenScenarios --------------------------
(***************************************************************************)
(* The golden scenarios of generator/scenarios.py: for each branch of the  *)
(* proactive pipeline what the LLM drafts, what fails, how the customer    *)
(* reacts, and the outcome that is pinned.                                 *)
(***************************************************************************)
EXTENDS Conversations

Response(draft, confidence) ==
    [text |-> draft.text, claims |-> draft.claims, confidence |-> {confidence}]

\* In pounds, whatever the location.
QuotesPounds(loc, class, off) ==
    LET amount == Rate[<<loc, class>>] + off
        token  == Pounds(amount)
    IN  Bot(<<Words, token, Words>>, <<PriceClaim(loc, class, amount, token)>>)

Outcome(kind, terminal) ==
    [fired |-> TRUE, message_kind |-> {kind}, terminal_state |-> {terminal},
     delivered_excludes |-> {}]

Suppressed == [fired |-> FALSE, message_kind |-> {}, terminal_state |-> {}, delivered_excludes |-> {}]

\* What the scenarios have in common; the trigger's cap is one engagement in 7 days.
Scenario(id, response, replies, resolves, expected) ==
    [scenario_id |-> id, cap |-> [per |-> 7, max |-> 1], prior_engagements |-> <<>>,
     language |-> "en", llm_response |-> response, llm_timeout |-> FALSE,
     booking_api_failures |-> {}, replies |-> replies, resolves |-> resolves,
     expected |-> expected]

GS01 == Scenario("GS-01", {Response(Says, 90)}, <<"yes">>, {TRUE}, Outcome("llm", "converted"))

GS02 == Scenario("GS-02", {Response(QuotesPounds("LHR", "ICAR", 0), 88)}, <<>>, {},
    Outcome("verified", "no_engagement"))

\* The quote is 10.00 too low.
GS03 == Scenario("GS-03", {Response(QuotesPounds("LHR", "ICAR", -1000), 80)},
    <<"not what I saw", "wrong">>, {FALSE},
    [Outcome("corrected", "handed_off")
        EXCEPT !.delivered_excludes = {Pounds(Rate[<<"LHR", "ICAR">>] - 1000)}])

GS04 == [Scenario("GS-04", {Response(QuotesPounds("LHR", "ICAR", 0), 85)}, <<>>, {},
    [Outcome("stripped", "no_engagement")
        EXCEPT !.delivered_excludes = {Pounds(Rate[<<"LHR", "ICAR">>])}])
        EXCEPT !.booking_api_failures = {<<"LHR", "ICAR">>}]

\* The customer was engaged a day ago.
GS05 == [Scenario("GS-05", {}, <<>>, {}, Suppressed) EXCEPT !.prior_engagements = <<1>>]

GS06 == [Scenario("GS-06", {}, <<"ja, gerne">>, {TRUE}, Outcome("fallback", "converted"))
    EXCEPT !.language = "de", !.llm_timeout = TRUE]

GS07 ==
    LET token == Phrase("available now")
        claim == AvailabilityClaim(SoldOut[1], SoldOut[2], TRUE, token)
    IN  Scenario("GS-07", {Response(Bot(<<Words, token, Words>>, <<claim>>), 83)},
                 <<"not sure">>, {FALSE},
                 [Outcome("corrected", "handed_off") EXCEPT !.delivered_excludes = {token}])

Golden == {GS01, GS02, GS03, GS04, GS05, GS06, GS07}

=============================================================================
