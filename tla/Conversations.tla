--------------------------- MODULE Conversations ---------------------------
(***************************************************************************)
(* The scripted conversation trees of generator/intents.py: what the       *)
(* customer says and the bot drafts, turn by turn, with the slots the one  *)
(* fills and the claims the other makes; the paths through a tree, the     *)
(* scripted source of replies, the evaluator and the final slots.          *)
(*                                                                         *)
(* The turns of a path are numbered 1, 2, ...: a turn's number is its      *)
(* place in the sequence. Of a text only what its claims quote is kept.    *)
(***************************************************************************)
EXTENDS Verification

\* The world the scripts are written against has the cards they quote, of which the two
\* of CV-17 differ, and something in it is sold out (tests/test_world_consistency.py:34).
ASSUME SeededAssumption ==
    /\ {<<"LHR", "ICAR">>, <<"LHR", "FCAR">>, <<"LHR", "ECAR">>, <<"MAN", "ECAR">>, <<"MAN", "SUV">>}
          \subseteq DOMAIN Rate
    /\ Rate[<<"LHR", "ECAR">>] # Rate[<<"MAN", "SUV">>]
    /\ \A key \in DOMAIN Available : key = <<key[1], key[2]>>
    /\ \E key \in DOMAIN Available : Available[key] = 0

Cust(slots) ==
    [speaker |-> "customer", text |-> <<Words>>, slots |-> slots, claims |-> <<>>,
     requests_handoff |-> FALSE]

Bot(text, claims) ==
    [speaker |-> "bot", text |-> text, slots |-> {}, claims |-> claims,
     requests_handoff |-> FALSE]

Says == Bot(<<Words>>, <<>>)

HandsOff == [Says EXCEPT !.requests_handoff = TRUE]

\* A draft that quotes a rate off its live value by so much.
Quotes(loc, class, off) ==
    LET amount == Rate[<<loc, class>>] + off
        token  == Money(loc, amount)
    IN  Bot(<<Words, token, Words>>, <<PriceClaim(loc, class, amount, token)>>)

QuoteOf(loc, class, off) == Money(loc, Rate[<<loc, class>>] + off)

\* _find_zero_availability
SoldOut ==
    LET zero == {key \in DOMAIN Available : Available[key] = 0}
    IN  IF zero = {} THEN <<"LHR", "SUV">> ELSE CHOOSE key \in zero : TRUE

Place(loc, class) == {<<"pickup", loc>>, <<"vehicle_class", class>>}

Dates == {<<"pickup_at", "1st">>, <<"return_at", "4th">>}

Ref == {<<"booking_ref", "HFB">>}

Expect(outcome, slots) ==
    [outcome |-> outcome, required_slots |-> slots, delivered_excludes |-> {},
     superseded_tokens |-> {}, min_bot_turns |-> 1]

Branch(id, from, turns, expected) ==
    [branch_id |-> id, from_turn |-> from, turns |-> turns, expected |-> expected]

Tree(id, turns, branches, expected) ==
    [conversation_id |-> id, turns |-> turns, branches |-> branches, expected |-> expected]

-----------------------------------------------------------------------------
(* The trees, one for each intent *)

CV01 == Tree("CV-01",
    <<Cust({}), Says, Cust({<<"pickup", "LHR">>}), Says,
      Cust(Dates \cup {<<"vehicle_class", "ICAR">>}), Quotes("LHR", "ICAR", 0), Cust({}), Says>>, {},
    [Expect("booking_created", {"pickup", "pickup_at", "return_at", "vehicle_class"})
        EXCEPT !.min_bot_turns = 4])

CV02 == Tree("CV-02", <<Cust(Ref), Says, Cust({})>>, {}, Expect("resolved", {"booking_ref"}))

CV03 == Tree("CV-03",
    <<Cust(Ref), Says, Cust({<<"vehicle_class", "FCAR">>}), Quotes("LHR", "FCAR", 0), Cust({}), Says>>, {},
    [Expect("booking_modified", {"booking_ref", "vehicle_class"}) EXCEPT !.min_bot_turns = 3])

CV04 == Tree("CV-04", <<Cust(Ref), Says, Cust({}), Says>>,
    {Branch("retain", 2, <<Cust({}), Says>>, Expect("resolved", {"booking_ref"}))},
    Expect("booking_cancelled", {"booking_ref"}))

\* The quote is 7.50 too low.
CV05 == Tree("CV-05",
    <<Cust(Place("MAN", "ECAR")), Quotes("MAN", "ECAR", -750), Cust({})>>, {},
    [Expect("resolved", {"pickup", "vehicle_class"})
        EXCEPT !.delivered_excludes = {QuoteOf("MAN", "ECAR", -750)}])

CV06 ==
    LET token == Phrase("available")
        claim == AvailabilityClaim(SoldOut[1], SoldOut[2], TRUE, token)
    IN  Tree("CV-06",
            <<Cust(Place(SoldOut[1], SoldOut[2])), Bot(<<Words, token, Words>>, <<claim>>), Cust({})>>, {},
            [Expect("resolved", {"pickup", "vehicle_class"}) EXCEPT !.delivered_excludes = {token}])

CV07 == Tree("CV-07", <<Cust({<<"vehicle_class", "ICAR">>}), Says, Cust({})>>, {},
    Expect("resolved", {"vehicle_class"}))

CV08 == Tree("CV-08", <<Cust({<<"pickup", "LHR">>, <<"dropoff", "MAN">>}), Says, Cust({})>>, {},
    Expect("resolved", {"pickup", "dropoff"}))

CV09 == Tree("CV-09",
    <<Cust({<<"fee_type", "late_return">>}), Says, Cust({<<"fee_type", "no_show">>}), Says>>, {},
    [Expect("resolved", {"fee_type"}) EXCEPT !.min_bot_turns = 2])

CV10 == Tree("CV-10",
    <<Cust({<<"product", "excess_protection">>, <<"extra", "child_seat">>}), Says, Cust(Ref), Says>>, {},
    [Expect("booking_modified", {"extra", "booking_ref"}) EXCEPT !.min_bot_turns = 2])

CV11 == Tree("CV-11", <<Cust({<<"topic", "deposit">>}), Says, Cust({})>>, {},
    Expect("resolved", {"topic"}))

CV12 == Tree("CV-12", <<Cust(Ref \cup {<<"severity", "high">>}), HandsOff>>, {},
    Expect("escalated_to_human", {"booking_ref"}))

CV13 == Tree("CV-13", <<Cust(Ref \cup {<<"fee_type", "fuel">>}), HandsOff>>, {},
    Expect("escalated_to_human", {"booking_ref", "fee_type"}))

CV14 == Tree("CV-14", <<Cust({<<"topic", "driver_age">>}), Says, Cust({})>>, {},
    Expect("resolved", {"topic"}))

CV15 == Tree("CV-15", <<Cust({}), Says, Cust({})>>, {}, Expect("declined_out_of_scope", {}))

CV16 == Tree("CV-16",
    <<Cust({}), Says, Cust(Place("LHR", "ECAR")), Quotes("LHR", "ECAR", 0)>>,
    {Branch("abandon", 2, <<Cust({})>>, Expect("abandoned", {}))},
    [Expect("resolved", {"pickup", "vehicle_class"}) EXCEPT !.min_bot_turns = 2])

CV17 == Tree("CV-17",
    <<Cust(Place("LHR", "ECAR") \cup Dates), Quotes("LHR", "ECAR", 0),
      Cust(Place("MAN", "SUV")), Quotes("MAN", "SUV", 0), Cust({}), Says>>,
    {Branch("revert", 4, <<Cust(Place("LHR", "ECAR")), Quotes("LHR", "ECAR", 0)>>,
        [Expect("booking_created", {"pickup", "vehicle_class"})
            EXCEPT !.superseded_tokens = {QuoteOf("MAN", "SUV", 0)}, !.min_bot_turns = 3])},
    [Expect("booking_created", {"pickup", "vehicle_class", "pickup_at", "return_at"})
        EXCEPT !.superseded_tokens = {QuoteOf("LHR", "ECAR", 0)}, !.min_bot_turns = 3])

Trees == {CV01, CV02, CV03, CV04, CV05, CV06, CV07, CV08, CV09, CV10, CV11, CV12, CV13, CV14,
          CV15, CV16, CV17}

-----------------------------------------------------------------------------
(* Paths, replies, slots *)

BranchPath(tree, branch) == SubSeq(tree.turns, 1, branch.from_turn) \o branch.turns

Path(tree, turns, expected) ==
    [conversation_id |-> tree.conversation_id, turns |-> turns, expected |-> expected]

\* paths(): the main path and every branch's.
Paths(tree) ==
    {Path(tree, tree.turns, tree.expected)}
    \cup {Path(tree, BranchPath(tree, b), b.expected) : b \in tree.branches}

\* Where a speaker's turns are.
Places(speaker, turns) == {i \in DOMAIN turns : turns[i].speaker = speaker}

\* ScriptedReplySource.next_reply: the customer's turn that has n of the customer's
\* before it, a set of one; {} when the script ends.
NextReply(path, n) ==
    LET said == Places("customer", path.turns)
    IN  {path.turns[i] : i \in {k \in said : Cardinality({j \in said : j < k}) = n}}

Names(slots) == {s[1] : s \in slots}

\* Bug: a slot that is filled stays as it is.
Updated_firstWins(slots, new) == slots \cup {s \in new : s[1] \notin Names(slots)}

\* dict.update: a later turn replaces what an earlier one said.
Updated(slots, new) == {s \in slots : s[1] \notin Names(new)} \cup new

FinalSlots(turns) ==
    LET slots[n \in 0..Len(turns)] ==
            IF n = 0 THEN {} ELSE Updated(slots[n - 1], turns[n].slots)
    IN  slots[Len(turns)]

-----------------------------------------------------------------------------
(* ExactExpectationEvaluator *)

\* `token in text`, for text made of fragments: one token is a part of another.
Occurs(token, text) ==
    \E i \in DOMAIN text :
        \/ text[i] = token
        \/ token = Phrase("available") /\ text[i] = Phrase("not currently available")

FinalText(transcript) ==
    LET said == Places("bot", transcript) IN IF said = {} THEN <<>> ELSE transcript[Max(said)].text

Passed(transcript, expected) ==
    /\ \A i \in Places("bot", transcript), token \in expected.delivered_excludes :
          ~Occurs(token, transcript[i].text)
    /\ \A token \in expected.superseded_tokens : ~Occurs(token, FinalText(transcript))
    /\ expected.required_slots \subseteq Names(FinalSlots(transcript))
    /\ Cardinality(Places("bot", transcript)) >= expected.min_bot_turns

=============================================================================
