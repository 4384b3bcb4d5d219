---------------------------- MODULE ChatSession ----------------------------
(***************************************************************************)
(* One session with a customer, in the order of tests/runner.py: M05 cap,  *)
(* M09 draft, M10 verification claim by claim, M11 delivery, M12 outcome.  *)
(* A golden scenario makes one such round. A scripted conversation takes   *)
(* turns, and every draft of the bot goes through M10 before it is         *)
(* delivered. The booking API fails and comes back between any two calls.  *)
(***************************************************************************)
EXTENDS GoldenScenarios

CONSTANTS Played,    \* the trees that are played
          Responses, \* what the LLM may also answer: LLMResponses
          MaxFaults  \* bound: outages, timeouts and failed deliveries that are not scripted

ASSUME SessionAssumption ==
    /\ Played \subseteq Trees
    /\ \A response \in Responses : response.claims \in Seq(ToSet(response.claims))
    /\ MaxFaults \in Nat

VARIABLES script,     \* the path or scenario that is played
          pc,
          draft,      \* the message in the making
          results,    \* the answers of the booking API so far, claim by claim
          transcript, \* the turns that took place
          down,       \* the <<location, class>> keys the booking API fails on
          faults

vars == <<script, pc, draft, results, transcript, down, faults>>

\* The LLM's other answers are given in a scenario like GS-01.
FreeScenario(response) == [GS01 EXCEPT !.scenario_id = "free", !.llm_response = {response}]

Scripts ==
    {[kind |-> "tree", body |-> path] : path \in UNION {Paths(tree) : tree \in Played}}
    \cup {[kind |-> "golden", body |-> scenario] :
             scenario \in Golden \cup {FreeScenario(r) : r \in Responses}}

Body == script.body

IsTree == script.kind = "tree"

Drafted(text, claims, kind) == [text |-> text, claims |-> claims, kind |-> kind]

NoDraft == Drafted(<<>>, <<>>, "llm")

\* A turn of the transcript also tells what was drafted and how it was verified.
Turn(speaker, message, slots, handoff) ==
    [speaker |-> speaker, text |-> message.text, kind |-> message.kind, slots |-> slots,
     requests_handoff |-> handoff, draft |-> draft, results |-> results]

-----------------------------------------------------------------------------
(* The proactive round: M05 and M09 *)

Gate ==
    /\ pc = "gate"
    /\ pc' = IF WouldFire(Body.prior_engagements, Body.cap) THEN "generate" ELSE "suppressed"
    /\ UNCHANGED <<script, draft, results, transcript, down, faults>>

Generate ==
    /\ pc = "generate"
    /\ \/ \E response \in Body.llm_response :
             /\ ~Body.llm_timeout /\ DecideLLM(response) = "use"
             /\ draft' = Drafted(response.text, response.claims, "llm")
             /\ pc' = "verify"
       \/ /\ \/ Body.llm_timeout \/ Body.llm_response = {}
             \/ \E response \in Body.llm_response : DecideLLM(response) = "fallback"
          /\ draft' = Drafted(FallbackMessage(Body.language), <<>>, "fallback")
          /\ pc' = "deliver"
    /\ UNCHANGED <<script, results, transcript, down, faults>>

\* The provider times out though the script does not say so.
GenerateTimesOut ==
    /\ pc = "generate" /\ faults < MaxFaults
    /\ faults' = faults + 1
    /\ draft' = Drafted(FallbackMessage(Body.language), <<>>, "fallback")
    /\ pc' = "deliver"
    /\ UNCHANGED <<script, results, transcript, down>>

-----------------------------------------------------------------------------
(* The conversation's turns *)

Next1(turns) == turns[Len(transcript) + 1]

MoreTurns == IsTree /\ pc = "turn" /\ Len(transcript) < Len(Body.turns)

CustomerTurn ==
    /\ MoreTurns /\ Next1(Body.turns).speaker = "customer"
    /\ \E reply \in NextReply(Body, Cardinality(Places("customer", transcript))) :
          LET message == [text |-> reply.text, kind |-> "typed"]
          IN  transcript' = Append(transcript, Turn("customer", message, reply.slots, FALSE))
    /\ UNCHANGED <<script, pc, draft, results, down, faults>>

BotTurn ==
    /\ MoreTurns /\ Next1(Body.turns).speaker = "bot"
    /\ draft' = Drafted(Next1(Body.turns).text, Next1(Body.turns).claims, "llm")
    /\ pc' = "verify"
    /\ UNCHANGED <<script, results, transcript, down, faults>>

HangUp ==
    /\ IsTree /\ pc = "turn" /\ Len(transcript) = Len(Body.turns)
    /\ pc' = "ended"
    /\ UNCHANGED <<script, draft, results, transcript, down, faults>>

-----------------------------------------------------------------------------
(* M10, M11 and M12 *)

Claim == draft.claims[Len(results) + 1]

VerifyClaim ==
    /\ pc = "verify" /\ Len(results) < Len(draft.claims)
    /\ ~VerifyRaises(Claim, down)
    /\ results' = Append(results, Verify(Claim, down))
    /\ UNCHANGED <<script, pc, draft, transcript, down, faults>>

\* The round is over with the exception, and the draft goes nowhere.
VerificationRaises ==
    /\ pc = "verify" /\ Len(results) < Len(draft.claims)
    /\ VerifyRaises(Claim, down)
    /\ pc' = "failed"
    /\ UNCHANGED <<script, draft, results, transcript, down, faults>>

\* Bug: the message goes out with the first answer.
AllVerified_first ==
    /\ pc = "verify" /\ Len(results) >= IF draft.claims = <<>> THEN 0 ELSE 1
    /\ pc' = "deliver"
    /\ UNCHANGED <<script, draft, results, transcript, down, faults>>

AllVerified ==
    /\ pc = "verify" /\ Len(results) = Len(draft.claims)
    /\ pc' = "deliver"
    /\ UNCHANGED <<script, draft, results, transcript, down, faults>>

\* What the customer gets to read of the draft.
Message == 
    IF draft.kind = "fallback" THEN [text |-> draft.text, kind |-> "fallback"]
    ELSE ApplyVerification(draft.text, draft.claims, results)

Handoff == IsTree /\ Next1(Body.turns).requests_handoff

Deliver ==
    /\ pc = "deliver"
    /\ transcript' = Append(transcript, Turn("bot", Message, {}, Handoff))
    /\ draft' = NoDraft /\ results' = <<>>
    /\ pc' = IF IsTree THEN "turn" ELSE TerminalState(Body.replies # <<>>, Body.resolves)
    /\ UNCHANGED <<script, down, faults>>

\* HS-103 refuses, and the pipeline's round is over with an exception.
DeliverFails ==
    /\ pc = "deliver" /\ ~IsTree /\ faults < MaxFaults
    /\ faults' = faults + 1
    /\ pc' = "failed"
    /\ UNCHANGED <<script, draft, results, transcript, down>>

\* The failures that the scenario forces on the booking API; they stay.
Forced == IF IsTree THEN {} ELSE Body.booking_api_failures

\* What the booking API is asked about, with or without a card.
Keys == DOMAIN Rate \cup {claim.key : claim \in UNION {ToSet(r.claims) : r \in Responses}}

\* The booking API starts or stops failing on another key.
Outage ==
    /\ pc \in {"verify", "turn"} /\ faults < MaxFaults
    /\ faults' = faults + 1
    /\ \E key \in Keys \ Forced :
          down' = IF key \in down THEN down \ {key} ELSE down \cup {key}
    /\ UNCHANGED <<script, pc, draft, results, transcript>>

-----------------------------------------------------------------------------

Init ==
    /\ script \in Scripts
    /\ pc = IF IsTree THEN "turn" ELSE "gate"
    /\ draft = NoDraft
    /\ results = <<>>
    /\ transcript = <<>>
    /\ down = Forced
    /\ faults = 0

Next ==
    \/ Gate \/ Generate \/ GenerateTimesOut
    \/ CustomerTurn \/ BotTurn \/ HangUp
    \/ VerifyClaim \/ VerificationRaises \/ AllVerified \/ Deliver \/ DeliverFails
    \/ Outage

Spec == Init /\ [][Next]_vars

-----------------------------------------------------------------------------
(* Properties *)

Terminal == {"no_engagement", "converted", "handed_off"}

TypeOK ==
    /\ script \in Scripts
    /\ pc \in {"gate", "generate", "turn", "verify", "deliver", "ended", "suppressed", "failed"}
              \cup Terminal
    /\ Len(results) <= Len(draft.claims)
    /\ pc = "deliver" => Len(results) = Len(draft.claims)
    /\ IsTree => Len(transcript) <= Len(Body.turns)
    /\ down \subseteq Keys
    /\ faults \in 0..MaxFaults

Delivered == {m \in ToSet(transcript) : m.speaker = "bot"}

\* The places of a draft that quote the claim.
PlacesOf(claim, text) == {j \in DOMAIN text : text[j] = claim.text_token}

\* What verification allows in a claim's place: the claim if it was found right, its
\* correction if not, a safe phrase if it could not be checked.
Allowed(claim, status) ==
    CASE status = "ok" -> claim.text_token
      [] status = "wrong" -> LiveToken(claim)
      [] OTHER -> StripPhrase

\* Where the draft had the claim, the customer reads that.
ReadsAsVerified(m, i) ==
    LET claim == m.draft.claims[i]
    IN  \A j \in PlacesOf(claim, m.draft.text) :
            m.text[j] = Allowed(claim, m.results[i].status)

\* What verification may put in the claim's place.
Replacements(claim) == {StripPhrase} \cup IF HasCard(claim) THEN {LiveToken(claim)} ELSE {}

\* No two claims of a draft have a token in common, and none is written like what
\* another's verification may put in its place.
Apart(claims) ==
    \A i, j \in DOMAIN claims :
        i # j => claims[i].text_token \notin {claims[j].text_token} \cup Replacements(claims[j])

\* M10's hard rule (booking_api.py:6-7), with the API failing and coming back between
\* any two claims and the LLM drafting what it likes: a token is read only if its claim
\* was checked and found right, or it is the live value, and the message is not called
\* verified if one claim was not. What the world has no card for is never read: verify
\* calls it unverifiable only while the API fails on it, otherwise the KeyError ends the
\* round before anything is delivered. Two claims of a draft must not be written alike;
\* the others are NothingUnverified's.
CorrectionsStand ==
    \A m \in Delivered : Apart(m.draft.claims) =>
        \A i \in DOMAIN m.draft.claims :
            /\ ReadsAsVerified(m, i)
            /\ m.results[i].status = "ok" => IsLive(m.draft.claims[i])
            /\ m.results[i].status # "unverifiable" => HasCard(m.draft.claims[i])
            /\ m.kind = "verified" => m.results[i].status = "ok"

\* "Rewrite the draft so NO unverified claim survives" (reference.py:69), of every
\* draft: where it quoted a claim that was not found right, the customer does not read
\* that claim.
NothingUnverified ==
    \A m \in Delivered : \A i \in DOMAIN m.draft.claims :
        m.results[i].status # "ok" =>
            \A j \in PlacesOf(m.draft.claims[i], m.draft.text) :
                m.text[j] # m.draft.claims[i].text_token

\* Whether the evaluator would take back what M10 did to the sold-out conversation:
\* "not currently available" contains the token it is to exclude.
CorrectedSoldOut ==
    /\ Body.conversation_id = "CV-06"
    /\ \E m \in Delivered : Occurs(Phrase("not currently available"), m.text)

LastQuote == Body.turns[Max({i \in DOMAIN Body.turns : Body.turns[i].claims # <<>>})].claims[1]

\* Every path that is played to its end through M10, with outages wherever they fall,
\* passes the evaluator (intents.py:152-183), the corrected sold-out one excepted; and a
\* booking that is created is for the place and class that were quoted last (intents.py:
\* 750-757, 823-828).
PathsEndRight ==
    pc = "ended" =>
        /\ Passed(transcript, Body.expected) <=> ~CorrectedSoldOut
        /\ Body.expected.outcome = "booking_created" =>
              Place(LastQuote.key[1], LastQuote.key[2]) \subseteq FinalSlots(transcript)

\* Without an unscripted fault a golden scenario delivers a message of the kind, and
\* ends as, its expectations pin it; with one, whatever is delivered still has none of
\* the excluded tokens, and a suppressed trigger delivers nothing (scenarios.py,
\* runner.py:39-59).
GoldenOutcome ==
    ~IsTree /\ pc \in Terminal \cup {"suppressed"} =>
        /\ Body.expected.fired <=> pc # "suppressed"
        /\ pc = "suppressed" <=> transcript = <<>>
        /\ \A m \in Delivered, token \in Body.expected.delivered_excludes : ~Occurs(token, m.text)
        /\ Body.scenario_id # "free" =>
              /\ pc # "suppressed" => {pc} = Body.expected.terminal_state
              /\ faults = 0 => {m.kind : m \in Delivered} = Body.expected.message_kind

=============================================================================
