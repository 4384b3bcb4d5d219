--------------------------- MODULE Verification ---------------------------
(***************************************************************************)
(* The trust-critical decisions on a drafted message: generator/           *)
(* reference.py (M05, M09, M10, M12) and the booking API's verifier,       *)
(* mocks/booking_api.py, over the seeded world.                            *)
(*                                                                         *)
(* A text is a sequence of fragments. Money is <<currency sign, pence>>,   *)
(* other tokens are <<"phrase", ...>>, and whatever no claim is about is   *)
(* <<"words">>.                                                            *)
(***************************************************************************)
EXTENDS Integers, FiniteSets, SequencesExt

CONSTANTS Rate,      \* world.rate on the day, in pence: <<location, class>> -> amount
          Available, \* world.availability_count on the day
          Euro       \* the locations that charge in EUR; the others charge in GBP

ASSUME WorldAssumption ==
    /\ \A key \in DOMAIN Rate : Rate[key] \in Nat
    /\ \A key \in DOMAIN Available : Available[key] \in Nat

Words == <<"words">>

Phrase(words) == <<"phrase", words>>

Pounds(amount) == <<"GBP", amount>>

\* The composers' _money: in the location's own currency.
Money(loc, amount) == IF loc \in Euro THEN <<"EUR", amount>> ELSE Pounds(amount)

\* A BookingClaim; `quoted` is the amount, or 1 for available and 0 for not.
PriceClaim(loc, class, quoted, token) ==
    [kind |-> "price", key |-> <<loc, class>>, quoted |-> quoted, text_token |-> token]

AvailabilityClaim(loc, class, available, token) ==
    [kind |-> "availability", key |-> <<loc, class>>, quoted |-> IF available THEN 1 ELSE 0,
     text_token |-> token]

-----------------------------------------------------------------------------
(* BookingAPIMock.verify *)

Tolerance == 1

Result(status, token) == [status |-> status, correct_token |-> token]

\* The world knows what is claimed; of places, classes and days it does not cover it has
\* no card.
HasCard(claim) == claim.key \in IF claim.kind = "price" THEN DOMAIN Rate ELSE DOMAIN Available

\* KeyError is not among the exceptions verify catches.
VerifyRaises(claim, down) == claim.key \notin down /\ ~HasCard(claim)

\* Within the tolerance, or the same availability.
IsLive(claim) ==
    IF claim.kind = "price"
    THEN Rate[claim.key] - claim.quoted \in -Tolerance..Tolerance
    ELSE (claim.quoted = 1) <=> (Available[claim.key] > 0)

\* What the claim should have said: prices are written in pounds everywhere.
LiveToken(claim) ==
    IF claim.kind = "price" THEN Pounds(Rate[claim.key])
    ELSE Phrase(IF Available[claim.key] > 0 THEN "available" ELSE "not currently available")

\* Bug: a claim that cannot be checked is let through.
Verify_trusting(claim, down) ==
    IF claim.key \in down \/ IsLive(claim) THEN Result("ok", Words)
    ELSE Result("wrong", LiveToken(claim))

\* The hard rule: a claim the API fails on is unverifiable. Unless VerifyRaises.
Verify(claim, down) ==
    CASE claim.key \in down -> Result("unverifiable", Words)
      [] claim.key \notin down /\ IsLive(claim) -> Result("ok", Words)
      [] OTHER -> Result("wrong", LiveToken(claim))

-----------------------------------------------------------------------------
(* apply_verification *)

KindPriority == [llm |-> 0, verified |-> 1, corrected |-> 2, stripped |-> 3]

MaxKind(a, b) == IF KindPriority[a] >= KindPriority[b] THEN a ELSE b

StripPhrase == Phrase("the current live rate")

\* str.replace, for tokens that are fragments of their own.
Replaced(text, old, new) == [i \in DOMAIN text |-> IF text[i] = old THEN new ELSE text[i]]

Settled(message, claim, result) ==
    CASE result.status = "ok" ->
             [message EXCEPT !.kind = MaxKind(@, "verified")]
      [] result.status = "wrong" ->
             [text |-> Replaced(message.text, claim.text_token, result.correct_token),
              kind |-> MaxKind(message.kind, "corrected")]
      [] OTHER ->
             [text |-> Replaced(message.text, claim.text_token, StripPhrase),
              kind |-> MaxKind(message.kind, "stripped")]

\* Claim after claim, each on the text the one before it left.
ApplyVerification(text, claims, results) ==
    LET after[n \in 0..Len(claims)] ==
            IF n = 0 THEN [text |-> text, kind |-> "llm"]
            ELSE Settled(after[n - 1], claims[n], results[n])
    IN  after[Len(claims)]

-----------------------------------------------------------------------------
(* M05, M09 and M12 *)

\* would_fire, on the ages of the prior engagements.
WouldFire(ages, cap) == Cardinality({i \in DOMAIN ages : ages[i] < cap.per}) < cap.max

Threshold == 50

\* decide_llm on a response; confidence is in percent, a set of one, {} for None.
\* A text without words is one that strip() leaves empty.
DecideLLM(response) ==
    IF response.text = <<>> \/ \E c \in response.confidence : c < Threshold
    THEN "fallback" ELSE "use"

Localised == {"en", "de", "fr", "es"}

FallbackMessage(language) ==
    <<<<"fallback", IF language \in Localised THEN language ELSE "en">>>>

\* Bug: a customer who does not answer is handed off.
TerminalState_ignoringSilence(responded, resolves) ==
    IF resolves = {TRUE} THEN "converted" ELSE "handed_off"

\* `resolves` is a set of one, {} for None.
TerminalState(responded, resolves) ==
    CASE ~responded -> "no_engagement"
      [] responded /\ resolves = {TRUE} -> "converted"
      [] OTHER -> "handed_off"

=============================================================================
