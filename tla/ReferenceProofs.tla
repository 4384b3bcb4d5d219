-------------------------- MODULE ReferenceProofs --------------------------
(***************************************************************************)
(* The reference rules, for every rate and every draft: what the fee rules *)
(* charge, what the prices of a booking have to do with each other, what   *)
(* the customer reads of a draft, and that a session with a customer keeps *)
(* M10's hard rule whenever the booking API fails.                         *)
(***************************************************************************)
EXTENDS ChatSession, Bookings, SequenceTheorems, FiniteSetTheorems, WellFoundedInduction, TLAPS

-----------------------------------------------------------------------------
(* Fees *)

\* durations.py:35-37: within the grace period nothing is charged; beyond it the
\* days charged are those that have started, and no more.
THEOREM StartedDays ==
    ASSUME NEW overdue \in Int, NEW grace \in Nat
    PROVE  /\ overdue <= grace => ExtraDays(overdue, grace) = 0
           /\ overdue > grace =>
                 /\ ExtraDays(overdue, grace) \in Nat \ {0}
                 /\ overdue <= ExtraDays(overdue, grace) * DayLength
                 /\ (ExtraDays(overdue, grace) - 1) * DayLength < overdue
BY DEF ExtraDays, DayLength

\* Coming back later never costs fewer days (durations.py:39-41).
THEOREM LaterCostsMore ==
    ASSUME NEW grace \in Nat, NEW sooner \in Int, NEW later \in Int, sooner <= later
    PROVE  ExtraDays(sooner, grace) <= ExtraDays(later, grace)
BY DEF ExtraDays, DayLength

LEMMA DisputedDays == ExtraDays(Grace + 180, Grace) = 1 /\ ExtraDays(20, Grace) = 0
BY DEF ExtraDays, DayLength, Grace, FeeRules

\* In every world, whatever its rates, each dispute fixture pins the amount that the
\* fee rules charge for what it says happened (scenarios.py:309-415).
THEOREM EveryWorldGrounded == DisputesGrounded
<1> USE FeesAssumption DEF Grounded, Due, Charged, Amount, Dispute, Booking, Completed, LateDays
<1>1. Grounded(FD01)
  BY DisputedDays DEF FD01, Grace
<1>2. Grounded(FD02)
  BY DisputedDays DEF FD02, Grace
<1>3. Grounded(FD03)
  BY DEF FD03, FeeRules
<1>4. Grounded(FD04)
  BY DEF FD04, FuelCharge, FeeRules
<1>5. Grounded(FD05)
  BY DEF FD05, AllowsOneWay
<1>6. QED
  BY <1>1, <1>2, <1>3, <1>4, <1>5 DEF DisputesGrounded, Disputes

-----------------------------------------------------------------------------
(* The world and the bookings in it *)

\* build() emits one rate card for each station and class, no matter in which pass
\* (world.py:262-297): no search and no claim of the data finds none or two.
THEOREM CardsOnce == EveryCardOnce
<1>1. Passes[1] = Locations \X CarClasses /\ Passes[2] = Locations \X VanClasses
      /\ Passes[3] = (AllLocations \X AllClasses) \ Covered
  BY DEF Passes
<1>2. CarClasses \cap VanClasses = {}
  BY DEF CarClasses, VanClasses
<1>3. Passes[1] \cap Passes[2] = {} /\ Passes[1] \cap Passes[3] = {} /\ Passes[2] \cap Passes[3] = {}
  BY <1>1, <1>2 DEF Covered
<1>4. Passes[1] \cup Passes[2] \cup Passes[3] = AllLocations \X AllClasses
  BY <1>1 DEF Covered, AllLocations, AllClasses
<1>5. UNION {Passes[i] : i \in 1..3} = Passes[1] \cup Passes[2] \cup Passes[3]
  OBVIOUS
<1>6. \A i, j \in 1..3 : i # j => Passes[i] \cap Passes[j] = {}
  BY <1>3
<1> QED
  BY <1>4, <1>5, <1>6 DEF EveryCardOnce

\* One-way destinations and the fee agree (customers.py:102-109, 184-186): the fee is
\* "set when dropoff != pickup" (models.py:295), and only then.
THEOREM OneWayFeeIffElsewhere ==
    ASSUME NEW loc, NEW dropoff \in Dropoffs(loc), NEW class, NEW type, NEW status
    PROVE  Charged("one_way", Made(loc, dropoff, class, type, status)) <=> dropoff # loc
BY DEF Dropoffs, OneWayDestinations, AllowsOneWay, Charged, Made, Booking

LEMMA RoundedBounds ==
    ASSUME NEW n \in Nat, NEW d \in Nat \ {0}, NEW least \in Nat, least * d <= n
    PROVE  Rounded(n, d) \in Nat /\ least <= Rounded(n, d) /\ Rounded(n, d) <= n
<1>1. PICK q, r : q = n \div d /\ r = n % d
  OBVIOUS
<1>2. q \in Nat /\ r \in 0..(d - 1) /\ n = d * q + r
  BY <1>1
<1>3. least <= q
  <2> SUFFICES ASSUME q + 1 <= least PROVE FALSE
    BY <1>2
  <2>1. d * (q + 1) <= d * least
    BY <1>2
  <2> QED
    BY <1>2, <2>1
<1>4. q <= n
  BY <1>2
<1>5. 2 * r > d \/ 2 * r = d => q + 1 <= n
  BY <1>2
<1>6. Rounded(n, d) = IF 2 * r > d \/ (2 * r = d /\ q % 2 = 1) THEN q + 1 ELSE q
  BY <1>1 DEF Rounded
<1> QED
  BY <1>2, <1>3, <1>4, <1>5, <1>6

\* The VAT part of a total is a sixth of it, to the penny (customers.py:134).
THEOREM TaxIsASixth ==
    ASSUME NEW total \in Nat
    PROVE  6 * Vat(total) \in (total - 3)..(total + 3)
BY DEF Vat, Rounded

\* Whoever cancels late pays at least what whoever does not come at all pays, and at
\* most the whole booking: the one is a day's share of the total, add-ons and one-way
\* fee included (customers.py:203-207), the other a day's rate (catalogues.py:31-37).
THEOREM CancellingCostsNoLess ==
    ASSUME NEW b, NEW days \in Nat \ {0}, NEW picked \in SUBSET Pickable,
           b.daily \in Nat, Due("one_way", b) \in Nat
    PROVE  /\ Amount("no_show", b) <= CancellationFee(Total(b, days, picked), days)
           /\ CancellationFee(Total(b, days, picked), days) <= Total(b, days, picked)
<1>1. AddOns(picked, days) \in Nat
  BY DEF AddOns, ExtraPrice, ProtectionPrice
<1>2. PICK total : total = Total(b, days, picked)
  OBVIOUS
<1>3. total \in Nat /\ b.daily * days <= total
  BY <1>1, <1>2 DEF Total
<1>4. b.daily <= Rounded(total, days) /\ Rounded(total, days) <= total
  BY <1>3, RoundedBounds
<1>5. Amount("no_show", b) = b.daily
  BY DEF Amount, FeeRules
<1> QED
  BY <1>2, <1>4, <1>5 DEF CancellationFee

-----------------------------------------------------------------------------
(* Verification: what is left of a draft after its claims *)

\* Induction over the numbers, for a set.
LEMMA SetInduction ==
    ASSUME NEW S \in SUBSET Nat, 0 \in S, \A n \in S : n + 1 \in S
    PROVE  S = Nat
<1> SUFFICES ASSUME Nat \ S # {} PROVE FALSE
  OBVIOUS
<1>1. PICK x \in Nat \ S : \A y \in Nat \ S : ~(<<y, x>> \in OpToRel(<, Nat))
  BY NatLessThanWellFounded, WFMin
<1>2. \A y \in Nat \ S : ~(y < x)
  BY <1>1 DEF OpToRel
<1>3. x - 1 \in S
  BY <1>2
<1> QED
  BY <1>3

\* The message after the first n claims, for every n up to some number.
Chain(after, upto, text, claims, answers) ==
    after = [n \in 0..upto |-> IF n = 0 THEN [text |-> text, kind |-> "llm"]
                               ELSE Settled(after[n - 1], claims[n], answers[n])]

LEMMA ChainExists ==
    ASSUME NEW text, NEW claims, NEW answers, NEW upto \in Nat
    PROVE  \E after : Chain(after, upto, text, claims, answers)
<1> DEFINE start == [text |-> text, kind |-> "llm"]
           next(message, n) == Settled(message, claims[n], answers[n])
           Rec(after, k) == after = [n \in 0..k |-> IF n = 0 THEN start ELSE next(after[n - 1], n)]
           S == {k \in Nat : \E after : Rec(after, k)}
<1> HIDE DEF start, next
<1>1. 0 \in S
  <2>1. Rec([n \in 0..0 |-> start], 0)
    OBVIOUS
  <2> QED
    BY <2>1
<1>2. ASSUME NEW k \in S PROVE k + 1 \in S
  <2>1. PICK f : Rec(f, k)
    OBVIOUS
  <2> DEFINE g == [n \in 0..(k + 1) |-> IF n = k + 1 THEN next(f[k], n) ELSE f[n]]
  <2>2. Rec(g, k + 1)
    <3>1. \A n \in 0..k : g[n] = f[n]
      OBVIOUS
    <3>2. \A n \in 0..k : f[n] = IF n = 0 THEN start ELSE next(f[n - 1], n)
      BY <2>1
    <3>3. ASSUME NEW n \in 0..(k + 1) PROVE g[n] = IF n = 0 THEN start ELSE next(g[n - 1], n)
      BY <3>1, <3>2
    <3>4. g = [n \in 0..(k + 1) |-> g[n]]
      OBVIOUS
    <3> HIDE DEF g
    <3> QED
      BY <3>3, <3>4
  <2> HIDE DEF Rec, g
  <2> QED
    BY <2>2
<1> HIDE DEF Rec
<1>3. S \in SUBSET Nat
  OBVIOUS
<1> HIDE DEF S
<1>4. upto \in S
  BY <1>1, <1>2, <1>3, SetInduction
<1> QED
  BY <1>4 DEF S, Rec, Chain, start, next

LEMMA VerificationUnfolds ==
    ASSUME NEW text, NEW claims, NEW answers, Len(claims) \in Nat
    PROVE  \E after : /\ Chain(after, Len(claims), text, claims, answers)
                      /\ ApplyVerification(text, claims, answers) = after[Len(claims)]
<1> DEFINE after == CHOOSE f :
                      f = [n \in 0..Len(claims) |->
                             IF n = 0 THEN [text |-> text, kind |-> "llm"]
                             ELSE Settled(f[n - 1], claims[n], answers[n])]
<1>1. Chain(after, Len(claims), text, claims, answers)
  BY ChainExists DEF Chain
<1>2. ApplyVerification(text, claims, answers) = after[Len(claims)]
  BY DEF ApplyVerification
<1> HIDE DEF after
<1> QED
  BY <1>1, <1>2

Kinds == DOMAIN KindPriority

\* A message in the making of a draft with that text.
IsMessage(message, text) ==
    /\ message = [text |-> message.text, kind |-> message.kind]
    /\ message.kind \in Kinds /\ DOMAIN message.text = DOMAIN text

\* One claim is settled: the kind rises, and its token's places are written over.
LEMMA SettledMessage ==
    ASSUME NEW text, NEW message, IsMessage(message, text), NEW claim, NEW result
    PROVE  /\ IsMessage(Settled(message, claim, result), text)
           /\ Settled(message, claim, result).kind \in {"llm", "verified"} =>
                 result.status = "ok" /\ message.kind \in {"llm", "verified"}
           /\ \A j \in DOMAIN text :
                 Settled(message, claim, result).text[j] =
                    IF message.text[j] # claim.text_token \/ result.status = "ok"
                    THEN message.text[j]
                    ELSE IF result.status = "wrong" THEN result.correct_token ELSE StripPhrase
<1>1. Kinds = {"llm", "verified", "corrected", "stripped"}
  BY DEF Kinds, KindPriority
<1>2. ASSUME NEW kind \in Kinds
      PROVE  /\ MaxKind(message.kind, kind) \in Kinds
             /\ MaxKind(message.kind, kind) \in {"llm", "verified"} =>
                   kind \in {"llm", "verified"} /\ message.kind \in {"llm", "verified"}
  BY <1>1 DEF IsMessage, MaxKind, KindPriority
<1>3. CASE result.status = "ok"
  <2>1. Settled(message, claim, result)
           = [text |-> message.text, kind |-> MaxKind(message.kind, "verified")]
    BY <1>3 DEF Settled, IsMessage
  <2> QED
    BY <1>1, <1>2, <1>3, <2>1 DEF IsMessage
<1>4. CASE result.status = "wrong"
  <2>1. Settled(message, claim, result)
           = [text |-> Replaced(message.text, claim.text_token, result.correct_token),
              kind |-> MaxKind(message.kind, "corrected")]
    BY <1>4 DEF Settled
  <2> QED
    BY <1>1, <1>2, <1>4, <2>1 DEF IsMessage, Replaced
<1>5. CASE result.status \notin {"ok", "wrong"}
  <2>1. Settled(message, claim, result)
           = [text |-> Replaced(message.text, claim.text_token, StripPhrase),
              kind |-> MaxKind(message.kind, "stripped")]
    BY <1>5 DEF Settled
  <2> QED
    BY <1>1, <1>2, <1>5, <2>1 DEF IsMessage, Replaced
<1> QED
  BY <1>3, <1>4, <1>5

LEMMA VerifyDecides ==
    ASSUME NEW claim, NEW keys, NEW result, result = Verify(claim, keys)
    PROVE  /\ result.status \in {"ok", "wrong", "unverifiable"}
           /\ result.status = "ok" => IsLive(claim)
           /\ result.status = "wrong" => result.correct_token = LiveToken(claim)
           /\ ~VerifyRaises(claim, keys) /\ result.status # "unverifiable" => HasCard(claim)
BY DEF Verify, Result, VerifyRaises

\* The claims have been verified, each when the API failed on some of the keys and
\* without raising.
Answered(claims, answers) ==
    \A i \in DOMAIN claims : \E keys \in SUBSET Keys :
        ~VerifyRaises(claims[i], keys) /\ answers[i] = Verify(claims[i], keys)

\* apply_verification (reference.py:69-98): where no two claims are written alike, the
\* text holds for each claim what its own verification allows, whatever the others'
\* corrections write; and a claim that was not found right leaves its mark on the kind.
THEOREM VerificationStands ==
    ASSUME NEW text, NEW claims, NEW answers, claims \in Seq(ToSet(claims)),
           Answered(claims, answers), Apart(claims)
    PROVE  /\ \A i \in DOMAIN claims : \A j \in PlacesOf(claims[i], text) :
                 ApplyVerification(text, claims, answers).text[j]
                    = Allowed(claims[i], answers[i].status)
           /\ ApplyVerification(text, claims, answers).kind = "verified" =>
                 \A i \in DOMAIN claims : answers[i].status = "ok"
<1>1. Len(claims) \in Nat /\ DOMAIN claims = 1..Len(claims)
  OBVIOUS
<1>2. PICK after : /\ Chain(after, Len(claims), text, claims, answers)
                   /\ ApplyVerification(text, claims, answers) = after[Len(claims)]
  BY <1>1, VerificationUnfolds
<1>3. /\ after[0] = [text |-> text, kind |-> "llm"]
      /\ \A n \in 1..Len(claims) : after[n] = Settled(after[n - 1], claims[n], answers[n])
  BY <1>1, <1>2 DEF Chain
<1> DEFINE Right(n) ==
             /\ IsMessage(after[n], text)
             /\ after[n].kind \in {"llm", "verified"} => \A i \in 1..n : answers[i].status = "ok"
             /\ \A i \in 1..Len(claims) : \A j \in PlacesOf(claims[i], text) :
                   after[n].text[j] = IF i <= n THEN Allowed(claims[i], answers[i].status)
                                      ELSE claims[i].text_token
           S == {n \in Nat : n <= Len(claims) => Right(n)}
<1>4. Right(0)
  BY <1>3 DEF IsMessage, PlacesOf, Kinds, KindPriority
<1>5. ASSUME NEW n \in Nat, n + 1 <= Len(claims), Right(n) PROVE Right(n + 1)
  <2>1. PICK k : k = n + 1
    OBVIOUS
  <2>2. k \in 1..Len(claims) /\ k - 1 = n /\ k \in Nat
    BY <1>1, <1>5, <2>1
  <2>3. after[k] = Settled(after[n], claims[k], answers[k])
    BY <1>3, <2>2
  <2>4. /\ answers[k].status \in {"ok", "wrong", "unverifiable"}
        /\ answers[k].status = "wrong" => answers[k].correct_token = LiveToken(claims[k])
        /\ \A i \in 1..Len(claims) : answers[i].status = "wrong" => HasCard(claims[i])
    BY <1>1, <2>2, VerifyDecides DEF Answered
  <2>5. /\ IsMessage(after[k], text)
        /\ after[k].kind \in {"llm", "verified"} =>
              answers[k].status = "ok" /\ after[n].kind \in {"llm", "verified"}
        /\ \A j \in DOMAIN text :
              after[k].text[j] = IF after[n].text[j] # claims[k].text_token \/ answers[k].status = "ok"
                                 THEN after[n].text[j]
                                 ELSE IF answers[k].status = "wrong" THEN answers[k].correct_token
                                      ELSE StripPhrase
    BY <1>5, <2>3, SettledMessage
  <2>6. after[k].kind \in {"llm", "verified"} => \A i \in 1..k : answers[i].status = "ok"
    <3>1. \A i \in 1..k : i = k \/ i \in 1..n
      BY <2>2
    <3> QED
      BY <1>5, <2>5, <3>1
  <2>7. ASSUME NEW i \in 1..Len(claims), NEW j \in PlacesOf(claims[i], text)
        PROVE  after[k].text[j] = IF i <= k THEN Allowed(claims[i], answers[i].status)
                                  ELSE claims[i].text_token
    <3>1. j \in DOMAIN text
      BY DEF PlacesOf
    <3>2. after[n].text[j] = IF i <= n THEN Allowed(claims[i], answers[i].status)
                             ELSE claims[i].text_token
      BY <1>5
    <3>3. CASE i = k
      <4>1. ~(i <= n) /\ i <= k
        BY <2>2, <3>3
      <4>2. after[n].text[j] = claims[k].text_token
        BY <3>2, <3>3, <4>1
      <4>3. after[k].text[j] = Allowed(claims[k], answers[k].status)
        BY <2>4, <2>5, <3>1, <4>2 DEF Allowed
      <4> QED
        BY <3>3, <4>1, <4>3
    <3>4. CASE i # k
      <4>1. i <= k <=> i <= n
        BY <2>2, <3>4
      <4>2. claims[k].text_token \notin {claims[i].text_token} \cup Replacements(claims[i])
        BY <1>1, <2>2, <3>4 DEF Apart
      <4>3. after[n].text[j] \in {claims[i].text_token} \cup Replacements(claims[i])
        BY <2>4, <3>2 DEF Allowed, Replacements
      <4>4. after[k].text[j] = after[n].text[j]
        BY <2>5, <3>1, <4>2, <4>3
      <4> QED
        BY <3>2, <4>1, <4>4
    <3> QED
      BY <3>3, <3>4
  <2> QED
    BY <2>1, <2>5, <2>6, <2>7
<1> HIDE DEF Right
<1>6. /\ S \in SUBSET Nat /\ 0 \in S /\ \A n \in S : n + 1 \in S
  <2>1. ASSUME NEW n \in S PROVE n + 1 \in S
    <3>1. n \in Nat /\ n + 1 \in Nat /\ (n + 1 <= Len(claims) => n <= Len(claims))
      BY <1>1
    <3> QED
      BY <1>5, <3>1
  <2> QED
    BY <1>4, <2>1
<1> HIDE DEF S
<1>7. S = Nat
  BY <1>6, SetInduction
<1>8. Right(Len(claims))
  BY <1>1, <1>7 DEF S
<1>9. \A i \in 1..Len(claims) : i <= Len(claims)
  BY <1>1
<1> QED
  BY <1>1, <1>2, <1>8, <1>9 DEF Right

-----------------------------------------------------------------------------
(* The scripts: what is played is made of sequences *)

IsSequence(s) == s \in Seq(ToSet(s))

LEMMA FunctionIsSequence ==
    ASSUME NEW n \in Nat, NEW f, f = [i \in 1..n |-> f[i]]
    PROVE  IsSequence(f) /\ Len(f) = n
BY DEF IsSequence, ToSet

LEMMA SequenceFacts ==
    ASSUME NEW s, IsSequence(s)
    PROVE  /\ Len(s) \in Nat /\ DOMAIN s = 1..Len(s) /\ s = [i \in 1..Len(s) |-> s[i]]
           /\ ToSet(s) = {s[i] : i \in 1..Len(s)}
BY DEF IsSequence, ToSet

LEMMA EmptySequence == IsSequence(<<>>) /\ Len(<<>>) = 0 /\ DOMAIN <<>> = {} /\ ToSet(<<>>) = {}
BY DEF IsSequence, ToSet

LEMMA Appended ==
    ASSUME NEW s, IsSequence(s), NEW e
    PROVE  /\ IsSequence(Append(s, e)) /\ Len(Append(s, e)) = Len(s) + 1
           /\ \A i \in 1..Len(s) : Append(s, e)[i] = s[i]
           /\ Append(s, e)[Len(s) + 1] = e
           /\ ToSet(Append(s, e)) = ToSet(s) \cup {e}
<1>1. Len(s) \in Nat /\ DOMAIN s = 1..Len(s) /\ ToSet(s) = {s[i] : i \in 1..Len(s)}
  BY SequenceFacts
<1>2. PICK t : t = Append(s, e)
  OBVIOUS
<1>3. /\ t \in Seq(ToSet(s) \cup {e}) /\ Len(t) = Len(s) + 1
      /\ \A i \in 1..Len(s) : t[i] = s[i]
      /\ t[Len(s) + 1] = e
  BY <1>1, <1>2, s \in Seq(ToSet(s) \cup {e}) DEF IsSequence
<1>4. Len(s) + 1 \in Nat /\ DOMAIN t = 1..(Len(s) + 1) /\ t = [i \in 1..(Len(s) + 1) |-> t[i]]
  BY <1>1, <1>3
<1>5. IsSequence(t)
  BY <1>4, FunctionIsSequence
<1>6. 1..(Len(s) + 1) = 1..Len(s) \cup {Len(s) + 1}
  BY <1>1
<1>7. ToSet(t) = ToSet(s) \cup {e}
  <2>1. ToSet(t) = {t[i] : i \in 1..(Len(s) + 1)}
    BY <1>4 DEF ToSet
  <2>2. {t[i] : i \in 1..Len(s)} = ToSet(s)
    BY <1>1, <1>3
  <2> QED
    BY <1>3, <1>6, <2>1, <2>2
<1> QED
  BY <1>2, <1>3, <1>5, <1>7

IsTurn(turn) == IsSequence(turn.claims)

Playable(turns) == IsSequence(turns) /\ \A i \in DOMAIN turns : IsTurn(turns[i])

LEMMA OneOf == ASSUME NEW a PROVE IsSequence(<<a>>)
BY FunctionIsSequence, <<a>> = [i \in 1..1 |-> <<a>>[i]]

LEMMA TurnsAre ==
    /\ \A slots : IsTurn(Cust(slots))
    /\ IsTurn(Says) /\ IsTurn(HandsOff)
    /\ \A loc, class, off : IsTurn(Quotes(loc, class, off)) /\ IsTurn(QuotesPounds(loc, class, off))
    /\ \A text, claim : IsTurn(Bot(text, <<claim>>))
<1>1. ASSUME NEW text, NEW claim PROVE IsTurn(Bot(text, <<claim>>))
  BY OneOf DEF IsTurn, Bot
<1>2. IsTurn(Says) /\ IsTurn(HandsOff) /\ \A slots : IsTurn(Cust(slots))
  BY EmptySequence DEF IsTurn, Says, HandsOff, Bot, Cust
<1> QED
  BY <1>1, <1>2 DEF Quotes, QuotesPounds

LEMMA TurnsPlayable ==
    ASSUME NEW S, NEW s, s \in Seq(S), \A turn \in S : IsTurn(turn)
    PROVE  Playable(s)
<1>1. Len(s) \in Nat /\ s = [i \in 1..Len(s) |-> s[i]] /\ \A i \in 1..Len(s) : s[i] \in S
  OBVIOUS
<1> QED
  BY <1>1, FunctionIsSequence DEF Playable

LEMMA OneTurn ==
    ASSUME NEW a,
           IsTurn(a)
    PROVE  Playable(<<a>>)
<1>1. PICK s : s = <<a>>
  OBVIOUS
<1>2. s \in Seq({a})
  BY <1>1
<1>3. Playable(s)
  BY <1>2, TurnsPlayable
<1> QED
  BY <1>1, <1>3

LEMMA TwoTurns ==
    ASSUME NEW a, NEW b,
           IsTurn(a), IsTurn(b)
    PROVE  Playable(<<a, b>>)
<1>1. PICK s : s = <<a, b>>
  OBVIOUS
<1>2. s \in Seq({a, b})
  BY <1>1
<1>3. Playable(s)
  BY <1>2, TurnsPlayable
<1> QED
  BY <1>1, <1>3

LEMMA ThreeTurns ==
    ASSUME NEW a, NEW b, NEW c,
           IsTurn(a), IsTurn(b), IsTurn(c)
    PROVE  Playable(<<a, b, c>>)
<1>1. PICK s : s = <<a, b, c>>
  OBVIOUS
<1>2. s \in Seq({a, b, c})
  BY <1>1
<1>3. Playable(s)
  BY <1>2, TurnsPlayable
<1> QED
  BY <1>1, <1>3

LEMMA FourTurns ==
    ASSUME NEW a, NEW b, NEW c, NEW d,
           IsTurn(a), IsTurn(b), IsTurn(c), IsTurn(d)
    PROVE  Playable(<<a, b, c, d>>)
<1>1. PICK s : s = <<a, b, c, d>>
  OBVIOUS
<1>2. s \in Seq({a, b, c, d})
  BY <1>1
<1>3. Playable(s)
  BY <1>2, TurnsPlayable
<1> QED
  BY <1>1, <1>3

LEMMA SixTurns ==
    ASSUME NEW a, NEW b, NEW c, NEW d, NEW e, NEW f,
           IsTurn(a), IsTurn(b), IsTurn(c), IsTurn(d), IsTurn(e), IsTurn(f)
    PROVE  Playable(<<a, b, c, d, e, f>>)
<1>1. PICK s : s = <<a, b, c, d, e, f>>
  OBVIOUS
<1>2. s \in Seq({a, b, c, d, e, f})
  BY <1>1
<1>3. Playable(s)
  BY <1>2, TurnsPlayable
<1> QED
  BY <1>1, <1>3

LEMMA EightTurns ==
    ASSUME NEW a, NEW b, NEW c, NEW d, NEW e, NEW f, NEW g, NEW h,
           IsTurn(a), IsTurn(b), IsTurn(c), IsTurn(d), IsTurn(e), IsTurn(f), IsTurn(g), IsTurn(h)
    PROVE  Playable(<<a, b, c, d, e, f, g, h>>)
<1>1. PICK s : s = <<a, b, c, d, e, f, g, h>>
  OBVIOUS
<1>2. s \in Seq({a, b, c, d, e, f, g, h})
  BY <1>1
<1>3. Playable(s)
  BY <1>2, TurnsPlayable
<1> QED
  BY <1>1, <1>3

\* The turns up to a branch and then the branch's.
LEMMA BranchTurns ==
    ASSUME NEW tree, IsSequence(tree.turns), NEW branch, IsSequence(branch.turns),
           branch.from_turn \in Nat, branch.from_turn <= Len(tree.turns)
    PROVE  /\ IsSequence(BranchPath(tree, branch))
           /\ Len(BranchPath(tree, branch)) = branch.from_turn + Len(branch.turns)
           /\ \A i \in 1..branch.from_turn : BranchPath(tree, branch)[i] = tree.turns[i]
           /\ \A i \in 1..Len(branch.turns) :
                 BranchPath(tree, branch)[branch.from_turn + i] = branch.turns[i]
<1>1. PICK turns, upto, more : turns = tree.turns /\ upto = branch.from_turn /\ more = branch.turns
  OBVIOUS
<1>2. upto \in Nat /\ upto <= Len(turns)
  BY <1>1
<1>3. PICK S : S = ToSet(turns) \cup ToSet(more)
  OBVIOUS
<1>4. turns \in Seq(S) /\ more \in Seq(S)
  <2>1. ASSUME NEW s, IsSequence(s), ToSet(s) \subseteq S PROVE s \in Seq(S)
    BY <2>1, SequenceFacts DEF IsSequence
  <2> QED
    BY <1>1, <1>3, <2>1
<1>5. PICK head : head = SubSeq(turns, 1, upto)
  OBVIOUS
<1>6. head \in Seq(S) /\ Len(head) = upto /\ \A i \in 1..upto : head[i] = turns[i]
  BY <1>2, <1>4, <1>5
<1>7. PICK s : s = head \o more
  OBVIOUS
<1>8. /\ s \in Seq(S) /\ Len(s) = upto + Len(more)
      /\ \A i \in 1..Len(s) : s[i] = IF i <= upto THEN head[i] ELSE more[i - upto]
  BY <1>2, <1>4, <1>6, <1>7
<1>9. Len(more) \in Nat /\ Len(s) \in Nat /\ s = [i \in 1..Len(s) |-> s[i]]
  BY <1>4, <1>8
<1>10. IsSequence(s)
  BY <1>9, FunctionIsSequence
<1>11. \A i \in 1..upto : s[i] = turns[i]
  <2>1. \A i \in 1..upto : i \in 1..Len(s) /\ i <= upto
    BY <1>8, <1>9, <1>2
  <2> QED
    BY <1>6, <1>8, <2>1
<1>12. \A i \in 1..Len(more) : s[upto + i] = more[i]
  <2>1. \A i \in 1..Len(more) : /\ upto + i \in 1..Len(s) /\ ~(upto + i <= upto)
                                /\ (upto + i) - upto = i
    BY <1>8, <1>9, <1>2
  <2> QED
    BY <1>8, <2>1
<1>13. BranchPath(tree, branch) = s
  BY <1>1, <1>5, <1>7 DEF BranchPath
<1> QED
  BY <1>1, <1>8, <1>10, <1>11, <1>12, <1>13

LEMMA PlayableBranch ==
    ASSUME NEW tree, Playable(tree.turns), NEW branch, Playable(branch.turns),
           branch.from_turn \in Nat, branch.from_turn <= Len(tree.turns)
    PROVE  Playable(BranchPath(tree, branch))
<1>1. PICK turns, upto, more, s : /\ turns = tree.turns /\ upto = branch.from_turn
                                  /\ more = branch.turns /\ s = BranchPath(tree, branch)
  OBVIOUS
<1>2. /\ IsSequence(s) /\ Len(s) = upto + Len(more)
      /\ \A i \in 1..upto : s[i] = turns[i]
      /\ \A i \in 1..Len(more) : s[upto + i] = more[i]
  <2>1. /\ IsSequence(tree.turns) /\ IsSequence(branch.turns)
        /\ branch.from_turn \in Nat /\ branch.from_turn <= Len(tree.turns)
    BY DEF Playable
  <2>2. /\ IsSequence(BranchPath(tree, branch))
        /\ Len(BranchPath(tree, branch)) = branch.from_turn + Len(branch.turns)
        /\ \A i \in 1..branch.from_turn : BranchPath(tree, branch)[i] = tree.turns[i]
        /\ \A i \in 1..Len(branch.turns) :
              BranchPath(tree, branch)[branch.from_turn + i] = branch.turns[i]
    BY <2>1, BranchTurns
  <2> QED
    BY <1>1, <2>2
<1>3. /\ Len(turns) \in Nat /\ DOMAIN turns = 1..Len(turns) /\ DOMAIN s = 1..Len(s)
      /\ Len(more) \in Nat /\ DOMAIN more = 1..Len(more) /\ upto \in Nat /\ upto <= Len(turns)
  BY <1>1, <1>2, SequenceFacts DEF Playable
<1>4. ASSUME NEW i \in 1..Len(s) PROVE IsTurn(s[i])
  <2>1. CASE i <= upto
    <3>1. i \in 1..upto /\ i \in DOMAIN turns
      BY <1>2, <1>3, <2>1
    <3> QED
      BY <1>1, <1>2, <3>1 DEF Playable
  <2>2. CASE ~(i <= upto)
    <3>1. i - upto \in 1..Len(more) /\ upto + (i - upto) = i
      BY <1>2, <1>3, <2>2
    <3>2. s[i] = more[i - upto] /\ i - upto \in DOMAIN more
      <4>1. PICK j : j = i - upto
        OBVIOUS
      <4> QED
        BY <1>2, <1>3, <3>1, <4>1
    <3> QED
      BY <1>1, <3>2 DEF Playable
  <2> QED
    BY <2>1, <2>2
<1> QED
  BY <1>1, <1>2, <1>3, <1>4 DEF Playable

LEMMA TreesPlayable ==
    ASSUME NEW tree \in Trees
    PROVE  /\ Playable(tree.turns)
           /\ \A branch \in tree.branches :
                 Playable(branch.turns) /\ branch.from_turn \in Nat /\ branch.from_turn <= Len(tree.turns)
<1> USE TurnsAre DEF Tree, Branch
<1>1. CASE tree = CV02
  BY <1>1, ThreeTurns DEF CV02
<1>2. CASE tree = CV05
  BY <1>2, ThreeTurns DEF CV05
<1>3. CASE tree = CV06
  BY <1>3, ThreeTurns DEF CV06
<1>4. CASE tree = CV07
  BY <1>4, ThreeTurns DEF CV07
<1>5. CASE tree = CV08
  BY <1>5, ThreeTurns DEF CV08
<1>6. CASE tree = CV11
  BY <1>6, ThreeTurns DEF CV11
<1>7. CASE tree = CV14
  BY <1>7, ThreeTurns DEF CV14
<1>8. CASE tree = CV15
  BY <1>8, ThreeTurns DEF CV15
<1>9. CASE tree = CV12
  BY <1>9, TwoTurns DEF CV12
<1>10. CASE tree = CV13
  BY <1>10, TwoTurns DEF CV13
<1>11. CASE tree = CV09
  BY <1>11, FourTurns DEF CV09
<1>12. CASE tree = CV10
  BY <1>12, FourTurns DEF CV10
<1>13. CASE tree = CV01
  BY <1>13, EightTurns DEF CV01
<1>14. CASE tree = CV03
  BY <1>14, SixTurns DEF CV03
<1>15. CASE tree = CV04
  BY <1>15, FourTurns, TwoTurns DEF CV04
<1>16. CASE tree = CV16
  BY <1>16, FourTurns, OneTurn DEF CV16
<1>17. CASE tree = CV17
  BY <1>17, SixTurns, TwoTurns DEF CV17
<1> QED
  BY <1>1, <1>2, <1>3, <1>4, <1>5, <1>6, <1>7, <1>8, <1>9, <1>10, <1>11, <1>12, <1>13, <1>14, <1>15, <1>16, <1>17 DEF Trees

LEMMA PathsPlayable ==
    ASSUME NEW tree \in Trees, NEW path \in Paths(tree)
    PROVE  Playable(path.turns)
<1>1. CASE path = Path(tree, tree.turns, tree.expected)
  BY <1>1, TreesPlayable DEF Path
<1>2. ASSUME NEW branch \in tree.branches, path = Path(tree, BranchPath(tree, branch), branch.expected)
      PROVE  Playable(path.turns)
  <2>1. Playable(BranchPath(tree, branch))
    BY TreesPlayable, PlayableBranch
  <2> QED
    BY <1>2, <2>1 DEF Path
<1> QED
  BY <1>1, <1>2 DEF Paths

LEMMA GoldenResponses ==
    ASSUME NEW scenario \in Golden, NEW response \in scenario.llm_response
    PROVE  IsSequence(response.claims)
<1>1. ASSUME NEW message, IsTurn(message), NEW confidence
      PROVE  IsSequence(Response(message, confidence).claims)
  BY <1>1 DEF IsTurn, Response
<1>2. CASE scenario \in {GS01, GS05, GS06}
  <2>1. GS01.llm_response = {Response(Says, 90)} /\ GS05.llm_response = {} /\ GS06.llm_response = {}
    BY DEF GS01, GS05, GS06, Scenario
  <2> QED
    BY <1>1, <1>2, <2>1, TurnsAre
<1>3. CASE scenario \in {GS02, GS03}
  <2>1. /\ GS02.llm_response = {Response(QuotesPounds("LHR", "ICAR", 0), 88)}
        /\ GS03.llm_response = {Response(QuotesPounds("LHR", "ICAR", -1000), 80)}
    BY DEF GS02, GS03, Scenario
  <2> QED
    BY <1>1, <1>3, <2>1, TurnsAre
<1>4. CASE scenario = GS04
  <2>1. GS04.llm_response = {Response(QuotesPounds("LHR", "ICAR", 0), 85)}
    BY DEF GS04, Scenario
  <2> QED
    BY <1>1, <1>4, <2>1, TurnsAre
<1>5. CASE scenario = GS07
  <2> DEFINE token == Phrase("available now")
             claim == AvailabilityClaim(SoldOut[1], SoldOut[2], TRUE, token)
  <2>1. GS07.llm_response = {Response(Bot(<<Words, token, Words>>, <<claim>>), 83)}
    BY DEF GS07, Scenario
  <2> QED
    BY <1>1, <1>5, <2>1, TurnsAre
<1> QED
  BY <1>2, <1>3, <1>4, <1>5 DEF Golden

LEMMA GoldenFailures ==
    ASSUME NEW scenario \in Golden
    PROVE  scenario.booking_api_failures \subseteq DOMAIN Rate
<1>1. GS04.booking_api_failures = {<<"LHR", "ICAR">>}
  BY DEF GS04, Scenario
<1>2. GS01.booking_api_failures = {} /\ GS02.booking_api_failures = {}
  BY DEF GS01, GS02, Scenario
<1>3. GS03.booking_api_failures = {} /\ GS05.booking_api_failures = {}
  BY DEF GS03, GS05, Scenario
<1>4. GS06.booking_api_failures = {} /\ GS07.booking_api_failures = {}
  BY DEF GS06, GS07, Scenario
<1> QED
  BY <1>1, <1>2, <1>3, <1>4, SeededAssumption DEF Golden

LEMMA ScriptsTyped ==
    ASSUME NEW s \in Scripts
    PROVE  /\ s.kind \in {"tree", "golden"}
           /\ s.kind = "tree" => Playable(s.body.turns)
           /\ s.kind # "tree" => /\ s.body.booking_api_failures \subseteq DOMAIN Rate
                                 /\ \A response \in s.body.llm_response : IsSequence(response.claims)
<1> USE SessionAssumption
<1>1. CASE \E tree \in Played : \E path \in Paths(tree) : s = [kind |-> "tree", body |-> path]
  BY <1>1, PathsPlayable
<1>2. CASE \E scenario \in Golden : s = [kind |-> "golden", body |-> scenario]
  BY <1>2, GoldenResponses, GoldenFailures
<1>3. CASE \E response \in Responses : s = [kind |-> "golden", body |-> FreeScenario(response)]
  <2>1. PICK response \in Responses : s = [kind |-> "golden", body |-> FreeScenario(response)]
    BY <1>3
  <2>2. /\ s.body.llm_response = {response}
        /\ s.body.booking_api_failures = GS01.booking_api_failures
    BY <2>1 DEF FreeScenario, GS01, Scenario
  <2>3. GS01.booking_api_failures = {}
    BY DEF GS01, Scenario
  <2> QED
    BY <2>1, <2>2, <2>3 DEF IsSequence
<1> QED
  BY <1>1, <1>2, <1>3 DEF Scripts

-----------------------------------------------------------------------------
(* A session with a customer *)

\* What CorrectionsStand asks of one turn.
RightTurn(m) ==
    Apart(m.draft.claims) =>
        \A i \in DOMAIN m.draft.claims :
            /\ ReadsAsVerified(m, i)
            /\ m.results[i].status = "ok" => IsLive(m.draft.claims[i])
            /\ m.results[i].status # "unverifiable" => HasCard(m.draft.claims[i])
            /\ m.kind = "verified" => m.results[i].status = "ok"

\* The draft under way and its answers, and where in the script they may be.
RoundInv ==
    /\ IsSequence(draft.claims) /\ IsSequence(results) /\ IsSequence(transcript)
    /\ draft.kind = "fallback" => draft.claims = <<>>
    /\ pc \in {"gate", "generate", "turn"} => results = <<>>
    /\ IsTree => pc \in {"turn", "verify", "deliver", "ended", "failed"}
    /\ ~IsTree => pc \notin {"turn", "ended"}
    /\ IsTree /\ pc \in {"verify", "deliver"} => Len(transcript) < Len(Body.turns)

\* Every answer is the booking API's about its claim, with the keys it failed on then.
AnswersOfTheAPI ==
    \A i \in DOMAIN results :
        \E keys \in SUBSET Keys :
            ~VerifyRaises(draft.claims[i], keys) /\ results[i] = Verify(draft.claims[i], keys)

SessionInv ==
    /\ TypeOK
    /\ RoundInv
    /\ AnswersOfTheAPI
    /\ \A m \in Delivered : RightTurn(m)

LEMMA DraftedIs ==
    ASSUME NEW text, NEW claims, NEW kind
    PROVE  /\ Drafted(text, claims, kind).text = text
           /\ Drafted(text, claims, kind).claims = claims
           /\ Drafted(text, claims, kind).kind = kind
BY DEF Drafted

LEMMA DeliveredAppended ==
    ASSUME IsSequence(transcript), NEW m, transcript' = Append(transcript, m)
    PROVE  /\ IsSequence(transcript') /\ Len(transcript') = Len(transcript) + 1
           /\ Delivered' = Delivered \cup {t \in {m} : t.speaker = "bot"}
<1>1. PICK s : s = Append(transcript, m)
  OBVIOUS
<1>2. IsSequence(s) /\ Len(s) = Len(transcript) + 1 /\ ToSet(s) = ToSet(transcript) \cup {m}
  BY <1>1, Appended
<1>3. transcript' = s
  BY <1>1
<1> QED
  BY <1>2, <1>3 DEF Delivered

LEMMA SessionInit ==
    ASSUME Init
    PROVE  SessionInv
<1>1. /\ script \in Scripts /\ pc = (IF IsTree THEN "turn" ELSE "gate")
      /\ draft.claims = <<>> /\ draft.kind = "llm"
      /\ results = <<>> /\ transcript = <<>> /\ down = Forced /\ faults = 0
  BY DraftedIs DEF Init, NoDraft
<1>2. script.kind \in {"tree", "golden"}
  BY <1>1, ScriptsTyped
<1>3. Forced \subseteq Keys
  BY <1>1, ScriptsTyped DEF Forced, IsTree, Body, Keys
<1>4. IsTree => Len(Body.turns) \in Nat
  BY <1>1, ScriptsTyped, SequenceFacts DEF Playable, IsTree, Body
<1>5. TypeOK
  BY <1>1, <1>3, <1>4, EmptySequence, SessionAssumption DEF TypeOK
<1>6. RoundInv
  BY <1>1, EmptySequence DEF RoundInv
<1>7. AnswersOfTheAPI /\ Delivered = {}
  BY <1>1, EmptySequence DEF AnswersOfTheAPI, Delivered
<1> QED
  BY <1>5, <1>6, <1>7 DEF SessionInv

\* A step that leaves the draft, the answers and the transcript alone.
LEMMA RestStays ==
    ASSUME SessionInv, UNCHANGED <<script, draft, results, transcript>>
    PROVE  AnswersOfTheAPI' /\ \A m \in Delivered' : RightTurn(m)
<1>1. AnswersOfTheAPI'
  BY DEF SessionInv, AnswersOfTheAPI
<1>2. Delivered' = Delivered
  BY DEF Delivered
<1> QED
  BY <1>1, <1>2 DEF SessionInv

LEMMA SessionGate ==
    ASSUME SessionInv, Gate \/ HangUp \/ AllVerified \/ DeliverFails \/ VerificationRaises
    PROVE  SessionInv'
<1>1. UNCHANGED <<script, draft, results, transcript, down>>
  BY DEF Gate, HangUp, AllVerified, DeliverFails, VerificationRaises
<1>2. AnswersOfTheAPI' /\ \A m \in Delivered' : RightTurn(m)
  BY <1>1, RestStays
<1>3. Len(results) \in Nat /\ Len(draft.claims) \in Nat
  BY SequenceFacts DEF SessionInv, RoundInv
<1>4. CASE Gate
  BY <1>1, <1>2, <1>4 DEF SessionInv, TypeOK, RoundInv, Gate, IsTree, Body
<1>5. CASE HangUp
  BY <1>1, <1>2, <1>5 DEF SessionInv, TypeOK, RoundInv, HangUp, IsTree, Body
<1>6. CASE AllVerified
  BY <1>1, <1>2, <1>6 DEF SessionInv, TypeOK, RoundInv, AllVerified, IsTree, Body
<1>7. CASE DeliverFails
  BY <1>1, <1>2, <1>7, SessionAssumption DEF SessionInv, TypeOK, RoundInv, DeliverFails, IsTree, Body
<1>8. CASE VerificationRaises
  BY <1>1, <1>2, <1>8 DEF SessionInv, TypeOK, RoundInv, VerificationRaises, IsTree, Body
<1> QED
  BY <1>4, <1>5, <1>6, <1>7, <1>8

\* A new draft, before any of its claims is verified.
LEMMA NewDraft ==
    ASSUME SessionInv, pc \in {"generate", "turn"}, UNCHANGED <<script, results, transcript, down>>,
           NEW text, NEW claims, IsSequence(claims), NEW kind,
           draft' = Drafted(text, claims, kind), kind = "fallback" => claims = <<>>,
           \/ pc' = "verify" /\ (IsTree => Len(transcript) < Len(Body.turns))
           \/ pc' = "deliver" /\ claims = <<>> /\ ~IsTree,
           faults' \in 0..MaxFaults
    PROVE  SessionInv'
<1>1. draft'.claims = claims /\ draft'.kind = kind
  BY DraftedIs
<1>2. results = <<>> /\ results' = <<>> /\ Len(claims) \in Nat
  BY SequenceFacts DEF SessionInv, RoundInv
<1>3. TypeOK'
  BY <1>1, <1>2, EmptySequence DEF SessionInv, TypeOK, IsTree, Body
<1>4. RoundInv'
  BY <1>1, <1>2, EmptySequence DEF SessionInv, RoundInv, IsTree, Body
<1>5. AnswersOfTheAPI'
  BY <1>2, EmptySequence DEF AnswersOfTheAPI
<1>6. Delivered' = Delivered
  BY DEF Delivered
<1> QED
  BY <1>3, <1>4, <1>5, <1>6 DEF SessionInv

LEMMA SessionGenerate ==
    ASSUME SessionInv, Generate \/ GenerateTimesOut
    PROVE  SessionInv'
<1>1. pc = "generate" /\ script \in Scripts /\ ~IsTree /\ faults \in 0..MaxFaults /\ MaxFaults \in Nat
  BY SessionAssumption DEF Generate, GenerateTimesOut, SessionInv, RoundInv, TypeOK
<1>2. \A response \in Body.llm_response : IsSequence(response.claims)
  BY <1>1, ScriptsTyped DEF IsTree, Body
<1>3. CASE GenerateTimesOut
  <2>1. faults' \in 0..MaxFaults
    BY <1>1, <1>3 DEF GenerateTimesOut
  <2> QED
    BY <1>1, <1>3, <2>1, EmptySequence, NewDraft DEF GenerateTimesOut
<1>4. ASSUME NEW response \in Body.llm_response, pc' = "verify",
             draft' = Drafted(response.text, response.claims, "llm"),
             UNCHANGED <<script, results, transcript, down, faults>>
      PROVE  SessionInv'
  <2>1. faults' \in 0..MaxFaults
    BY <1>1, <1>4
  <2>2. IsSequence(response.claims)
    BY <1>2
  <2> QED
    BY <1>1, <1>4, <2>1, <2>2, NewDraft
<1>5. ASSUME pc' = "deliver", draft' = Drafted(FallbackMessage(Body.language), <<>>, "fallback"),
             UNCHANGED <<script, results, transcript, down, faults>>
      PROVE  SessionInv'
  <2>1. faults' \in 0..MaxFaults
    BY <1>1, <1>5
  <2> QED
    BY <1>1, <1>5, <2>1, EmptySequence, NewDraft
<1> QED
  BY <1>3, <1>4, <1>5 DEF Generate

LEMMA SessionBotTurn ==
    ASSUME SessionInv, BotTurn
    PROVE  SessionInv'
<1>1. /\ IsTree /\ pc = "turn" /\ Len(transcript) < Len(Body.turns) /\ script \in Scripts
      /\ faults' \in 0..MaxFaults
  BY DEF BotTurn, MoreTurns, SessionInv, TypeOK
<1>2. Playable(Body.turns)
  BY <1>1, ScriptsTyped DEF IsTree, Body
<1>3. Len(transcript) \in Nat /\ Len(Body.turns) \in Nat /\ DOMAIN Body.turns = 1..Len(Body.turns)
  BY <1>2, SequenceFacts DEF SessionInv, RoundInv, Playable
<1>4. Len(transcript) + 1 \in DOMAIN Body.turns
  BY <1>1, <1>3
<1>5. IsSequence(Next1(Body.turns).claims)
  BY <1>2, <1>4 DEF Playable, IsTurn, Next1
<1> QED
  BY <1>1, <1>5, NewDraft DEF BotTurn

LEMMA SessionCustomerTurn ==
    ASSUME SessionInv, CustomerTurn
    PROVE  SessionInv'
<1>1. /\ IsTree /\ pc = "turn" /\ Len(transcript) < Len(Body.turns) /\ script \in Scripts
      /\ UNCHANGED <<script, pc, draft, results, down, faults>>
  BY DEF CustomerTurn, MoreTurns, SessionInv, TypeOK
<1>2. PICK message, slots : transcript' = Append(transcript, Turn("customer", message, slots, FALSE))
  BY DEF CustomerTurn
<1>3. PICK m : m = Turn("customer", message, slots, FALSE)
  OBVIOUS
<1>4. m.speaker = "customer"
  BY <1>3 DEF Turn
<1>5. IsSequence(transcript') /\ Len(transcript') = Len(transcript) + 1 /\ Delivered' = Delivered
  BY <1>2, <1>3, <1>4, DeliveredAppended DEF SessionInv, RoundInv
<1>6. Len(transcript) \in Nat /\ Len(Body.turns) \in Nat
  BY <1>1, ScriptsTyped, SequenceFacts DEF SessionInv, RoundInv, Playable, IsTree, Body
<1>7. Len(transcript') <= Len(Body.turns)
  BY <1>1, <1>5, <1>6
<1>8. TypeOK'
  BY <1>1, <1>7 DEF SessionInv, TypeOK, IsTree, Body
<1>9. RoundInv'
  BY <1>1, <1>5 DEF SessionInv, RoundInv, IsTree, Body
<1>10. AnswersOfTheAPI'
  BY <1>1 DEF SessionInv, AnswersOfTheAPI
<1> QED
  BY <1>5, <1>8, <1>9, <1>10 DEF SessionInv

LEMMA SessionOutage ==
    ASSUME SessionInv, Outage
    PROVE  SessionInv'
<1>1. UNCHANGED <<script, pc, draft, results, transcript>>
  BY DEF Outage
<1>2. AnswersOfTheAPI' /\ \A m \in Delivered' : RightTurn(m)
  BY <1>1, RestStays
<1>3. down' \subseteq Keys
  BY DEF Outage, SessionInv, TypeOK
<1>4. faults' \in 0..MaxFaults
  BY SessionAssumption DEF Outage, SessionInv, TypeOK
<1> QED
  BY <1>1, <1>2, <1>3, <1>4 DEF SessionInv, TypeOK, RoundInv, IsTree, Body

LEMMA SessionVerifyClaim ==
    ASSUME SessionInv, VerifyClaim
    PROVE  SessionInv'
<1>1. PICK answer : answer = Verify(Claim, down) /\ results' = Append(results, answer)
  BY DEF VerifyClaim
<1>2. /\ pc = "verify" /\ Len(results) < Len(draft.claims) /\ ~VerifyRaises(Claim, down)
      /\ UNCHANGED <<script, pc, draft, transcript, down, faults>>
  BY DEF VerifyClaim
<1>3. PICK s : s = Append(results, answer)
  OBVIOUS
<1>4. /\ IsSequence(s) /\ Len(s) = Len(results) + 1 /\ s[Len(results) + 1] = answer
      /\ \A i \in 1..Len(results) : s[i] = results[i]
  BY <1>3, Appended DEF SessionInv, RoundInv
<1>5. /\ Len(results) \in Nat /\ Len(draft.claims) \in Nat
      /\ DOMAIN results = 1..Len(results) /\ DOMAIN s = 1..Len(s)
  BY <1>4, SequenceFacts DEF SessionInv, RoundInv
<1>6. results' = s
  BY <1>1, <1>3
<1>7. Len(s) <= Len(draft.claims)
  BY <1>2, <1>4, <1>5
<1>8. TypeOK'
  BY <1>2, <1>6, <1>7 DEF SessionInv, TypeOK, IsTree, Body
<1>9. RoundInv'
  BY <1>2, <1>4, <1>6 DEF SessionInv, RoundInv, IsTree, Body
<1>10. AnswersOfTheAPI'
  <2> SUFFICES ASSUME NEW i \in DOMAIN s
               PROVE  \E keys \in SUBSET Keys :
                         ~VerifyRaises(draft.claims[i], keys) /\ s[i] = Verify(draft.claims[i], keys)
    BY <1>2, <1>6 DEF AnswersOfTheAPI
  <2>1. i \in 1..Len(results) \/ i = Len(results) + 1
    BY <1>4, <1>5
  <2>2. CASE i \in 1..Len(results)
    BY <1>4, <1>5, <2>2 DEF SessionInv, AnswersOfTheAPI
  <2>3. CASE i = Len(results) + 1
    BY <1>1, <1>2, <1>4, <2>3 DEF SessionInv, TypeOK, Claim
  <2> QED
    BY <2>1, <2>2, <2>3
<1>11. Delivered' = Delivered
  BY <1>2 DEF Delivered
<1> QED
  BY <1>8, <1>9, <1>10, <1>11 DEF SessionInv

LEMMA MessageStands ==
    ASSUME SessionInv, Len(results) = Len(draft.claims), NEW m,
           m.draft = draft, m.results = results, m.text = Message.text, m.kind = Message.kind
    PROVE  RightTurn(m)
<1>1. CASE draft.kind = "fallback"
  BY <1>1, EmptySequence DEF SessionInv, RoundInv, RightTurn
<1>2. CASE draft.kind # "fallback"
  <2> SUFFICES ASSUME Apart(draft.claims), NEW i \in DOMAIN draft.claims
               PROVE  /\ ReadsAsVerified(m, i)
                      /\ results[i].status = "ok" => IsLive(draft.claims[i])
                      /\ results[i].status # "unverifiable" => HasCard(draft.claims[i])
                      /\ m.kind = "verified" => results[i].status = "ok"
    BY DEF RightTurn
  <2>1. DOMAIN results = DOMAIN draft.claims
    BY SequenceFacts DEF SessionInv, RoundInv
  <2>2. Answered(draft.claims, results)
    BY <2>1 DEF SessionInv, AnswersOfTheAPI, Answered
  <2>3. Message = ApplyVerification(draft.text, draft.claims, results)
    BY <1>2 DEF Message
  <2>4. draft.claims \in Seq(ToSet(draft.claims))
    BY DEF SessionInv, RoundInv, IsSequence
  <2>5. /\ \A j \in PlacesOf(draft.claims[i], draft.text) :
              m.text[j] = Allowed(draft.claims[i], results[i].status)
        /\ m.kind = "verified" => results[i].status = "ok"
    BY <2>2, <2>3, <2>4, VerificationStands
  <2>6. /\ results[i].status = "ok" => IsLive(draft.claims[i])
        /\ results[i].status # "unverifiable" => HasCard(draft.claims[i])
    BY <2>2, VerifyDecides DEF Answered
  <2> QED
    BY <2>5, <2>6 DEF ReadsAsVerified
<1> QED
  BY <1>1, <1>2

LEMMA SessionDeliver ==
    ASSUME SessionInv, Deliver
    PROVE  SessionInv'
<1>1. PICK m : m = Turn("bot", Message, {}, Handoff)
  OBVIOUS
<1>2. /\ m.draft = draft /\ m.results = results /\ m.text = Message.text /\ m.kind = Message.kind
      /\ m.speaker = "bot"
  BY <1>1 DEF Turn
<1>3. /\ pc = "deliver" /\ UNCHANGED <<script, down, faults>>
      /\ pc' = (IF IsTree THEN "turn" ELSE TerminalState(Body.replies # <<>>, Body.resolves))
      /\ draft'.claims = <<>> /\ draft'.kind = "llm" /\ results' = <<>>
      /\ transcript' = Append(transcript, m)
  BY <1>1, DraftedIs DEF Deliver, NoDraft
<1>4. /\ IsSequence(transcript') /\ Len(transcript') = Len(transcript) + 1
      /\ Delivered' = Delivered \cup {m}
  BY <1>2, <1>3, DeliveredAppended DEF SessionInv, RoundInv
<1>5. RightTurn(m)
  BY <1>2, <1>3, MessageStands DEF SessionInv, TypeOK
<1>6. IsTree => Len(transcript') <= Len(Body.turns)
  <2>1. IsTree => Len(transcript) < Len(Body.turns)
    BY <1>3 DEF SessionInv, RoundInv
  <2>2. Len(transcript) \in Nat /\ (IsTree => Len(Body.turns) \in Nat)
    BY ScriptsTyped, SequenceFacts DEF SessionInv, RoundInv, TypeOK, Playable, IsTree, Body
  <2> QED
    BY <1>4, <2>1, <2>2
<1>7. pc' \in {"turn"} \cup Terminal /\ (IsTree <=> pc' = "turn")
  BY <1>3 DEF TerminalState, Terminal
<1>8. IsTree' = IsTree /\ Body' = Body
  BY <1>3 DEF IsTree, Body
<1>9. TypeOK'
  BY <1>3, <1>6, <1>7, <1>8, EmptySequence DEF SessionInv, TypeOK, Terminal
<1>10. RoundInv'
  BY <1>3, <1>4, <1>7, <1>8, EmptySequence DEF RoundInv, Terminal
<1>11. AnswersOfTheAPI'
  BY <1>3, EmptySequence DEF AnswersOfTheAPI
<1> QED
  BY <1>4, <1>5, <1>9, <1>10, <1>11 DEF SessionInv

THEOREM SessionInvariant == Spec => []SessionInv
<1>1. Init => SessionInv
  BY SessionInit
<1>2. SessionInv /\ [Next]_vars => SessionInv'
  <2> SUFFICES ASSUME SessionInv, [Next]_vars PROVE SessionInv'
    OBVIOUS
  <2>1. CASE UNCHANGED vars
    <3>1. UNCHANGED <<script, pc, draft, results, transcript, down, faults>>
      BY <2>1 DEF vars
    <3>2. AnswersOfTheAPI' /\ \A m \in Delivered' : RightTurn(m)
      BY <3>1, RestStays
    <3> QED
      BY <3>1, <3>2 DEF SessionInv, TypeOK, RoundInv, IsTree, Body
  <2>2. CASE Next
    BY <2>2, SessionGate, SessionGenerate, SessionBotTurn, SessionCustomerTurn, SessionOutage,
       SessionVerifyClaim, SessionDeliver DEF Next
  <2> QED
    BY <2>1, <2>2
<1> QED
  BY <1>1, <1>2, PTL DEF Spec

\* Whatever is played and whatever the LLM answers, a session is where its script has it:
\* no turn is missing or repeated, and nothing is delivered before all its claims are
\* answered (runner.py, intents.py).
THEOREM SessionTypes == Spec => []TypeOK
BY SessionInvariant, PTL DEF SessionInv

\* M10's hard rule of every session, with the booking API failing and coming back between
\* any two claims, whatever the rates are and the LLM drafts (booking_api.py:6-7).
THEOREM CorrectionsAlwaysStand == Spec => []CorrectionsStand
<1>1. SessionInv => CorrectionsStand
  BY DEF SessionInv, RightTurn, CorrectionsStand
<1> QED
  BY <1>1, SessionInvariant, PTL

-----------------------------------------------------------------------------
(* The golden scenarios' rounds *)

\* What a round of the scenario may have drafted, without or with unscripted faults.
MayDraft(d, scenario, outages) ==
    \/ /\ d = Drafted(FallbackMessage(scenario.language), <<>>, "fallback")
       /\ outages = 0 => \/ scenario.llm_timeout \/ scenario.llm_response = {}
                         \/ \E response \in scenario.llm_response : DecideLLM(response) = "fallback"
    \/ \E response \in scenario.llm_response :
          /\ ~scenario.llm_timeout /\ DecideLLM(response) = "use"
          /\ d = Drafted(response.text, response.claims, "llm")

\* What the booking API may have answered about its claims: it fails wherever the
\* scenario says so, and without unscripted faults nowhere else.
MayAnswer(d, answers, scenario, outages) ==
    \A i \in DOMAIN answers : \E keys \in SUBSET Keys :
        /\ scenario.booking_api_failures \subseteq keys
        /\ outages = 0 => keys = scenario.booking_api_failures
        /\ answers[i] = Verify(d.claims[i], keys)

\* What the customer gets to read of that.
Read(d, answers) ==
    IF d.kind = "fallback" THEN [text |-> d.text, kind |-> "fallback"]
    ELSE ApplyVerification(d.text, d.claims, answers)

\* A round up to here, and what it left behind.
Underway ==
    pc \in {"verify", "deliver"} =>
        MayDraft(draft, Body, faults) /\ MayAnswer(draft, results, Body, faults)

Over ==
    pc \in Terminal =>
        /\ pc = TerminalState(Body.replies # <<>>, Body.resolves)
        /\ transcript # <<>>
        /\ \E m \in Delivered :
              /\ Delivered = {m}
              /\ MayDraft(m.draft, Body, faults) /\ MayAnswer(m.draft, m.results, Body, faults)
              /\ DOMAIN m.results = DOMAIN m.draft.claims
              /\ m.text = Read(m.draft, m.results).text /\ m.kind = Read(m.draft, m.results).kind

GoldenInv ==
    ~IsTree =>
        /\ Body.booking_api_failures \subseteq down
        /\ faults = 0 => down = Body.booking_api_failures
        /\ pc # "gate" => (pc = "suppressed" <=> ~WouldFire(Body.prior_engagements, Body.cap))
        /\ pc \notin Terminal => transcript = <<>>
        /\ Underway /\ Over

LEMMA GoldenInit ==
    ASSUME Init
    PROVE  GoldenInv
<1>1. ~IsTree => pc = "gate" /\ transcript = <<>> /\ down = Body.booking_api_failures
  BY DEF Init, Forced
<1> QED
  BY <1>1 DEF GoldenInv, Underway, Over, Terminal

LEMMA GoldenGate ==
    ASSUME SessionInv, GoldenInv, ~IsTree, Gate
    PROVE  GoldenInv'
<1>1. /\ pc = "gate" /\ UNCHANGED <<script, draft, results, transcript, down, faults>>
      /\ pc' = (IF WouldFire(Body.prior_engagements, Body.cap) THEN "generate" ELSE "suppressed")
      /\ Body' = Body
  BY DEF Gate, Body
<1> QED
  BY <1>1 DEF GoldenInv, Underway, Over, Terminal

LEMMA GoldenGenerate ==
    ASSUME SessionInv, GoldenInv, ~IsTree, Generate \/ GenerateTimesOut
    PROVE  GoldenInv'
<1>1. /\ pc = "generate" /\ UNCHANGED <<script, results, transcript, down>>
      /\ pc' \in {"verify", "deliver"} /\ Body' = Body
  BY DEF Generate, GenerateTimesOut, Body
<1>2. results = <<>> /\ results' = <<>> /\ faults \in Nat
  BY <1>1 DEF SessionInv, RoundInv, TypeOK
<1>3. faults' = faults \/ (faults' # 0 /\ GenerateTimesOut)
  BY <1>2 DEF Generate, GenerateTimesOut
<1>4. MayDraft(draft', Body, faults')
  BY <1>3 DEF Generate, GenerateTimesOut, MayDraft
<1>5. MayAnswer(draft', results', Body, faults')
  BY <1>2, EmptySequence DEF MayAnswer
<1>6. Underway'
  BY <1>1, <1>4, <1>5 DEF Underway
<1>7. Over'
  BY <1>1 DEF Over, Terminal
<1>8. faults' = 0 => faults = 0
  BY <1>3
<1> QED
  BY <1>1, <1>6, <1>7, <1>8 DEF GoldenInv, Terminal

LEMMA GoldenVerify ==
    ASSUME SessionInv, GoldenInv, ~IsTree, VerifyClaim
    PROVE  GoldenInv'
<1>1. /\ pc = "verify" /\ UNCHANGED <<script, pc, draft, transcript, down, faults>> /\ Body' = Body
  BY DEF VerifyClaim, Body
<1>2. PICK answer : answer = Verify(Claim, down) /\ results' = Append(results, answer)
  BY DEF VerifyClaim
<1>3. PICK s : s = Append(results, answer)
  OBVIOUS
<1>4. /\ IsSequence(s) /\ Len(s) = Len(results) + 1 /\ s[Len(results) + 1] = answer
      /\ \A i \in 1..Len(results) : s[i] = results[i]
  BY <1>3, Appended DEF SessionInv, RoundInv
<1>5. Len(results) \in Nat /\ DOMAIN results = 1..Len(results) /\ DOMAIN s = 1..(Len(results) + 1)
  BY <1>4, SequenceFacts DEF SessionInv, RoundInv
<1>6. MayDraft(draft, Body, faults) /\ MayAnswer(draft, results, Body, faults)
  BY <1>1 DEF GoldenInv, Underway
<1>7. MayAnswer(draft, s, Body, faults)
  <2> SUFFICES ASSUME NEW i \in DOMAIN s
               PROVE  \E keys \in SUBSET Keys :
                         /\ Body.booking_api_failures \subseteq keys
                         /\ faults = 0 => keys = Body.booking_api_failures
                         /\ s[i] = Verify(draft.claims[i], keys)
    BY DEF MayAnswer
  <2>1. i \in 1..Len(results) \/ i = Len(results) + 1
    BY <1>5
  <2>2. CASE i \in 1..Len(results)
    BY <1>4, <1>5, <1>6, <2>2 DEF MayAnswer
  <2>3. CASE i = Len(results) + 1
    BY <1>2, <1>4, <2>3 DEF SessionInv, TypeOK, GoldenInv, Claim
  <2> QED
    BY <2>1, <2>2, <2>3
<1>8. Underway'
  BY <1>1, <1>2, <1>3, <1>6, <1>7 DEF Underway
<1>9. Over'
  BY <1>1 DEF Over, Terminal
<1> QED
  BY <1>1, <1>8, <1>9 DEF GoldenInv

LEMMA GoldenAllVerified ==
    ASSUME SessionInv, GoldenInv, ~IsTree, AllVerified
    PROVE  GoldenInv'
<1>1. /\ pc = "verify" /\ pc' = "deliver" /\ Body' = Body
      /\ UNCHANGED <<script, draft, results, transcript, down, faults>>
  BY DEF AllVerified, Body
<1>2. Underway'
  BY <1>1 DEF GoldenInv, Underway
<1> QED
  BY <1>1, <1>2 DEF GoldenInv, Over, Terminal

LEMMA GoldenDeliverFails ==
    ASSUME SessionInv, GoldenInv, ~IsTree, DeliverFails \/ VerificationRaises
    PROVE  GoldenInv'
<1>1. /\ pc \in {"deliver", "verify"} /\ pc' = "failed" /\ Body' = Body
      /\ faults' # 0 \/ faults' = faults
      /\ UNCHANGED <<script, draft, results, transcript, down>>
  BY DEF DeliverFails, VerificationRaises, Body, SessionInv, TypeOK
<1> QED
  BY <1>1 DEF GoldenInv, Underway, Over, Terminal

LEMMA GoldenOutage ==
    ASSUME SessionInv, GoldenInv, ~IsTree, Outage
    PROVE  GoldenInv'
<1>1. /\ pc = "verify" /\ Body' = Body /\ faults' # 0
      /\ UNCHANGED <<script, pc, draft, results, transcript>>
  BY DEF Outage, Body, SessionInv, TypeOK, RoundInv
<1>2. Body.booking_api_failures \subseteq down'
  BY DEF Outage, Forced, GoldenInv
<1>3. MayDraft(draft, Body, faults) /\ MayAnswer(draft, results, Body, faults)
  BY <1>1 DEF GoldenInv, Underway
<1>4. MayDraft(draft, Body, faults')
  BY <1>1, <1>3 DEF MayDraft
<1>5. MayAnswer(draft, results, Body, faults')
  BY <1>1, <1>3 DEF MayAnswer
<1>6. Underway'
  BY <1>1, <1>4, <1>5 DEF Underway
<1> QED
  BY <1>1, <1>2, <1>6 DEF GoldenInv, Over, Terminal

LEMMA GoldenDeliver ==
    ASSUME SessionInv, GoldenInv, ~IsTree, Deliver
    PROVE  GoldenInv'
<1>1. PICK m : m = Turn("bot", Message, {}, Handoff)
  OBVIOUS
<1>2. /\ m.draft = draft /\ m.results = results /\ m.text = Message.text /\ m.kind = Message.kind
      /\ m.speaker = "bot"
  BY <1>1 DEF Turn
<1>3. /\ pc = "deliver" /\ UNCHANGED <<script, down, faults>> /\ Body' = Body
      /\ pc' = TerminalState(Body.replies # <<>>, Body.resolves)
      /\ transcript' = Append(transcript, m)
  BY <1>1 DEF Deliver, Body
<1>4. transcript = <<>> /\ Delivered = {}
  BY <1>3, EmptySequence DEF GoldenInv, Terminal, Delivered
<1>5. Len(transcript') = 1 /\ Delivered' = {m}
  BY <1>2, <1>3, <1>4, DeliveredAppended, EmptySequence DEF SessionInv, RoundInv
<1>6. transcript' # <<>>
  BY <1>5, EmptySequence
<1>7. pc' \in Terminal
  BY <1>3 DEF TerminalState, Terminal
<1>8. MayDraft(m.draft, Body, faults) /\ MayAnswer(m.draft, m.results, Body, faults)
  BY <1>2, <1>3 DEF GoldenInv, Underway
<1>9. DOMAIN m.results = DOMAIN m.draft.claims
  BY <1>2, <1>3, SequenceFacts DEF SessionInv, TypeOK, RoundInv
<1>10. m.text = Read(m.draft, m.results).text /\ m.kind = Read(m.draft, m.results).kind
  BY <1>2 DEF Message, Read
<1>11. Over'
  BY <1>3, <1>5, <1>6, <1>8, <1>9, <1>10 DEF Over
<1>12. Underway'
  BY <1>7 DEF Underway, Terminal
<1>13. pc' # "suppressed" /\ WouldFire(Body.prior_engagements, Body.cap)
  BY <1>3, <1>7 DEF GoldenInv, Terminal
<1> QED
  BY <1>3, <1>7, <1>11, <1>12, <1>13 DEF GoldenInv

LEMMA GoldenNext ==
    ASSUME SessionInv, GoldenInv, Next
    PROVE  GoldenInv'
<1>1. script' = script
  BY DEF Next, Gate, Generate, GenerateTimesOut, CustomerTurn, BotTurn, HangUp, VerifyClaim,
     VerificationRaises, AllVerified, Deliver, DeliverFails, Outage
<1>2. CASE IsTree
  BY <1>1, <1>2 DEF GoldenInv, IsTree
<1>3. CASE ~IsTree
  <2>1. ~(CustomerTurn \/ BotTurn \/ HangUp)
    BY <1>3 DEF CustomerTurn, BotTurn, HangUp, MoreTurns
  <2> QED
    BY <1>3, <2>1, GoldenGate, GoldenGenerate, GoldenVerify, GoldenAllVerified, GoldenDeliver,
       GoldenDeliverFails, GoldenOutage DEF Next
<1> QED
  BY <1>2, <1>3

LEMMA GoldenInvariant == Spec => []GoldenInv
<1>1. Init => GoldenInv
  BY GoldenInit
<1>2. SessionInv /\ GoldenInv /\ [Next]_vars => GoldenInv'
  <2>1. ASSUME GoldenInv, UNCHANGED vars PROVE GoldenInv'
    <3>1. UNCHANGED <<script, pc, draft, results, transcript, down, faults>>
      BY <2>1 DEF vars
    <3>2. UNCHANGED <<Body, IsTree, Delivered>>
      BY <3>1 DEF Body, IsTree, Delivered
    <3>3. Underway' /\ Over' <=> Underway /\ Over
      BY <3>1, <3>2 DEF Underway, Over
    <3> QED
      BY <2>1, <3>1, <3>2, <3>3 DEF GoldenInv
  <2> QED
    BY <2>1, GoldenNext
<1> QED
  BY <1>1, <1>2, SessionInvariant, PTL DEF Spec

LEMMA NoClaim ==
    ASSUME NEW text, NEW answers
    PROVE  ApplyVerification(text, <<>>, answers) = [text |-> text, kind |-> "llm"]
<1>1. PICK after : /\ Chain(after, Len(<<>>), text, <<>>, answers)
                   /\ ApplyVerification(text, <<>>, answers) = after[Len(<<>>)]
  BY VerificationUnfolds, EmptySequence
<1> QED
  BY <1>1, EmptySequence DEF Chain

LEMMA OneClaim ==
    ASSUME NEW text, NEW claim, NEW answers
    PROVE  ApplyVerification(text, <<claim>>, answers)
              = Settled([text |-> text, kind |-> "llm"], claim, answers[1])
<1>1. PICK claims : claims = <<claim>>
  OBVIOUS
<1>2. Len(claims) = 1 /\ claims[1] = claim
  BY <1>1
<1>3. PICK after : /\ Chain(after, 1, text, claims, answers)
                   /\ ApplyVerification(text, claims, answers) = after[1]
  BY <1>2, VerificationUnfolds
<1>4. after[0] = [text |-> text, kind |-> "llm"] /\ after[1] = Settled(after[0], claims[1], answers[1])
  BY <1>3 DEF Chain
<1> QED
  BY <1>1, <1>2, <1>3, <1>4

\* A message of the form most scenarios' drafts have.
LEMMA Quoted ==
    ASSUME NEW token, NEW claim, claim.text_token = token, NEW answers, token # Words
    PROVE  /\ answers[1].status = "ok" =>
                 ApplyVerification(<<Words, token, Words>>, <<claim>>, answers).kind = "verified"
           /\ answers[1].status = "wrong" =>
                 ApplyVerification(<<Words, token, Words>>, <<claim>>, answers)
                    = [text |-> <<Words, answers[1].correct_token, Words>>, kind |-> "corrected"]
           /\ answers[1].status = "unverifiable" =>
                 ApplyVerification(<<Words, token, Words>>, <<claim>>, answers)
                    = [text |-> <<Words, StripPhrase, Words>>, kind |-> "stripped"]
<1>1. ApplyVerification(<<Words, token, Words>>, <<claim>>, answers)
         = Settled([text |-> <<Words, token, Words>>, kind |-> "llm"], claim, answers[1])
  BY OneClaim
<1>2. ASSUME NEW new PROVE Replaced(<<Words, token, Words>>, token, new) = <<Words, new, Words>>
  BY DEF Replaced
<1> QED
  BY <1>1, <1>2 DEF Settled, MaxKind, KindPriority

LEMMA NotOccurring ==
    ASSUME NEW token, NEW new, token # Words, token # new, token # Phrase("available")
    PROVE  ~Occurs(token, <<Words, new, Words>>)
<1>1. PICK text : text = <<Words, new, Words>>
  OBVIOUS
<1>2. DOMAIN text = 1..3 /\ text[1] = Words /\ text[2] = new /\ text[3] = Words
  BY <1>1
<1>3. \A i \in DOMAIN text : text[i] # token
  <2>1. \A i \in 1..3 : i = 1 \/ i = 2 \/ i = 3
    OBVIOUS
  <2> QED
    BY <1>2, <2>1
<1>4. ~Occurs(token, text)
  BY <1>3 DEF Occurs
<1> QED
  BY <1>1, <1>4

LEMMA FallbackOccurs ==
    ASSUME NEW token, NEW language, token[1] # "fallback", token # Phrase("available")
    PROVE  ~Occurs(token, FallbackMessage(language))
<1>1. PICK phrase : phrase = <<"fallback", IF language \in Localised THEN language ELSE "en">>
  OBVIOUS
<1>2. PICK text : text = <<phrase>>
  OBVIOUS
<1>3. \A i \in DOMAIN text : text[i] # token
  BY <1>1, <1>2
<1>4. ~Occurs(token, text)
  BY <1>3 DEF Occurs
<1> QED
  BY <1>1, <1>2, <1>4 DEF FallbackMessage

\* The tokens are all different.
LEMMA Tokens ==
    /\ \A amount : Pounds(amount) # Words /\ Pounds(amount)[1] = "GBP"
    /\ \A a, b : Pounds(a) = Pounds(b) => a = b
    /\ \A words : Phrase(words) # Words /\ Phrase(words)[1] = "phrase"
    /\ \A a, b : Phrase(a) = Phrase(b) => a = b
    /\ \A amount, words : Pounds(amount) # Phrase(words)
<1>1. \A a, b : <<a, b>> # Words
  BY DEF Words
<1> QED
  BY <1>1 DEF Pounds, Phrase

\* What a scenario pins of the message, without and with unscripted faults.
ReadsRight(scenario, d, answers, outages) ==
    /\ \A token \in scenario.expected.delivered_excludes : ~Occurs(token, Read(d, answers).text)
    /\ outages = 0 => {Read(d, answers).kind} = scenario.expected.message_kind

LEMMA FallbackRead ==
    ASSUME NEW language, NEW answers
    PROVE  Read(Drafted(FallbackMessage(language), <<>>, "fallback"), answers)
              = [text |-> FallbackMessage(language), kind |-> "fallback"]
BY DEF Read, Drafted

\* The scenario's one answer is used, unless there is a fault.
LEMMA OneResponse ==
    ASSUME NEW scenario, NEW message, NEW confidence \in Nat, confidence >= Threshold,
           message.text # <<>>, scenario.llm_response = {Response(message, confidence)},
           ~scenario.llm_timeout, NEW d, NEW outages, MayDraft(d, scenario, outages)
    PROVE  \/ outages # 0 /\ d = Drafted(FallbackMessage(scenario.language), <<>>, "fallback")
           \/ d = Drafted(message.text, message.claims, "llm")
<1>1. PICK response : response = Response(message, confidence)
  OBVIOUS
<1>2. /\ response.text = message.text /\ response.claims = message.claims
      /\ response.confidence = {confidence}
  BY <1>1 DEF Response
<1>3. DecideLLM(response) = "use"
  BY <1>2 DEF DecideLLM, Threshold
<1> QED
  BY <1>1, <1>2, <1>3 DEF MayDraft

LEMMA GS01Reads ==
    ASSUME NEW d, NEW answers, NEW outages, MayDraft(d, GS01, outages)
    PROVE  ReadsRight(GS01, d, answers, outages)
<1>1. /\ GS01.llm_response = {Response(Says, 90)} /\ ~GS01.llm_timeout
      /\ GS01.expected = Outcome("llm", "converted")
  BY DEF GS01, Scenario
<1>2. Says.text # <<>> /\ Says.claims = <<>>
  BY DEF Says, Bot
<1>3. outages # 0 \/ d = Drafted(Says.text, <<>>, "llm")
  BY <1>1, <1>2, OneResponse DEF Threshold
<1>4. Read(Drafted(Says.text, <<>>, "llm"), answers).kind = "llm"
  BY NoClaim, DraftedIs DEF Read
<1> QED
  BY <1>1, <1>3, <1>4 DEF ReadsRight, Outcome

LEMMA GS06Reads ==
    ASSUME NEW d, NEW answers, NEW outages, MayDraft(d, GS06, outages)
    PROVE  ReadsRight(GS06, d, answers, outages)
<1>1. /\ GS06.llm_response = {} /\ GS06.expected = Outcome("fallback", "converted")
  BY DEF GS06, Scenario
<1>2. d = Drafted(FallbackMessage(GS06.language), <<>>, "fallback")
  BY <1>1 DEF MayDraft
<1>3. Read(d, answers).kind = "fallback"
  BY <1>2, FallbackRead
<1> QED
  BY <1>1, <1>3 DEF ReadsRight, Outcome

\* What becomes of a draft that makes one claim.
LEMMA QuoteRead ==
    ASSUME NEW token, NEW claim, claim.text_token = token, token # Words, NEW answers, NEW keys,
           answers[1] = Verify(claim, keys)
    PROVE  LET message == Read(Drafted(<<Words, token, Words>>, <<claim>>, "llm"), answers)
           IN  /\ claim.key \in keys => message = [text |-> <<Words, StripPhrase, Words>>, kind |-> "stripped"]
               /\ claim.key \notin keys /\ IsLive(claim) => message.kind = "verified"
               /\ claim.key \notin keys /\ ~IsLive(claim) =>
                     message = [text |-> <<Words, LiveToken(claim), Words>>, kind |-> "corrected"]
<1>1. Read(Drafted(<<Words, token, Words>>, <<claim>>, "llm"), answers)
         = ApplyVerification(<<Words, token, Words>>, <<claim>>, answers)
  BY DEF Read, Drafted
<1>2. PICK message : message = ApplyVerification(<<Words, token, Words>>, <<claim>>, answers)
  OBVIOUS
<1>3. /\ answers[1].status = "ok" => message.kind = "verified"
      /\ answers[1].status = "wrong" =>
            message = [text |-> <<Words, answers[1].correct_token, Words>>, kind |-> "corrected"]
      /\ answers[1].status = "unverifiable" =>
            message = [text |-> <<Words, StripPhrase, Words>>, kind |-> "stripped"]
  BY <1>2, Quoted
<1>4. /\ claim.key \in keys => answers[1].status = "unverifiable"
      /\ claim.key \notin keys /\ IsLive(claim) => answers[1].status = "ok"
      /\ claim.key \notin keys /\ ~IsLive(claim) =>
            answers[1].status = "wrong" /\ answers[1].correct_token = LiveToken(claim)
  BY DEF Verify, Result
<1> QED
  BY <1>1, <1>2, <1>3, <1>4

\* A scenario whose draft makes one claim, with whatever the API answers about it.
LEMMA QuotedScenario ==
    ASSUME NEW scenario, NEW confidence \in Nat, confidence >= Threshold,
           NEW token, NEW claim, claim.text_token = token, token # Words,
           scenario.llm_response = {Response(Bot(<<Words, token, Words>>, <<claim>>), confidence)},
           ~scenario.llm_timeout,
           NEW d, NEW answers, NEW outages, MayDraft(d, scenario, outages),
           MayAnswer(d, answers, scenario, outages), DOMAIN answers = DOMAIN d.claims
    PROVE  \/ outages # 0 /\ Read(d, answers) = [text |-> FallbackMessage(scenario.language), kind |-> "fallback"]
           \/ \E keys \in SUBSET Keys :
                 /\ scenario.booking_api_failures \subseteq keys
                 /\ outages = 0 => keys = scenario.booking_api_failures
                 /\ claim.key \in keys =>
                       Read(d, answers) = [text |-> <<Words, StripPhrase, Words>>, kind |-> "stripped"]
                 /\ claim.key \notin keys /\ IsLive(claim) => Read(d, answers).kind = "verified"
                 /\ claim.key \notin keys /\ ~IsLive(claim) =>
                       Read(d, answers) = [text |-> <<Words, LiveToken(claim), Words>>, kind |-> "corrected"]
<1>1. PICK message : message = Bot(<<Words, token, Words>>, <<claim>>)
  OBVIOUS
<1>2. message.text = <<Words, token, Words>> /\ message.claims = <<claim>>
  BY <1>1 DEF Bot
<1>3. message.text # <<>>
  BY <1>2
<1>4. \/ outages # 0 /\ d = Drafted(FallbackMessage(scenario.language), <<>>, "fallback")
      \/ d = Drafted(<<Words, token, Words>>, <<claim>>, "llm")
  BY <1>1, <1>2, <1>3, OneResponse
<1>5. CASE d = Drafted(<<Words, token, Words>>, <<claim>>, "llm")
  <2>1. d.claims = <<claim>>
    BY <1>5, DraftedIs
  <2>2. 1 \in DOMAIN answers /\ d.claims[1] = claim
    BY <2>1
  <2>3. PICK keys \in SUBSET Keys :
              /\ scenario.booking_api_failures \subseteq keys
              /\ outages = 0 => keys = scenario.booking_api_failures
              /\ answers[1] = Verify(claim, keys)
    BY <2>2 DEF MayAnswer
  <2> QED
    BY <1>5, <2>3, QuoteRead
<1> QED
  BY <1>4, <1>5, FallbackRead

LEMMA GS02Is ==
    /\ GS02.llm_response = {Response(QuotesPounds("LHR", "ICAR", 0), 88)} /\ ~GS02.llm_timeout
    /\ GS02.booking_api_failures = {} /\ GS02.expected = Outcome("verified", "no_engagement")
BY DEF GS02, Scenario

LEMMA GS03Is ==
    /\ GS03.llm_response = {Response(QuotesPounds("LHR", "ICAR", -1000), 80)} /\ ~GS03.llm_timeout
    /\ GS03.booking_api_failures = {}
    /\ GS03.expected = [Outcome("corrected", "handed_off")
                           EXCEPT !.delivered_excludes = {Pounds(Rate[<<"LHR", "ICAR">>] - 1000)}]
BY DEF GS03, Scenario

LEMMA GS04Is ==
    /\ GS04.llm_response = {Response(QuotesPounds("LHR", "ICAR", 0), 85)} /\ ~GS04.llm_timeout
    /\ GS04.booking_api_failures = {<<"LHR", "ICAR">>}
    /\ GS04.expected = [Outcome("stripped", "no_engagement")
                           EXCEPT !.delivered_excludes = {Pounds(Rate[<<"LHR", "ICAR">>])}]
BY DEF GS04, Scenario

LEMMA GS07Is ==
    ASSUME NEW token, token = Phrase("available now"),
           NEW claim, claim = AvailabilityClaim(SoldOut[1], SoldOut[2], TRUE, token)
    PROVE  /\ GS07.llm_response = {Response(Bot(<<Words, token, Words>>, <<claim>>), 83)}
           /\ ~GS07.llm_timeout /\ GS07.booking_api_failures = {}
           /\ GS07.expected = [Outcome("corrected", "handed_off") EXCEPT !.delivered_excludes = {token}]
BY DEF GS07, Scenario

LEMMA GS02Reads ==
    ASSUME NEW d, NEW answers, NEW outages, MayDraft(d, GS02, outages),
           MayAnswer(d, answers, GS02, outages), DOMAIN answers = DOMAIN d.claims
    PROVE  ReadsRight(GS02, d, answers, outages)
<1>1. PICK rate : rate = Rate[<<"LHR", "ICAR">>]
  OBVIOUS
<1>2. rate \in Nat /\ rate + 0 = rate
  BY <1>1, SeededAssumption, WorldAssumption
<1>3. PICK claim : claim = PriceClaim("LHR", "ICAR", rate, Pounds(rate))
  OBVIOUS
<1>4. /\ claim.text_token = Pounds(rate) /\ claim.key = <<"LHR", "ICAR">> /\ claim.kind = "price"
      /\ claim.quoted = rate
  BY <1>3 DEF PriceClaim
<1>5. IsLive(claim)
  BY <1>1, <1>2, <1>4 DEF IsLive, Tolerance
<1>6. QuotesPounds("LHR", "ICAR", 0) = Bot(<<Words, Pounds(rate), Words>>, <<claim>>)
  BY <1>1, <1>2, <1>3 DEF QuotesPounds
<1>7. Pounds(rate) # Words /\ 88 \in Nat /\ 88 >= Threshold
  BY Tokens DEF Threshold
<1>8. outages = 0 => Read(d, answers).kind = "verified"
  BY <1>4, <1>5, <1>6, <1>7, GS02Is, QuotedScenario
<1> QED
  BY <1>8, GS02Is DEF ReadsRight, Outcome

LEMMA GS04Reads ==
    ASSUME NEW d, NEW answers, NEW outages, MayDraft(d, GS04, outages),
           MayAnswer(d, answers, GS04, outages), DOMAIN answers = DOMAIN d.claims
    PROVE  ReadsRight(GS04, d, answers, outages)
<1>1. PICK rate : rate = Rate[<<"LHR", "ICAR">>]
  OBVIOUS
<1>2. rate \in Nat /\ rate + 0 = rate
  BY <1>1, SeededAssumption, WorldAssumption
<1>3. PICK claim : claim = PriceClaim("LHR", "ICAR", rate, Pounds(rate))
  OBVIOUS
<1>4. claim.text_token = Pounds(rate) /\ claim.key = <<"LHR", "ICAR">>
  BY <1>3 DEF PriceClaim
<1>5. QuotesPounds("LHR", "ICAR", 0) = Bot(<<Words, Pounds(rate), Words>>, <<claim>>)
  BY <1>1, <1>2, <1>3 DEF QuotesPounds
<1>6. GS04.expected.delivered_excludes = {Pounds(rate)} /\ GS04.expected.message_kind = {"stripped"}
  BY <1>1, GS04Is DEF Outcome
<1>7. Pounds(rate) # Words /\ 85 \in Nat /\ 85 >= Threshold
  BY Tokens DEF Threshold
<1>8. \/ outages # 0 /\ Read(d, answers) = [text |-> FallbackMessage(GS04.language), kind |-> "fallback"]
      \/ \E keys \in SUBSET Keys :
            /\ GS04.booking_api_failures \subseteq keys
            /\ claim.key \in keys =>
                  Read(d, answers) = [text |-> <<Words, StripPhrase, Words>>, kind |-> "stripped"]
  BY <1>4, <1>5, <1>7, GS04Is, QuotedScenario
<1>9. \/ outages # 0 /\ Read(d, answers) = [text |-> FallbackMessage(GS04.language), kind |-> "fallback"]
      \/ Read(d, answers) = [text |-> <<Words, StripPhrase, Words>>, kind |-> "stripped"]
  BY <1>4, <1>8, GS04Is
<1>10. /\ ~Occurs(Pounds(rate), FallbackMessage(GS04.language))
       /\ ~Occurs(Pounds(rate), <<Words, StripPhrase, Words>>)
  BY Tokens, FallbackOccurs, NotOccurring DEF StripPhrase
<1> QED
  BY <1>6, <1>9, <1>10 DEF ReadsRight

LEMMA GS03Reads ==
    ASSUME NEW d, NEW answers, NEW outages, MayDraft(d, GS03, outages),
           MayAnswer(d, answers, GS03, outages), DOMAIN answers = DOMAIN d.claims
    PROVE  ReadsRight(GS03, d, answers, outages)
<1>1. PICK rate : rate = Rate[<<"LHR", "ICAR">>]
  OBVIOUS
<1>2. rate \in Nat
  BY <1>1, SeededAssumption, WorldAssumption
<1>3. PICK low : low = rate - 1000
  OBVIOUS
<1>4. low \in Int /\ rate + -1000 = low /\ low # rate /\ rate - low \notin -1..1
  BY <1>2, <1>3
<1>5. PICK claim : claim = PriceClaim("LHR", "ICAR", low, Pounds(low))
  OBVIOUS
<1>6. /\ claim.text_token = Pounds(low) /\ claim.key = <<"LHR", "ICAR">> /\ claim.kind = "price"
      /\ claim.quoted = low
  BY <1>5 DEF PriceClaim
<1>7. ~IsLive(claim) /\ LiveToken(claim) = Pounds(rate)
  BY <1>1, <1>4, <1>6 DEF IsLive, Tolerance, LiveToken
<1>8. QuotesPounds("LHR", "ICAR", -1000) = Bot(<<Words, Pounds(low), Words>>, <<claim>>)
  BY <1>1, <1>4, <1>5 DEF QuotesPounds
<1>9. GS03.expected.delivered_excludes = {Pounds(low)} /\ GS03.expected.message_kind = {"corrected"}
  BY <1>1, <1>3, GS03Is DEF Outcome
<1>10. Pounds(low) # Words /\ 80 \in Nat /\ 80 >= Threshold
  BY Tokens DEF Threshold
<1>11. \/ outages # 0 /\ Read(d, answers) = [text |-> FallbackMessage(GS03.language), kind |-> "fallback"]
       \/ outages # 0 /\ Read(d, answers) = [text |-> <<Words, StripPhrase, Words>>, kind |-> "stripped"]
       \/ Read(d, answers) = [text |-> <<Words, Pounds(rate), Words>>, kind |-> "corrected"]
  <2>1. \/ outages # 0 /\ Read(d, answers) = [text |-> FallbackMessage(GS03.language), kind |-> "fallback"]
        \/ \E keys \in SUBSET Keys :
              /\ outages = 0 => keys = GS03.booking_api_failures
              /\ claim.key \in keys =>
                    Read(d, answers) = [text |-> <<Words, StripPhrase, Words>>, kind |-> "stripped"]
              /\ claim.key \notin keys /\ ~IsLive(claim) =>
                    Read(d, answers) = [text |-> <<Words, LiveToken(claim), Words>>, kind |-> "corrected"]
    BY <1>6, <1>8, <1>10, GS03Is, QuotedScenario
  <2> QED
    BY <1>7, <2>1, GS03Is
<1>12. /\ ~Occurs(Pounds(low), FallbackMessage(GS03.language))
       /\ ~Occurs(Pounds(low), <<Words, StripPhrase, Words>>)
       /\ ~Occurs(Pounds(low), <<Words, Pounds(rate), Words>>)
  <2>1. Pounds(low) # Pounds(rate)
    BY <1>4, Tokens
  <2>2. /\ Pounds(low) # StripPhrase /\ Pounds(low) # Phrase("available")
        /\ Pounds(low)[1] # "fallback"
    BY Tokens DEF StripPhrase
  <2> QED
    BY <1>10, <2>1, <2>2, FallbackOccurs, NotOccurring
<1> QED
  BY <1>9, <1>11, <1>12 DEF ReadsRight

\* _find_zero_availability finds what is sold out.
LEMMA SoldOutIs == Available[<<SoldOut[1], SoldOut[2]>>] = 0
<1>1. PICK zero : zero = {key \in DOMAIN Available : Available[key] = 0}
  OBVIOUS
<1>2. zero # {} /\ (CHOOSE key \in zero : TRUE) \in zero
  BY <1>1, SeededAssumption
<1>3. SoldOut = CHOOSE key \in zero : TRUE
  BY <1>1, <1>2 DEF SoldOut
<1> QED
  BY <1>1, <1>2, <1>3, SeededAssumption

LEMMA GS07Reads ==
    ASSUME NEW d, NEW answers, NEW outages, MayDraft(d, GS07, outages),
           MayAnswer(d, answers, GS07, outages), DOMAIN answers = DOMAIN d.claims
    PROVE  ReadsRight(GS07, d, answers, outages)
<1>1. PICK token, live : token = Phrase("available now") /\ live = Phrase("not currently available")
  OBVIOUS
<1>2. PICK claim : claim = AvailabilityClaim(SoldOut[1], SoldOut[2], TRUE, token)
  OBVIOUS
<1>3. /\ claim.text_token = token /\ claim.key = <<SoldOut[1], SoldOut[2]>>
      /\ claim.kind = "availability" /\ claim.quoted = 1
  BY <1>2 DEF AvailabilityClaim
<1>4. ~IsLive(claim) /\ LiveToken(claim) = live
  <2>1. ~(Available[claim.key] > 0)
    BY <1>3, SoldOutIs
  <2>2. LiveToken(claim) = Phrase("not currently available")
    BY <1>3, <2>1 DEF LiveToken
  <2> QED
    BY <1>1, <1>3, <2>1, <2>2 DEF IsLive
<1>5. GS07.expected.delivered_excludes = {token} /\ GS07.expected.message_kind = {"corrected"}
  <2>1. GS07.expected = [Outcome("corrected", "handed_off") EXCEPT !.delivered_excludes = {token}]
    BY <1>1, <1>2, GS07Is
  <2> QED
    BY <2>1 DEF Outcome
<1>6. token # Words /\ 83 \in Nat /\ 83 >= Threshold
  <2>1. token # Words
    BY <1>1, Tokens
  <2> QED
    BY <2>1 DEF Threshold
<1>7. /\ GS07.llm_response = {Response(Bot(<<Words, token, Words>>, <<claim>>), 83)}
      /\ ~GS07.llm_timeout /\ GS07.booking_api_failures = {}
  BY <1>1, <1>2, GS07Is
<1>8. \/ outages # 0 /\ Read(d, answers) = [text |-> FallbackMessage(GS07.language), kind |-> "fallback"]
      \/ outages # 0 /\ Read(d, answers) = [text |-> <<Words, StripPhrase, Words>>, kind |-> "stripped"]
      \/ Read(d, answers) = [text |-> <<Words, live, Words>>, kind |-> "corrected"]
  <2>1. \/ outages # 0 /\ Read(d, answers) = [text |-> FallbackMessage(GS07.language), kind |-> "fallback"]
        \/ \E keys \in SUBSET Keys :
              /\ outages = 0 => keys = GS07.booking_api_failures
              /\ claim.key \in keys =>
                    Read(d, answers) = [text |-> <<Words, StripPhrase, Words>>, kind |-> "stripped"]
              /\ claim.key \notin keys /\ ~IsLive(claim) =>
                    Read(d, answers) = [text |-> <<Words, LiveToken(claim), Words>>, kind |-> "corrected"]
    BY <1>3, <1>6, <1>7, QuotedScenario
  <2> QED
    BY <1>4, <1>7, <2>1
<1>9. token # Phrase("available") /\ token # StripPhrase /\ token # live
      /\ token[1] # "fallback"
  BY <1>1, Tokens DEF StripPhrase
<1>10. /\ ~Occurs(token, FallbackMessage(GS07.language))
       /\ ~Occurs(token, <<Words, StripPhrase, Words>>)
       /\ ~Occurs(token, <<Words, live, Words>>)
  BY <1>6, <1>9, FallbackOccurs, NotOccurring
<1> QED
  BY <1>5, <1>8, <1>10 DEF ReadsRight

\* Whom a trigger may still reach, and how the round ends.
LEMMA GoldenEnds ==
    ASSUME NEW scenario \in Golden
    PROVE  /\ scenario.expected.fired <=> scenario # GS05
           /\ WouldFire(scenario.prior_engagements, scenario.cap) <=> scenario # GS05
           /\ scenario # GS05 => {TerminalState(scenario.replies # <<>>, scenario.resolves)}
                                    = scenario.expected.terminal_state
           /\ scenario = GS05 => scenario.expected.message_kind = {}
<1>1. WouldFire(<<>>, [per |-> 7, max |-> 1])
  <2>1. {i \in DOMAIN <<>> : <<>>[i] < 7} = {}
    BY EmptySequence
  <2> QED
    BY <2>1, FS_EmptySet DEF WouldFire
<1>2. ~WouldFire(<<1>>, [per |-> 7, max |-> 1])
  <2>1. {i \in DOMAIN <<1>> : <<1>>[i] < 7} = {1}
    BY 1 < 7
  <2> QED
    BY <2>1, FS_Singleton DEF WouldFire
<1>3. ASSUME NEW s,
             s.prior_engagements = <<>>, s.cap = [per |-> 7, max |-> 1], s.expected.fired,
             {TerminalState(s.replies # <<>>, s.resolves)} = s.expected.terminal_state
      PROVE  /\ s.expected.fired /\ WouldFire(s.prior_engagements, s.cap) /\ s # GS05
             /\ {TerminalState(s.replies # <<>>, s.resolves)} = s.expected.terminal_state
  <2>1. ~GS05.expected.fired
    BY DEF GS05, Scenario, Suppressed
  <2> QED
    BY <1>1, <1>3, <2>1
<1>4. /\ GS01.prior_engagements = <<>> /\ GS01.cap = [per |-> 7, max |-> 1]
      /\ GS01.expected.fired
      /\ {TerminalState(GS01.replies # <<>>, GS01.resolves)} = GS01.expected.terminal_state
  BY DEF GS01, Scenario, Outcome, TerminalState
<1>5. /\ GS02.prior_engagements = <<>> /\ GS02.cap = [per |-> 7, max |-> 1]
      /\ GS02.expected.fired
      /\ {TerminalState(GS02.replies # <<>>, GS02.resolves)} = GS02.expected.terminal_state
  BY DEF GS02, Scenario, Outcome, TerminalState
<1>6. /\ GS03.prior_engagements = <<>> /\ GS03.cap = [per |-> 7, max |-> 1]
      /\ GS03.expected.fired
      /\ {TerminalState(GS03.replies # <<>>, GS03.resolves)} = GS03.expected.terminal_state
  BY DEF GS03, Scenario, Outcome, TerminalState
<1>7. /\ GS04.prior_engagements = <<>> /\ GS04.cap = [per |-> 7, max |-> 1]
      /\ GS04.expected.fired
      /\ {TerminalState(GS04.replies # <<>>, GS04.resolves)} = GS04.expected.terminal_state
  BY DEF GS04, Scenario, Outcome, TerminalState
<1>8. /\ GS06.prior_engagements = <<>> /\ GS06.cap = [per |-> 7, max |-> 1]
      /\ GS06.expected.fired
      /\ {TerminalState(GS06.replies # <<>>, GS06.resolves)} = GS06.expected.terminal_state
  BY DEF GS06, Scenario, Outcome, TerminalState
<1>9. /\ GS07.prior_engagements = <<>> /\ GS07.cap = [per |-> 7, max |-> 1]
      /\ GS07.expected.fired
      /\ {TerminalState(GS07.replies # <<>>, GS07.resolves)} = GS07.expected.terminal_state
  BY DEF GS07, Scenario, Outcome, TerminalState
<1>10. CASE scenario \in {GS01, GS02, GS03, GS04, GS06, GS07}
  BY <1>3, <1>4, <1>5, <1>6, <1>7, <1>8, <1>9, <1>10
<1>11. CASE scenario = GS05
  BY <1>2, <1>11 DEF GS05, Scenario, Suppressed
<1> QED
  BY <1>10, <1>11 DEF Golden

LEMMA GoldenReads ==
    ASSUME NEW scenario \in Golden, scenario # GS05, NEW d, NEW answers, NEW outages,
           MayDraft(d, scenario, outages), MayAnswer(d, answers, scenario, outages),
           DOMAIN answers = DOMAIN d.claims
    PROVE  ReadsRight(scenario, d, answers, outages)
BY GS01Reads, GS02Reads, GS03Reads, GS04Reads, GS06Reads, GS07Reads DEF Golden

\* The free scenarios have GS-01's gate, and pin nothing else.
LEMMA FreeScenarioIs ==
    ASSUME NEW response
    PROVE  /\ FreeScenario(response).scenario_id = "free"
           /\ FreeScenario(response).expected.fired
           /\ FreeScenario(response).expected.delivered_excludes = {}
           /\ WouldFire(FreeScenario(response).prior_engagements, FreeScenario(response).cap)
<1>1. /\ FreeScenario(response).scenario_id = "free"
      /\ FreeScenario(response).expected = GS01.expected
      /\ FreeScenario(response).prior_engagements = GS01.prior_engagements
      /\ FreeScenario(response).cap = GS01.cap
  BY DEF FreeScenario, GS01, Scenario
<1>2. GS01.expected.delivered_excludes = {} /\ GS01.expected.fired
  BY DEF GS01, Scenario, Outcome
<1>3. GS01 # GS05
  <2>1. GS01.expected.fired /\ ~GS05.expected.fired
    BY DEF GS01, GS05, Scenario, Outcome, Suppressed
  <2> QED
    BY <2>1
<1>4. WouldFire(GS01.prior_engagements, GS01.cap)
  BY <1>3, GoldenEnds DEF Golden
<1> QED
  BY <1>1, <1>2, <1>4

\* Every golden scenario ends as its expectations pin it in every world that has what it
\* is about, whatever fails on the way (scenarios.py, runner.py:39-59).
THEOREM GoldenAlwaysEndRight == Spec => []GoldenOutcome
<1>1. SessionInv /\ GoldenInv => GoldenOutcome
  <2> SUFFICES ASSUME SessionInv, GoldenInv, ~IsTree, pc \in Terminal \cup {"suppressed"}
               PROVE  GoldenOutcome
    BY DEF GoldenOutcome
  <2>1. PICK scenario : scenario = Body
    OBVIOUS
  <2>2. /\ pc # "gate" /\ (pc = "suppressed" <=> ~WouldFire(scenario.prior_engagements, scenario.cap))
        /\ pc = "suppressed" <=> transcript = <<>>
    BY <2>1 DEF GoldenInv, Over, Terminal
  <2>3. pc = "suppressed" => Delivered = {}
    BY <2>2, EmptySequence DEF Delivered
  <2>4. pc # "suppressed" => pc = TerminalState(scenario.replies # <<>>, scenario.resolves)
    BY <2>1 DEF GoldenInv, Over
  <2>5. CASE scenario \in Golden
    <3>1. /\ scenario.expected.fired <=> pc # "suppressed"
          /\ scenario # GS05 <=> pc # "suppressed"
      BY <2>2, <2>5, GoldenEnds
    <3>2. pc # "suppressed" => {pc} = scenario.expected.terminal_state
      BY <2>4, <2>5, <3>1, GoldenEnds
    <3>3. CASE pc = "suppressed"
      <4>1. scenario.expected.message_kind = {}
        BY <2>5, <3>1, <3>3, GoldenEnds
      <4> QED
        BY <2>1, <2>2, <2>3, <3>1, <3>2, <3>3, <4>1 DEF GoldenOutcome
    <3>4. CASE pc # "suppressed"
      <4>1. PICK m \in Delivered :
                  /\ Delivered = {m}
                  /\ MayDraft(m.draft, scenario, faults) /\ MayAnswer(m.draft, m.results, scenario, faults)
                  /\ DOMAIN m.results = DOMAIN m.draft.claims
                  /\ m.text = Read(m.draft, m.results).text /\ m.kind = Read(m.draft, m.results).kind
        BY <2>1, <3>4 DEF GoldenInv, Over
      <4>2. ReadsRight(scenario, m.draft, m.results, faults)
        BY <2>5, <3>1, <3>4, <4>1, GoldenReads
      <4>3. /\ \A token \in scenario.expected.delivered_excludes : ~Occurs(token, m.text)
            /\ faults = 0 => {m.kind} = scenario.expected.message_kind
        BY <4>1, <4>2 DEF ReadsRight
      <4>4. {n.kind : n \in Delivered} = {m.kind}
        BY <4>1
      <4>5. \A n \in Delivered, token \in scenario.expected.delivered_excludes : ~Occurs(token, n.text)
        BY <4>1, <4>3
      <4> QED
        BY <2>1, <2>2, <3>1, <3>2, <4>3, <4>4, <4>5 DEF GoldenOutcome
    <3> QED
      BY <3>3, <3>4
  <2>6. CASE \E response \in Responses : scenario = FreeScenario(response)
    <3>1. /\ scenario.scenario_id = "free" /\ scenario.expected.fired
          /\ scenario.expected.delivered_excludes = {}
          /\ WouldFire(scenario.prior_engagements, scenario.cap)
      BY <2>6, FreeScenarioIs
    <3> QED
      BY <2>1, <2>2, <3>1 DEF GoldenOutcome
  <2>7. scenario \in Golden \/ \E response \in Responses : scenario = FreeScenario(response)
    BY <2>1 DEF SessionInv, TypeOK, Scripts, IsTree, Body
  <2> QED
    BY <2>5, <2>6, <2>7
<1> QED
  BY <1>1, SessionInvariant, GoldenInvariant, PTL

-----------------------------------------------------------------------------
(* The scripted conversations: what is played of a path *)

\* The turn of the transcript is the one the path has there, verified if it is the bot's.
Played1(m, turn) ==
    /\ m.speaker = turn.speaker
    /\ turn.speaker = "customer" => m.slots = turn.slots
    /\ turn.speaker # "customer" =>
          /\ m.slots = {}
          /\ Len(m.results) = Len(turn.claims) /\ Answered(turn.claims, m.results)
          /\ m.text = ApplyVerification(turn.text, turn.claims, m.results).text

PlayedInv ==
    IsTree =>
        /\ \A i \in DOMAIN transcript : Played1(transcript[i], Body.turns[i])
        /\ pc \in {"verify", "deliver"} =>
              /\ Next1(Body.turns).speaker = "bot"
              /\ draft = Drafted(Next1(Body.turns).text, Next1(Body.turns).claims, "llm")
        /\ pc = "ended" => Len(transcript) = Len(Body.turns)

LEMMA PlacesFinite ==
    ASSUME NEW turns, IsSequence(turns), NEW speaker, NEW S \in SUBSET Places(speaker, turns)
    PROVE  IsFiniteSet(S) /\ S \subseteq 1..Len(turns) /\ Cardinality(S) \in Nat
<1>1. Len(turns) \in Nat /\ DOMAIN turns = 1..Len(turns)
  BY SequenceFacts
<1>2. IsFiniteSet(1..Len(turns))
  BY <1>1, FS_Interval
<1>3. S \subseteq 1..Len(turns)
  BY <1>1 DEF Places
<1> QED
  BY <1>2, <1>3, FS_Subset, FS_CardinalityType

\* The reply to so many replies is the customer's next turn.
LEMMA NextReplyIs ==
    ASSUME NEW path, IsSequence(path.turns), NEW k \in Nat, k + 1 \in DOMAIN path.turns,
           path.turns[k + 1].speaker = "customer"
    PROVE  NextReply(path, Cardinality({j \in Places("customer", path.turns) : j < k + 1}))
              = {path.turns[k + 1]}
<1>0. PICK n : n = Cardinality({j \in Places("customer", path.turns) : j < k + 1})
  OBVIOUS
<1>1. PICK said : said = Places("customer", path.turns)
  OBVIOUS
<1> DEFINE before(i) == {j \in said : j < i}
<1>2. said \subseteq Nat /\ k + 1 \in said
  BY <1>1, SequenceFacts DEF Places
<1>3. \A i \in said : IsFiniteSet(before(i)) /\ Cardinality(before(i)) \in Nat
  BY <1>1, PlacesFinite
<1>4. ASSUME NEW i \in said, NEW j \in said, i < j
      PROVE  Cardinality(before(i)) < Cardinality(before(j))
  <2>1. \A h \in said : h < i => h < j
    BY <1>2, <1>4
  <2>2. ~(i < i)
    BY <1>2
  <2>3. before(i) \subseteq before(j) /\ before(i) # before(j)
    BY <1>4, <2>1, <2>2
  <2>4. /\ Cardinality(before(i)) <= Cardinality(before(j))
        /\ Cardinality(before(i)) # Cardinality(before(j))
    BY <1>3, <2>3, FS_Subset
  <2>5. Cardinality(before(i)) \in Nat /\ Cardinality(before(j)) \in Nat
    BY <1>3
  <2>6. \A a, b \in Nat : a <= b /\ a # b => a < b
    OBVIOUS
  <2> HIDE DEF before
  <2> QED
    BY <2>4, <2>5, <2>6
<1>5. \A i \in said : Cardinality(before(i)) = n <=> i = k + 1
  <2>1. Cardinality(before(k + 1)) = n
    BY <1>0, <1>1
  <2>2. ASSUME NEW i \in said, i # k + 1 PROVE Cardinality(before(i)) # n
    <3>1. i \in Nat /\ (i < k + 1 \/ k + 1 < i)
      BY <1>2, <2>2
    <3>2. Cardinality(before(i)) \in Nat /\ n \in Nat
      BY <1>2, <1>3, <2>1
    <3>3. Cardinality(before(i)) < n \/ n < Cardinality(before(i))
      BY <1>2, <1>4, <2>1, <3>1
    <3> QED
      BY <3>2, <3>3
  <2> QED
    BY <2>1, <2>2
<1>6. NextReply(path, n) = {path.turns[i] : i \in {i \in said : Cardinality(before(i)) = n}}
  BY <1>1 DEF NextReply
<1>7. {i \in said : Cardinality(before(i)) = n} = {k + 1}
  BY <1>2, <1>5
<1> QED
  BY <1>0, <1>6, <1>7

LEMMA PlayedInit ==
    ASSUME Init
    PROVE  PlayedInv
<1>1. IsTree => pc = "turn" /\ transcript = <<>>
  BY DEF Init
<1> QED
  BY <1>1, EmptySequence DEF PlayedInv

\* Where the transcript and the draft stay, so does what was played.
LEMMA PlayedStays ==
    ASSUME PlayedInv, UNCHANGED <<script, transcript>>, pc' # "ended" \/ pc' = pc,
           pc' \in {"verify", "deliver"} => pc \in {"verify", "deliver"} /\ draft' = draft
    PROVE  PlayedInv'
<1>1. Body' = Body /\ IsTree' = IsTree /\ Next1(Body.turns)' = Next1(Body.turns)
  BY DEF Body, IsTree, Next1
<1> QED
  BY <1>1 DEF PlayedInv

\* One more turn of the transcript.
LEMMA PlayedTurn ==
    ASSUME SessionInv, PlayedInv, IsTree, UNCHANGED script, pc' = "turn",
           NEW m, transcript' = Append(transcript, m), Played1(m, Next1(Body.turns))
    PROVE  PlayedInv'
<1>1. Body' = Body /\ IsTree' = IsTree
  BY DEF Body, IsTree
<1>2. PICK s : s = Append(transcript, m)
  OBVIOUS
<1>3. /\ IsSequence(s) /\ Len(s) = Len(transcript) + 1 /\ s[Len(transcript) + 1] = m
      /\ \A i \in 1..Len(transcript) : s[i] = transcript[i]
  BY <1>2, Appended DEF SessionInv, RoundInv
<1>4. /\ Len(transcript) \in Nat /\ DOMAIN transcript = 1..Len(transcript)
      /\ DOMAIN s = 1..(Len(transcript) + 1)
  BY <1>3, SequenceFacts DEF SessionInv, RoundInv
<1>5. ASSUME NEW i \in DOMAIN s PROVE Played1(s[i], Body.turns[i])
  <2>1. i \in 1..Len(transcript) \/ i = Len(transcript) + 1
    BY <1>4
  <2>2. CASE i \in 1..Len(transcript)
    BY <1>3, <1>4, <2>2 DEF PlayedInv
  <2>3. CASE i = Len(transcript) + 1
    BY <1>3, <2>3 DEF Next1
  <2> QED
    BY <2>1, <2>2, <2>3
<1>6. transcript' = s
  BY <1>2
<1> QED
  BY <1>1, <1>5, <1>6 DEF PlayedInv

LEMMA PlayedCustomer ==
    ASSUME SessionInv, PlayedInv, CustomerTurn
    PROVE  PlayedInv'
<1>1. /\ IsTree /\ pc = "turn" /\ pc' = "turn" /\ UNCHANGED script
      /\ Len(transcript) < Len(Body.turns) /\ Next1(Body.turns).speaker = "customer"
  BY DEF CustomerTurn, MoreTurns
<1>2. PICK k : k = Len(transcript)
  OBVIOUS
<1>3. PICK path : path = Body
  OBVIOUS
<1>4. Playable(path.turns)
  BY <1>1, <1>3, ScriptsTyped DEF SessionInv, TypeOK, IsTree, Body
<1>5. /\ k \in Nat /\ DOMAIN transcript = 1..k
      /\ Len(path.turns) \in Nat /\ DOMAIN path.turns = 1..Len(path.turns)
  BY <1>2, <1>4, SequenceFacts DEF SessionInv, RoundInv, Playable
<1>6. k + 1 \in DOMAIN path.turns /\ path.turns[k + 1] = Next1(Body.turns)
  BY <1>1, <1>2, <1>3, <1>5 DEF Next1
<1>7. Places("customer", transcript) = {j \in Places("customer", path.turns) : j < k + 1}
  <2>1. \A j \in 1..k : transcript[j].speaker = path.turns[j].speaker
    BY <1>1, <1>3, <1>5 DEF PlayedInv, Played1
  <2>2. \A j \in 1..Len(path.turns) : j < k + 1 <=> j \in 1..k
    BY <1>5
  <2>3. 1..k \subseteq 1..Len(path.turns)
    BY <1>1, <1>2, <1>3, <1>5
  <2> QED
    BY <1>5, <2>1, <2>2, <2>3 DEF Places
<1>8. NextReply(path, Cardinality(Places("customer", transcript))) = {Next1(Body.turns)}
  BY <1>1, <1>4, <1>5, <1>6, <1>7, NextReplyIs DEF Playable
<1>9. PICK message : transcript'
                        = Append(transcript, Turn("customer", message, Next1(Body.turns).slots, FALSE))
  BY <1>3, <1>8 DEF CustomerTurn
<1>10. PICK m : m = Turn("customer", message, Next1(Body.turns).slots, FALSE)
  OBVIOUS
<1>11. Played1(m, Next1(Body.turns))
  BY <1>1, <1>10 DEF Played1, Turn
<1> QED
  BY <1>1, <1>9, <1>10, <1>11, PlayedTurn

LEMMA PlayedBot ==
    ASSUME SessionInv, PlayedInv, BotTurn
    PROVE  PlayedInv'
<1>1. /\ IsTree /\ pc' = "verify" /\ UNCHANGED <<script, transcript>>
      /\ Next1(Body.turns).speaker = "bot"
      /\ draft' = Drafted(Next1(Body.turns).text, Next1(Body.turns).claims, "llm")
  BY DEF BotTurn, MoreTurns
<1>2. Body' = Body /\ IsTree' = IsTree /\ Next1(Body.turns)' = Next1(Body.turns)
  BY <1>1 DEF Body, IsTree, Next1
<1> QED
  BY <1>1, <1>2 DEF PlayedInv

LEMMA PlayedDeliver ==
    ASSUME SessionInv, PlayedInv, IsTree, Deliver
    PROVE  PlayedInv'
<1>1. PICK m : m = Turn("bot", Message, {}, Handoff)
  OBVIOUS
<1>2. m.results = results /\ m.text = Message.text /\ m.speaker = "bot" /\ m.slots = {}
  BY <1>1 DEF Turn
<1>3. pc = "deliver" /\ pc' = "turn" /\ UNCHANGED script /\ transcript' = Append(transcript, m)
  BY <1>1 DEF Deliver
<1>4. PICK turn : turn = Next1(Body.turns)
  OBVIOUS
<1>5. /\ turn.speaker = "bot"
      /\ draft.text = turn.text /\ draft.claims = turn.claims /\ draft.kind = "llm"
  BY <1>3, <1>4, DraftedIs DEF PlayedInv
<1>6. Len(results) = Len(draft.claims) /\ DOMAIN results = DOMAIN draft.claims
  BY <1>3, SequenceFacts DEF SessionInv, TypeOK, RoundInv
<1>7. Answered(draft.claims, results)
  BY <1>6 DEF SessionInv, AnswersOfTheAPI, Answered
<1>8. Message = ApplyVerification(draft.text, draft.claims, results)
  BY <1>5 DEF Message
<1>9. Played1(m, turn)
  BY <1>2, <1>5, <1>6, <1>7, <1>8 DEF Played1
<1> QED
  BY <1>3, <1>4, <1>9, PlayedTurn

LEMMA PlayedInvariant == Spec => []PlayedInv
<1>1. Init => PlayedInv
  BY PlayedInit
<1>2. SessionInv /\ PlayedInv /\ [Next]_vars => PlayedInv'
  <2> SUFFICES ASSUME SessionInv, PlayedInv, [Next]_vars PROVE PlayedInv'
    OBVIOUS
  <2>1. CASE Gate \/ Generate \/ GenerateTimesOut \/ DeliverFails \/ (Deliver /\ ~IsTree)
    <3>1. ~IsTree /\ UNCHANGED script
      BY <2>1 DEF Gate, Generate, GenerateTimesOut, DeliverFails, Deliver, SessionInv, RoundInv
    <3> QED
      BY <3>1 DEF PlayedInv, IsTree
  <2>2. CASE CustomerTurn
    BY <2>2, PlayedCustomer
  <2>3. CASE BotTurn
    BY <2>3, PlayedBot
  <2>4. CASE HangUp
    <3>1. /\ UNCHANGED <<script, transcript>> /\ pc' = "ended" /\ Len(transcript) = Len(Body.turns)
      BY <2>4 DEF HangUp
    <3>2. Body' = Body /\ IsTree' = IsTree
      BY <3>1 DEF Body, IsTree
    <3> QED
      BY <3>1, <3>2 DEF PlayedInv
  <2>5. CASE VerifyClaim \/ VerificationRaises \/ AllVerified \/ Outage
    BY <2>5, PlayedStays DEF VerifyClaim, VerificationRaises, AllVerified, Outage
  <2>6. CASE Deliver /\ IsTree
    BY <2>6, PlayedDeliver
  <2>7. CASE UNCHANGED vars
    BY <2>7, PlayedStays DEF vars
  <2> QED
    BY <2>1, <2>2, <2>3, <2>4, <2>5, <2>6, <2>7 DEF Next
<1> QED
  BY <1>1, <1>2, SessionInvariant, PTL DEF Spec

-----------------------------------------------------------------------------
(* The slots that are filled in the end *)

\* The slots after the first n turns, for every n up to some number.
Filling(slots, upto, turns) ==
    slots = [n \in 0..upto |-> IF n = 0 THEN {} ELSE Updated(slots[n - 1], turns[n].slots)]

LEMMA FillingExists ==
    ASSUME NEW turns, NEW upto \in Nat
    PROVE  \E slots : Filling(slots, upto, turns)
<1> DEFINE next(slots, n) == Updated(slots, turns[n].slots)
           Rec(slots, k) == slots = [n \in 0..k |-> IF n = 0 THEN {} ELSE next(slots[n - 1], n)]
           S == {k \in Nat : \E slots : Rec(slots, k)}
<1> HIDE DEF next
<1>1. 0 \in S
  <2>1. Rec([n \in 0..0 |-> {}], 0)
    OBVIOUS
  <2> QED
    BY <2>1
<1>2. ASSUME NEW k \in S PROVE k + 1 \in S
  <2>1. PICK f : Rec(f, k)
    OBVIOUS
  <2> DEFINE g == [n \in 0..(k + 1) |-> IF n = k + 1 THEN next(f[k], n) ELSE f[n]]
  <2>2. Rec(g, k + 1)
    <3>1. \A n \in 0..k : g[n] = f[n]
      OBVIOUS
    <3>2. \A n \in 0..k : f[n] = IF n = 0 THEN {} ELSE next(f[n - 1], n)
      BY <2>1
    <3>3. ASSUME NEW n \in 0..(k + 1) PROVE g[n] = IF n = 0 THEN {} ELSE next(g[n - 1], n)
      BY <3>1, <3>2
    <3>4. g = [n \in 0..(k + 1) |-> g[n]]
      OBVIOUS
    <3> HIDE DEF g
    <3> QED
      BY <3>3, <3>4
  <2> HIDE DEF Rec, g
  <2> QED
    BY <2>2
<1> HIDE DEF Rec
<1>3. S \in SUBSET Nat
  OBVIOUS
<1> HIDE DEF S
<1>4. upto \in S
  BY <1>1, <1>2, <1>3, SetInduction
<1> QED
  BY <1>4 DEF S, Rec, Filling, next

LEMMA FinalSlotsUnfold ==
    ASSUME NEW turns, Len(turns) \in Nat
    PROVE  \E slots : Filling(slots, Len(turns), turns) /\ FinalSlots(turns) = slots[Len(turns)]
<1> DEFINE slots == CHOOSE f :
                      f = [n \in 0..Len(turns) |->
                             IF n = 0 THEN {} ELSE Updated(f[n - 1], turns[n].slots)]
<1>1. Filling(slots, Len(turns), turns)
  BY FillingExists DEF Filling
<1>2. FinalSlots(turns) = slots[Len(turns)]
  BY DEF FinalSlots
<1> HIDE DEF slots
<1> QED
  BY <1>1, <1>2

\* A slot that some turn filled is filled in the end; it is as the turn filled it, unless
\* a later turn filled it again.
LEMMA SlotsStay ==
    ASSUME NEW turns, IsSequence(turns), NEW k \in DOMAIN turns, NEW slot \in turns[k].slots
    PROVE  /\ slot[1] \in Names(FinalSlots(turns))
           /\ (\A i \in DOMAIN turns : i > k => slot[1] \notin Names(turns[i].slots))
                 => slot \in FinalSlots(turns)
<1>1. Len(turns) \in Nat /\ DOMAIN turns = 1..Len(turns)
  BY SequenceFacts
<1>2. PICK f : Filling(f, Len(turns), turns) /\ FinalSlots(turns) = f[Len(turns)]
  BY <1>1, FinalSlotsUnfold
<1>3. \A n \in 1..Len(turns) : f[n] = Updated(f[n - 1], turns[n].slots)
  <2>1. \A n \in 1..Len(turns) : n \in 0..Len(turns) /\ n # 0
    BY <1>1
  <2>2. PICK last : last = Len(turns)
    OBVIOUS
  <2>3. \A n \in 0..last : f[n] = IF n = 0 THEN {} ELSE Updated(f[n - 1], turns[n].slots)
    BY <1>2, <2>2 DEF Filling
  <2> QED
    BY <2>1, <2>2, <2>3
<1> DEFINE Kept(n) ==
             /\ slot[1] \in Names(f[n])
             /\ (\A i \in DOMAIN turns : i > k => slot[1] \notin Names(turns[i].slots)) => slot \in f[n]
           S == {n \in Nat : n >= k /\ n <= Len(turns) => Kept(n)}
<1>4. Kept(k)
  BY <1>1, <1>3 DEF Updated, Names
<1>5. ASSUME NEW n \in Nat, n >= k, n + 1 <= Len(turns), Kept(n) PROVE Kept(n + 1)
  <2>1. PICK m : m = n + 1
    OBVIOUS
  <2>2. m \in 1..Len(turns) /\ m - 1 = n /\ m > k
    BY <1>1, <1>5, <2>1
  <2>3. f[m] = {s \in f[n] : s[1] \notin Names(turns[m].slots)} \cup turns[m].slots
    BY <1>3, <2>2 DEF Updated
  <2>4. Kept(m)
    BY <1>1, <1>5, <2>2, <2>3 DEF Names
  <2> QED
    BY <2>1, <2>4
<1> HIDE DEF Kept
<1>6. /\ S \in SUBSET Nat /\ 0 \in S /\ \A n \in S : n + 1 \in S
  <2>1. ASSUME NEW n \in S PROVE n + 1 \in S
    <3>1. n \in Nat /\ n + 1 \in Nat /\ (n + 1 <= Len(turns) => n <= Len(turns))
      BY <1>1
    <3>2. n + 1 >= k => n >= k \/ n + 1 = k
      BY <1>1, <3>1
    <3> QED
      BY <1>4, <1>5, <3>1, <3>2
  <2>2. 0 \in S
    BY <1>1
  <2> QED
    BY <2>1, <2>2
<1> HIDE DEF S
<1>7. S = Nat
  BY <1>6, SetInduction
<1>8. Len(turns) \in S /\ Len(turns) >= k
  BY <1>1, <1>7
<1>9. Kept(Len(turns))
  BY <1>1, <1>8 DEF S
<1> QED
  BY <1>2, <1>9 DEF Kept

\* At least so many.
LEMMA AtLeast ==
    ASSUME NEW S, IsFiniteSet(S)
    PROVE  /\ \A a \in S : Cardinality(S) >= 1
           /\ \A a, b \in S : a # b => Cardinality(S) >= 2
           /\ \A a, b, c \in S : a # b /\ a # c /\ b # c => Cardinality(S) >= 3
           /\ \A a, b, c, d \in S :
                 a # b /\ a # c /\ a # d /\ b # c /\ b # d /\ c # d => Cardinality(S) >= 4
<1>1. ASSUME NEW T, IsFiniteSet(T), NEW e \in T
      PROVE  /\ IsFiniteSet(T \ {e}) /\ Cardinality(T) \in Nat /\ Cardinality(T \ {e}) \in Nat
             /\ Cardinality(T) = Cardinality(T \ {e}) + 1
  <2>1. IsFiniteSet(T \ {e}) /\ Cardinality(T \ {e}) = Cardinality(T) - 1
    BY <1>1, FS_RemoveElement
  <2>2. Cardinality(T) \in Nat /\ Cardinality(T \ {e}) \in Nat
    BY <1>1, <2>1, FS_CardinalityType
  <2> QED
    BY <2>1, <2>2
<1>2. ASSUME NEW T, IsFiniteSet(T), NEW a \in T PROVE Cardinality(T) >= 1
  <2>1. Cardinality(T \ {a}) \in Nat /\ Cardinality(T) = Cardinality(T \ {a}) + 1
    BY <1>1, <1>2
  <2> QED
    BY <2>1
<1>3. ASSUME NEW T, IsFiniteSet(T), NEW a \in T, NEW b \in T, a # b PROVE Cardinality(T) >= 2
  <2>1. IsFiniteSet(T \ {a}) /\ b \in T \ {a}
    BY <1>1, <1>3
  <2>2. Cardinality(T \ {a}) >= 1
    BY <1>2, <2>1
  <2> QED
    BY <1>1, <1>3, <2>2
<1>4. ASSUME NEW T, IsFiniteSet(T), NEW a \in T, NEW b \in T, NEW c \in T, a # b, a # c, b # c
      PROVE  Cardinality(T) >= 3
  <2>1. IsFiniteSet(T \ {a}) /\ b \in T \ {a} /\ c \in T \ {a}
    BY <1>1, <1>4
  <2>2. Cardinality(T \ {a}) >= 2
    BY <1>3, <1>4, <2>1
  <2> QED
    BY <1>1, <1>4, <2>2
<1>5. ASSUME NEW a \in S, NEW b \in S, NEW c \in S, NEW d \in S,
             a # b, a # c, a # d, b # c, b # d, c # d
      PROVE  Cardinality(S) >= 4
  <2>1. IsFiniteSet(S \ {a}) /\ b \in S \ {a} /\ c \in S \ {a} /\ d \in S \ {a}
    BY <1>1, <1>5
  <2>2. Cardinality(S \ {a}) >= 3
    BY <1>4, <1>5, <2>1
  <2> QED
    BY <1>1, <2>2
<1> QED
  BY <1>2, <1>3, <1>4, <1>5

-----------------------------------------------------------------------------
(* What a path that was played to its end comes to *)

PlayedOut(t, path) ==
    /\ IsSequence(t) /\ IsSequence(path.turns) /\ Len(t) = Len(path.turns)
    /\ \A i \in DOMAIN t : Played1(t[i], path.turns[i])

LEMMA PlayedOutIs ==
    ASSUME NEW t, NEW path, PlayedOut(t, path)
    PROVE  /\ Len(t) \in Nat /\ DOMAIN t = 1..Len(t) /\ DOMAIN path.turns = DOMAIN t
           /\ \A speaker : Places(speaker, t) = Places(speaker, path.turns)
           /\ \A speaker : IsFiniteSet(Places(speaker, t)) /\ Places(speaker, t) \subseteq DOMAIN t
           /\ \A i \in DOMAIN t : path.turns[i].speaker = "customer" => t[i].slots = path.turns[i].slots
<1>1. Len(t) \in Nat /\ DOMAIN t = 1..Len(t) /\ DOMAIN path.turns = DOMAIN t
  BY SequenceFacts DEF PlayedOut
<1>2. \A i \in DOMAIN t :
         /\ t[i].speaker = path.turns[i].speaker
         /\ path.turns[i].speaker = "customer" => t[i].slots = path.turns[i].slots
  BY DEF PlayedOut, Played1
<1>3. \A speaker : Places(speaker, t) = Places(speaker, path.turns)
  BY <1>1, <1>2 DEF Places
<1>4. \A speaker : IsFiniteSet(Places(speaker, t)) /\ Places(speaker, t) \subseteq DOMAIN t
  BY PlacesFinite DEF Places, PlayedOut
<1> QED
  BY <1>1, <1>2, <1>3, <1>4

\* The customer's turns of a path fill what it requires, and the bot takes enough turns.
Fulfils(path) ==
    /\ \A name \in path.expected.required_slots : \E i \in DOMAIN path.turns :
          path.turns[i].speaker = "customer" /\ name \in Names(path.turns[i].slots)
    /\ Cardinality(Places("bot", path.turns)) >= path.expected.min_bot_turns

LEMMA Fulfilled ==
    ASSUME NEW t, NEW path, PlayedOut(t, path), Fulfils(path)
    PROVE  /\ path.expected.required_slots \subseteq Names(FinalSlots(t))
           /\ Cardinality(Places("bot", t)) >= path.expected.min_bot_turns
<1>1. ASSUME NEW name \in path.expected.required_slots PROVE name \in Names(FinalSlots(t))
  <2>1. PICK i \in DOMAIN path.turns :
               path.turns[i].speaker = "customer" /\ name \in Names(path.turns[i].slots)
    BY DEF Fulfils
  <2>2. i \in DOMAIN t /\ t[i].slots = path.turns[i].slots
    BY <2>1, PlayedOutIs
  <2>3. PICK slot \in t[i].slots : slot[1] = name
    BY <2>1, <2>2 DEF Names
  <2>4. slot[1] \in Names(FinalSlots(t))
    BY <2>2, SlotsStay DEF PlayedOut
  <2> QED
    BY <2>3, <2>4
<1>2. Places("bot", t) = Places("bot", path.turns)
  BY PlayedOutIs
<1> QED
  BY <1>1, <1>2 DEF Fulfils

\* What PathsEndRight asks, of any path and what was played of it.
CorrectedIn(t, path) ==
    /\ path.conversation_id = "CV-06"
    /\ \E i \in Places("bot", t) : Occurs(Phrase("not currently available"), t[i].text)

LastQuoteOf(path) ==
    path.turns[Max({i \in DOMAIN path.turns : path.turns[i].claims # <<>>})].claims[1]

RightlyBooked(t, path) ==
    path.expected.outcome = "booking_created" =>
        Place(LastQuoteOf(path).key[1], LastQuoteOf(path).key[2]) \subseteq FinalSlots(t)

EndsRight(t, path) ==
    /\ Passed(t, path.expected) <=> ~CorrectedIn(t, path)
    /\ RightlyBooked(t, path)

\* A path whose texts are all the same to the evaluator, and that books nothing.
Plain(path) ==
    /\ path.conversation_id # "CV-06" /\ path.expected.outcome # "booking_created"
    /\ path.expected.delivered_excludes = {} /\ path.expected.superseded_tokens = {}

LEMMA PlainEndsRight ==
    ASSUME NEW t, NEW path, PlayedOut(t, path), Fulfils(path), Plain(path)
    PROVE  EndsRight(t, path)
<1>1. ~CorrectedIn(t, path) /\ RightlyBooked(t, path)
  BY DEF Plain, CorrectedIn, RightlyBooked
<1>2. Passed(t, path.expected)
  BY Fulfilled DEF Plain, Passed
<1> QED
  BY <1>1, <1>2 DEF EndsRight

\* The customer starts and says all that is required, and the bot answers.
LEMMA AskedAndAnswered ==
    ASSUME NEW path, IsSequence(path.turns), {1, 2} \subseteq DOMAIN path.turns,
           path.turns[1].speaker = "customer", path.turns[2].speaker = "bot",
           path.expected.required_slots \subseteq Names(path.turns[1].slots),
           path.expected.min_bot_turns = 1
    PROVE  Fulfils(path)
<1>1. 2 \in Places("bot", path.turns)
  BY DEF Places
<1>2. Cardinality(Places("bot", path.turns)) >= 1
  BY <1>1, PlacesFinite, AtLeast
<1> QED
  BY <1>2 DEF Fulfils

LEMMA TurnsSay ==
    /\ \A slots : /\ Cust(slots).speaker = "customer" /\ Cust(slots).slots = slots
                  /\ Cust(slots).claims = <<>>
    /\ \A text, claims : /\ Bot(text, claims).speaker = "bot" /\ Bot(text, claims).text = text
                         /\ Bot(text, claims).claims = claims
    /\ Says.speaker = "bot" /\ Says.text = <<Words>> /\ Says.claims = <<>>
    /\ HandsOff.speaker = "bot"
    /\ \A loc, class, off : Quotes(loc, class, off).speaker = "bot"
<1>1. \A slots : /\ Cust(slots).speaker = "customer" /\ Cust(slots).slots = slots
                 /\ Cust(slots).claims = <<>>
  BY DEF Cust
<1>2. \A text, claims : /\ Bot(text, claims).speaker = "bot" /\ Bot(text, claims).text = text
                        /\ Bot(text, claims).claims = claims
  BY DEF Bot
<1>3. HandsOff.speaker = Says.speaker
  BY DEF HandsOff, Says, Bot
<1> QED
  BY <1>1, <1>2, <1>3 DEF Says, Quotes

-----------------------------------------------------------------------------
(* The paths that are plain *)

LEMMA PathIs ==
    ASSUME NEW tree, NEW turns, NEW expected
    PROVE  /\ Path(tree, turns, expected).turns = turns
           /\ Path(tree, turns, expected).expected = expected
           /\ Path(tree, turns, expected).conversation_id = tree.conversation_id
BY DEF Path

LEMMA TreeIs ==
    ASSUME NEW id, NEW turns, NEW branches, NEW expected
    PROVE  /\ Tree(id, turns, branches, expected).turns = turns
           /\ Tree(id, turns, branches, expected).branches = branches
           /\ Tree(id, turns, branches, expected).expected = expected
           /\ Tree(id, turns, branches, expected).conversation_id = id
BY DEF Tree

LEMMA ExpectIs ==
    ASSUME NEW outcome, NEW slots
    PROVE  /\ Expect(outcome, slots).outcome = outcome
           /\ Expect(outcome, slots).required_slots = slots
           /\ Expect(outcome, slots).delivered_excludes = {}
           /\ Expect(outcome, slots).superseded_tokens = {}
           /\ Expect(outcome, slots).min_bot_turns = 1
BY DEF Expect

MainPath(tree) == Path(tree, tree.turns, tree.expected)

LEMMA PlacesNamed ==
    ASSUME NEW loc, NEW class
    PROVE  /\ Names(Ref) = {"booking_ref"} /\ Names(Dates) = {"pickup_at", "return_at"}
           /\ Names(Place(loc, class)) = {"pickup", "vehicle_class"}
BY DEF Names, Ref, Dates, Place

\* The customer asks, the bot answers or hands off, and nothing is quoted or booked.
LEMMA AskedEndsRight ==
    ASSUME NEW path, NEW t, PlayedOut(t, path), path.conversation_id # "CV-06",
           NEW slots, NEW outcome, outcome # "booking_created", NEW required,
           required \subseteq Names(slots), path.expected = Expect(outcome, required),
           {1, 2} \subseteq DOMAIN path.turns, path.turns[1] = Cust(slots),
           path.turns[2].speaker = "bot"
    PROVE  EndsRight(t, path)
<1>1. /\ path.expected.outcome = outcome /\ path.expected.required_slots = required
      /\ path.expected.delivered_excludes = {} /\ path.expected.superseded_tokens = {}
      /\ path.expected.min_bot_turns = 1
  BY ExpectIs
<1>2. path.turns[1].speaker = "customer" /\ path.turns[1].slots = slots
  BY TurnsSay
<1>3. Fulfils(path) /\ Plain(path)
  BY <1>1, <1>2, AskedAndAnswered DEF Plain, PlayedOut
<1> QED
  BY <1>3, PlainEndsRight

LEMMA CV02Ends ==
    ASSUME NEW t, PlayedOut(t, MainPath(CV02))
    PROVE  EndsRight(t, MainPath(CV02))
<1>1. PICK path : path = MainPath(CV02)
  OBVIOUS
<1>2. PICK a, b, c :
             a = Cust(Ref) /\ b = Says /\ c = Cust({})
  OBVIOUS
<1>3. /\ path.turns = <<a, b, c>> /\ path.conversation_id = "CV-02"
      /\ path.expected = Expect("resolved", {"booking_ref"})
  BY <1>1, <1>2, PathIs, TreeIs DEF MainPath, CV02
<1>4. /\ {1, 2} \subseteq DOMAIN path.turns /\ path.turns[1] = a /\ path.turns[2] = b
      /\ b.speaker = "bot"
  BY <1>2, <1>3, TurnsSay
<1>5. {"booking_ref"} \subseteq Names(Ref)
  BY DEF Names, Ref
<1> QED
  BY <1>1, <1>2, <1>3, <1>4, <1>5, AskedEndsRight

LEMMA CV04Ends ==
    ASSUME NEW t, PlayedOut(t, MainPath(CV04))
    PROVE  EndsRight(t, MainPath(CV04))
<1>1. PICK path : path = MainPath(CV04)
  OBVIOUS
<1>2. PICK a, b, c, d :
             a = Cust(Ref) /\ b = Says /\ c = Cust({}) /\ d = Says
  OBVIOUS
<1>3. /\ path.turns = <<a, b, c, d>> /\ path.conversation_id = "CV-04"
      /\ path.expected = Expect("booking_cancelled", {"booking_ref"})
  BY <1>1, <1>2, PathIs, TreeIs DEF MainPath, CV04
<1>4. /\ {1, 2} \subseteq DOMAIN path.turns /\ path.turns[1] = a /\ path.turns[2] = b
      /\ b.speaker = "bot"
  BY <1>2, <1>3, TurnsSay
<1>5. {"booking_ref"} \subseteq Names(Ref)
  BY DEF Names, Ref
<1> QED
  BY <1>1, <1>2, <1>3, <1>4, <1>5, AskedEndsRight

LEMMA CV07Ends ==
    ASSUME NEW t, PlayedOut(t, MainPath(CV07))
    PROVE  EndsRight(t, MainPath(CV07))
<1>1. PICK path : path = MainPath(CV07)
  OBVIOUS
<1>2. PICK a, b, c :
             a = Cust({<<"vehicle_class", "ICAR">>}) /\ b = Says /\ c = Cust({})
  OBVIOUS
<1>3. /\ path.turns = <<a, b, c>> /\ path.conversation_id = "CV-07"
      /\ path.expected = Expect("resolved", {"vehicle_class"})
  BY <1>1, <1>2, PathIs, TreeIs DEF MainPath, CV07
<1>4. /\ {1, 2} \subseteq DOMAIN path.turns /\ path.turns[1] = a /\ path.turns[2] = b
      /\ b.speaker = "bot"
  BY <1>2, <1>3, TurnsSay
<1>5. {"vehicle_class"} \subseteq Names({<<"vehicle_class", "ICAR">>})
  BY DEF Names, Ref
<1> QED
  BY <1>1, <1>2, <1>3, <1>4, <1>5, AskedEndsRight

LEMMA CV08Ends ==
    ASSUME NEW t, PlayedOut(t, MainPath(CV08))
    PROVE  EndsRight(t, MainPath(CV08))
<1>1. PICK path : path = MainPath(CV08)
  OBVIOUS
<1>2. PICK a, b, c :
             a = Cust({<<"pickup", "LHR">>, <<"dropoff", "MAN">>}) /\ b = Says /\ c = Cust({})
  OBVIOUS
<1>3. /\ path.turns = <<a, b, c>> /\ path.conversation_id = "CV-08"
      /\ path.expected = Expect("resolved", {"pickup", "dropoff"})
  BY <1>1, <1>2, PathIs, TreeIs DEF MainPath, CV08
<1>4. /\ {1, 2} \subseteq DOMAIN path.turns /\ path.turns[1] = a /\ path.turns[2] = b
      /\ b.speaker = "bot"
  BY <1>2, <1>3, TurnsSay
<1>5. {"pickup", "dropoff"} \subseteq Names({<<"pickup", "LHR">>, <<"dropoff", "MAN">>})
  BY DEF Names, Ref
<1> QED
  BY <1>1, <1>2, <1>3, <1>4, <1>5, AskedEndsRight

LEMMA CV11Ends ==
    ASSUME NEW t, PlayedOut(t, MainPath(CV11))
    PROVE  EndsRight(t, MainPath(CV11))
<1>1. PICK path : path = MainPath(CV11)
  OBVIOUS
<1>2. PICK a, b, c :
             a = Cust({<<"topic", "deposit">>}) /\ b = Says /\ c = Cust({})
  OBVIOUS
<1>3. /\ path.turns = <<a, b, c>> /\ path.conversation_id = "CV-11"
      /\ path.expected = Expect("resolved", {"topic"})
  BY <1>1, <1>2, PathIs, TreeIs DEF MainPath, CV11
<1>4. /\ {1, 2} \subseteq DOMAIN path.turns /\ path.turns[1] = a /\ path.turns[2] = b
      /\ b.speaker = "bot"
  BY <1>2, <1>3, TurnsSay
<1>5. {"topic"} \subseteq Names({<<"topic", "deposit">>})
  BY DEF Names, Ref
<1> QED
  BY <1>1, <1>2, <1>3, <1>4, <1>5, AskedEndsRight

LEMMA CV12Ends ==
    ASSUME NEW t, PlayedOut(t, MainPath(CV12))
    PROVE  EndsRight(t, MainPath(CV12))
<1>1. PICK path : path = MainPath(CV12)
  OBVIOUS
<1>2. PICK a, b :
             a = Cust(Ref \cup {<<"severity", "high">>}) /\ b = HandsOff
  OBVIOUS
<1>3. /\ path.turns = <<a, b>> /\ path.conversation_id = "CV-12"
      /\ path.expected = Expect("escalated_to_human", {"booking_ref"})
  BY <1>1, <1>2, PathIs, TreeIs DEF MainPath, CV12
<1>4. /\ {1, 2} \subseteq DOMAIN path.turns /\ path.turns[1] = a /\ path.turns[2] = b
      /\ b.speaker = "bot"
  BY <1>2, <1>3, TurnsSay
<1>5. {"booking_ref"} \subseteq Names(Ref \cup {<<"severity", "high">>})
  BY DEF Names, Ref
<1> QED
  BY <1>1, <1>2, <1>3, <1>4, <1>5, AskedEndsRight

LEMMA CV13Ends ==
    ASSUME NEW t, PlayedOut(t, MainPath(CV13))
    PROVE  EndsRight(t, MainPath(CV13))
<1>1. PICK path : path = MainPath(CV13)
  OBVIOUS
<1>2. PICK a, b :
             a = Cust(Ref \cup {<<"fee_type", "fuel">>}) /\ b = HandsOff
  OBVIOUS
<1>3. /\ path.turns = <<a, b>> /\ path.conversation_id = "CV-13"
      /\ path.expected = Expect("escalated_to_human", {"booking_ref", "fee_type"})
  BY <1>1, <1>2, PathIs, TreeIs DEF MainPath, CV13
<1>4. /\ {1, 2} \subseteq DOMAIN path.turns /\ path.turns[1] = a /\ path.turns[2] = b
      /\ b.speaker = "bot"
  BY <1>2, <1>3, TurnsSay
<1>5. {"booking_ref", "fee_type"} \subseteq Names(Ref \cup {<<"fee_type", "fuel">>})
  BY DEF Names, Ref
<1> QED
  BY <1>1, <1>2, <1>3, <1>4, <1>5, AskedEndsRight

LEMMA CV14Ends ==
    ASSUME NEW t, PlayedOut(t, MainPath(CV14))
    PROVE  EndsRight(t, MainPath(CV14))
<1>1. PICK path : path = MainPath(CV14)
  OBVIOUS
<1>2. PICK a, b, c :
             a = Cust({<<"topic", "driver_age">>}) /\ b = Says /\ c = Cust({})
  OBVIOUS
<1>3. /\ path.turns = <<a, b, c>> /\ path.conversation_id = "CV-14"
      /\ path.expected = Expect("resolved", {"topic"})
  BY <1>1, <1>2, PathIs, TreeIs DEF MainPath, CV14
<1>4. /\ {1, 2} \subseteq DOMAIN path.turns /\ path.turns[1] = a /\ path.turns[2] = b
      /\ b.speaker = "bot"
  BY <1>2, <1>3, TurnsSay
<1>5. {"topic"} \subseteq Names({<<"topic", "driver_age">>})
  BY DEF Names, Ref
<1> QED
  BY <1>1, <1>2, <1>3, <1>4, <1>5, AskedEndsRight

LEMMA CV15Ends ==
    ASSUME NEW t, PlayedOut(t, MainPath(CV15))
    PROVE  EndsRight(t, MainPath(CV15))
<1>1. PICK path : path = MainPath(CV15)
  OBVIOUS
<1>2. PICK a, b, c :
             a = Cust({}) /\ b = Says /\ c = Cust({})
  OBVIOUS
<1>3. /\ path.turns = <<a, b, c>> /\ path.conversation_id = "CV-15"
      /\ path.expected = Expect("declined_out_of_scope", {})
  BY <1>1, <1>2, PathIs, TreeIs DEF MainPath, CV15
<1>4. /\ {1, 2} \subseteq DOMAIN path.turns /\ path.turns[1] = a /\ path.turns[2] = b
      /\ b.speaker = "bot"
  BY <1>2, <1>3, TurnsSay
<1>5. {} \subseteq Names({})
  BY DEF Names, Ref
<1> QED
  BY <1>1, <1>2, <1>3, <1>4, <1>5, AskedEndsRight

\* Six turns, three of the bot's.
LEMMA CV03Ends ==
    ASSUME NEW t, PlayedOut(t, MainPath(CV03))
    PROVE  EndsRight(t, MainPath(CV03))
<1>1. PICK path : path = MainPath(CV03)
  OBVIOUS
<1>2. PICK a, b, c, d, e, f :
             /\ a = Cust(Ref) /\ b = Says /\ c = Cust({<<"vehicle_class", "FCAR">>})
             /\ d = Quotes("LHR", "FCAR", 0) /\ e = Cust({}) /\ f = Says
  OBVIOUS
<1>3. PICK required : required = {"booking_ref", "vehicle_class"}
  OBVIOUS
<1>4. /\ path.turns = <<a, b, c, d, e, f>> /\ path.conversation_id = "CV-03"
      /\ path.expected = [Expect("booking_modified", required) EXCEPT !.min_bot_turns = 3]
  BY <1>1, <1>2, <1>3, PathIs, TreeIs DEF MainPath, CV03
<1>5. Plain(path) /\ path.expected.required_slots = required /\ path.expected.min_bot_turns = 3
  BY <1>4 DEF Expect, Plain
<1>6. /\ DOMAIN path.turns = 1..6
      /\ path.turns[1] = a /\ path.turns[2] = b /\ path.turns[3] = c /\ path.turns[4] = d
      /\ path.turns[6] = f
  BY <1>4
<1>7. /\ a.speaker = "customer" /\ c.speaker = "customer"
      /\ b.speaker = "bot" /\ d.speaker = "bot" /\ f.speaker = "bot"
      /\ "booking_ref" \in Names(a.slots) /\ "vehicle_class" \in Names(c.slots)
  <2>1. a.slots = Ref /\ c.slots = {<<"vehicle_class", "FCAR">>}
    BY <1>2, TurnsSay
  <2>2. "booking_ref" \in Names(a.slots) /\ "vehicle_class" \in Names(c.slots)
    BY <2>1 DEF Names, Ref
  <2> QED
    BY <1>2, <2>2, TurnsSay
<1>8. {2, 4, 6} \subseteq Places("bot", path.turns)
  BY <1>6, <1>7 DEF Places
<1>9. Cardinality(Places("bot", path.turns)) >= 3
  <2>1. IsFiniteSet(Places("bot", path.turns))
    BY <1>1, PlacesFinite DEF PlayedOut
  <2> QED
    BY <1>8, <2>1, AtLeast
<1>10. Fulfils(path)
  <2>1. ASSUME NEW name \in required
        PROVE  \E i \in {1, 3} : path.turns[i].speaker = "customer" /\ name \in Names(path.turns[i].slots)
    BY <1>3, <1>6, <1>7
  <2>2. {1, 3} \subseteq DOMAIN path.turns
    BY <1>6
  <2> QED
    BY <1>5, <1>9, <2>1, <2>2 DEF Fulfils
<1> QED
  BY <1>1, <1>5, <1>10, PlainEndsRight

LEMMA CV09Ends ==
    ASSUME NEW t, PlayedOut(t, MainPath(CV09))
    PROVE  EndsRight(t, MainPath(CV09))
<1>1. PICK path : path = MainPath(CV09)
  OBVIOUS
<1>2. PICK a, b, c, d :
             /\ a = Cust({<<"fee_type", "late_return">>}) /\ b = Says
             /\ c = Cust({<<"fee_type", "no_show">>}) /\ d = Says
  OBVIOUS
<1>3. /\ path.turns = <<a, b, c, d>> /\ path.conversation_id = "CV-09"
      /\ path.expected = [Expect("resolved", {"fee_type"}) EXCEPT !.min_bot_turns = 2]
  BY <1>1, <1>2, PathIs, TreeIs DEF MainPath, CV09
<1>4. Plain(path) /\ path.expected.required_slots = {"fee_type"} /\ path.expected.min_bot_turns = 2
  BY <1>3 DEF Expect, Plain
<1>5. /\ DOMAIN path.turns = 1..4
      /\ path.turns[1] = a /\ path.turns[2] = b /\ path.turns[4] = d
  BY <1>3
<1>6. /\ a.speaker = "customer" /\ b.speaker = "bot" /\ d.speaker = "bot"
      /\ "fee_type" \in Names(a.slots)
  <2>1. a.slots = {<<"fee_type", "late_return">>}
    BY <1>2, TurnsSay
  <2>2. "fee_type" \in Names(a.slots)
    BY <2>1 DEF Names
  <2> QED
    BY <1>2, <2>2, TurnsSay
<1>7. {2, 4} \subseteq Places("bot", path.turns)
  BY <1>5, <1>6 DEF Places
<1>8. Cardinality(Places("bot", path.turns)) >= 2
  <2>1. IsFiniteSet(Places("bot", path.turns))
    BY <1>1, PlacesFinite DEF PlayedOut
  <2> QED
    BY <1>7, <2>1, AtLeast
<1>9. Fulfils(path)
  <2>1. 1 \in DOMAIN path.turns
    BY <1>5
  <2> QED
    BY <1>4, <1>5, <1>6, <1>8, <2>1 DEF Fulfils
<1> QED
  BY <1>1, <1>4, <1>9, PlainEndsRight

LEMMA CV10Ends ==
    ASSUME NEW t, PlayedOut(t, MainPath(CV10))
    PROVE  EndsRight(t, MainPath(CV10))
<1>1. PICK path : path = MainPath(CV10)
  OBVIOUS
<1>2. PICK a, b, c, d :
             /\ a = Cust({<<"product", "excess_protection">>, <<"extra", "child_seat">>}) /\ b = Says
             /\ c = Cust(Ref) /\ d = Says
  OBVIOUS
<1>3. PICK required : required = {"extra", "booking_ref"}
  OBVIOUS
<1>4. /\ path.turns = <<a, b, c, d>> /\ path.conversation_id = "CV-10"
      /\ path.expected = [Expect("booking_modified", required) EXCEPT !.min_bot_turns = 2]
  BY <1>1, <1>2, <1>3, PathIs, TreeIs DEF MainPath, CV10
<1>5. Plain(path) /\ path.expected.required_slots = required /\ path.expected.min_bot_turns = 2
  BY <1>4 DEF Expect, Plain
<1>6. /\ DOMAIN path.turns = 1..4
      /\ path.turns[1] = a /\ path.turns[2] = b /\ path.turns[3] = c /\ path.turns[4] = d
  BY <1>4
<1>7. /\ a.speaker = "customer" /\ c.speaker = "customer" /\ b.speaker = "bot" /\ d.speaker = "bot"
      /\ "extra" \in Names(a.slots) /\ "booking_ref" \in Names(c.slots)
  <2>1. a.slots = {<<"product", "excess_protection">>, <<"extra", "child_seat">>} /\ c.slots = Ref
    BY <1>2, TurnsSay
  <2>2. "extra" \in Names(a.slots) /\ "booking_ref" \in Names(c.slots)
    BY <2>1 DEF Names, Ref
  <2> QED
    BY <1>2, <2>2, TurnsSay
<1>8. {2, 4} \subseteq Places("bot", path.turns)
  BY <1>6, <1>7 DEF Places
<1>9. Cardinality(Places("bot", path.turns)) >= 2
  <2>1. IsFiniteSet(Places("bot", path.turns))
    BY <1>1, PlacesFinite DEF PlayedOut
  <2> QED
    BY <1>8, <2>1, AtLeast
<1>10. Fulfils(path)
  <2>1. ASSUME NEW name \in required
        PROVE  \E i \in {1, 3} : path.turns[i].speaker = "customer" /\ name \in Names(path.turns[i].slots)
    BY <1>3, <1>6, <1>7
  <2>2. {1, 3} \subseteq DOMAIN path.turns
    BY <1>6
  <2> QED
    BY <1>5, <1>9, <2>1, <2>2 DEF Fulfils
<1> QED
  BY <1>1, <1>5, <1>10, PlainEndsRight

LEMMA CV16Ends ==
    ASSUME NEW t, PlayedOut(t, MainPath(CV16))
    PROVE  EndsRight(t, MainPath(CV16))
<1>1. PICK path : path = MainPath(CV16)
  OBVIOUS
<1>2. PICK a, b, c, d :
             a = Cust({}) /\ b = Says /\ c = Cust(Place("LHR", "ECAR")) /\ d = Quotes("LHR", "ECAR", 0)
  OBVIOUS
<1>3. PICK required : required = {"pickup", "vehicle_class"}
  OBVIOUS
<1>4. /\ path.turns = <<a, b, c, d>> /\ path.conversation_id = "CV-16"
      /\ path.expected = [Expect("resolved", required) EXCEPT !.min_bot_turns = 2]
  BY <1>1, <1>2, <1>3, PathIs, TreeIs DEF MainPath, CV16
<1>5. Plain(path) /\ path.expected.required_slots = required /\ path.expected.min_bot_turns = 2
  BY <1>4 DEF Expect, Plain
<1>6. DOMAIN path.turns = 1..4 /\ path.turns[2] = b /\ path.turns[3] = c /\ path.turns[4] = d
  BY <1>4
<1>7. /\ c.speaker = "customer" /\ b.speaker = "bot" /\ d.speaker = "bot"
      /\ Names(c.slots) = required
  BY <1>2, <1>3, TurnsSay, PlacesNamed
<1>8. {2, 4} \subseteq Places("bot", path.turns)
  BY <1>6, <1>7 DEF Places
<1>9. Cardinality(Places("bot", path.turns)) >= 2
  <2>1. IsFiniteSet(Places("bot", path.turns))
    BY <1>1, PlacesFinite DEF PlayedOut
  <2> QED
    BY <1>8, <2>1, AtLeast
<1>10. Fulfils(path)
  <2>1. 3 \in DOMAIN path.turns
    BY <1>6
  <2> QED
    BY <1>5, <1>6, <1>7, <1>9, <2>1 DEF Fulfils
<1> QED
  BY <1>1, <1>5, <1>10, PlainEndsRight

LEMMA BranchIs ==
    ASSUME NEW id, NEW from, NEW turns, NEW expected
    PROVE  /\ Branch(id, from, turns, expected).from_turn = from
           /\ Branch(id, from, turns, expected).turns = turns
           /\ Branch(id, from, turns, expected).expected = expected
BY DEF Branch

\* A branch off after two turns keeps those.
LEMMA BranchOffTwo ==
    ASSUME NEW tree, IsSequence(tree.turns), 2 <= Len(tree.turns),
           NEW branch, IsSequence(branch.turns), branch.from_turn = 2, 1 <= Len(branch.turns)
    PROVE  /\ {1, 2} \subseteq DOMAIN BranchPath(tree, branch)
           /\ BranchPath(tree, branch)[1] = tree.turns[1]
           /\ BranchPath(tree, branch)[2] = tree.turns[2]
<1>1. PICK s : s = BranchPath(tree, branch)
  OBVIOUS
<1>2. /\ IsSequence(s) /\ Len(s) = 2 + Len(branch.turns)
      /\ \A i \in 1..2 : s[i] = tree.turns[i]
  BY <1>1, BranchTurns
<1>3. DOMAIN s = 1..Len(s) /\ Len(branch.turns) \in Nat /\ 1 \in 1..2 /\ 2 \in 1..2
  BY <1>2, SequenceFacts
<1>4. {1, 2} \subseteq 1..Len(s)
  BY <1>2, <1>3
<1> QED
  BY <1>1, <1>2, <1>3, <1>4

\* The customer keeps the booking.
LEMMA RetainEnds ==
    ASSUME NEW branch \in CV04.branches, NEW t,
           PlayedOut(t, Path(CV04, BranchPath(CV04, branch), branch.expected))
    PROVE  EndsRight(t, Path(CV04, BranchPath(CV04, branch), branch.expected))
<1>1. PICK path : path = Path(CV04, BranchPath(CV04, branch), branch.expected)
  OBVIOUS
<1>2. PICK a, b, c : a = Cust(Ref) /\ b = Says /\ c = Cust({})
  OBVIOUS
<1>3. PICK turns, more : turns = <<a, b, c, b>> /\ more = <<c, b>>
  OBVIOUS
<1>4. /\ CV04.turns = turns /\ CV04.conversation_id = "CV-04"
      /\ branch.from_turn = 2 /\ branch.turns = more /\ branch.expected = Expect("resolved", {"booking_ref"})
  BY <1>2, <1>3, TreeIs, BranchIs DEF CV04
<1>5. /\ path.turns = BranchPath(CV04, branch) /\ path.conversation_id = "CV-04"
      /\ path.expected = Expect("resolved", {"booking_ref"})
  BY <1>1, <1>4, PathIs
<1>6. /\ IsSequence(turns) /\ Len(turns) = 4 /\ turns[1] = a /\ turns[2] = b
      /\ IsSequence(more) /\ Len(more) = 2
  <2>1. turns = [i \in 1..4 |-> turns[i]] /\ more = [i \in 1..2 |-> more[i]]
    BY <1>3
  <2>2. turns[1] = a /\ turns[2] = b
    BY <1>3
  <2> QED
    BY <2>1, <2>2, FunctionIsSequence
<1>7. {1, 2} \subseteq DOMAIN path.turns /\ path.turns[1] = a /\ path.turns[2] = b
  <2>1. IsSequence(CV04.turns) /\ IsSequence(branch.turns)
    BY <1>4, <1>6
  <2>2. 2 <= Len(CV04.turns) /\ 1 <= Len(branch.turns) /\ branch.from_turn = 2
    BY <1>4, <1>6
  <2>3. /\ {1, 2} \subseteq DOMAIN BranchPath(CV04, branch)
        /\ BranchPath(CV04, branch)[1] = CV04.turns[1]
        /\ BranchPath(CV04, branch)[2] = CV04.turns[2]
    BY <2>1, <2>2, BranchOffTwo
  <2> QED
    BY <1>4, <1>5, <1>6, <2>3
<1>8. {"booking_ref"} \subseteq Names(Ref) /\ b.speaker = "bot"
  BY <1>2, PlacesNamed, TurnsSay
<1> QED
  BY <1>1, <1>2, <1>5, <1>7, <1>8, AskedEndsRight

\* The customer leaves without having said a thing.
LEMMA AbandonEnds ==
    ASSUME NEW branch \in CV16.branches, NEW t,
           PlayedOut(t, Path(CV16, BranchPath(CV16, branch), branch.expected))
    PROVE  EndsRight(t, Path(CV16, BranchPath(CV16, branch), branch.expected))
<1>1. PICK path : path = Path(CV16, BranchPath(CV16, branch), branch.expected)
  OBVIOUS
<1>2. PICK a, b, c, d :
             a = Cust({}) /\ b = Says /\ c = Cust(Place("LHR", "ECAR")) /\ d = Quotes("LHR", "ECAR", 0)
  OBVIOUS
<1>3. PICK turns, more : turns = <<a, b, c, d>> /\ more = <<a>>
  OBVIOUS
<1>4. /\ CV16.turns = turns /\ CV16.conversation_id = "CV-16"
      /\ branch.from_turn = 2 /\ branch.turns = more /\ branch.expected = Expect("abandoned", {})
  BY <1>2, <1>3, TreeIs, BranchIs DEF CV16
<1>5. /\ path.turns = BranchPath(CV16, branch) /\ path.conversation_id = "CV-16"
      /\ path.expected = Expect("abandoned", {})
  BY <1>1, <1>4, PathIs
<1>6. /\ IsSequence(turns) /\ Len(turns) = 4 /\ turns[1] = a /\ turns[2] = b
      /\ IsSequence(more) /\ Len(more) = 1
  <2>1. turns = [i \in 1..4 |-> turns[i]] /\ more = [i \in 1..1 |-> more[i]]
    BY <1>3
  <2>2. turns[1] = a /\ turns[2] = b
    BY <1>3
  <2> QED
    BY <2>1, <2>2, FunctionIsSequence
<1>7. {1, 2} \subseteq DOMAIN path.turns /\ path.turns[1] = a /\ path.turns[2] = b
  <2>1. IsSequence(CV16.turns) /\ IsSequence(branch.turns)
    BY <1>4, <1>6
  <2>2. 2 <= Len(CV16.turns) /\ 1 <= Len(branch.turns) /\ branch.from_turn = 2
    BY <1>4, <1>6
  <2>3. /\ {1, 2} \subseteq DOMAIN BranchPath(CV16, branch)
        /\ BranchPath(CV16, branch)[1] = CV16.turns[1]
        /\ BranchPath(CV16, branch)[2] = CV16.turns[2]
    BY <2>1, <2>2, BranchOffTwo
  <2> QED
    BY <1>4, <1>5, <1>6, <2>3
<1>8. {} \subseteq Names({}) /\ b.speaker = "bot"
  BY <1>2, PlacesNamed, TurnsSay
<1> QED
  BY <1>1, <1>2, <1>5, <1>7, <1>8, AskedEndsRight


-----------------------------------------------------------------------------
(* The paths that quote, correct or book *)

\* What the customer reads where the bot drafted a sentence with one claim.
LEMMA ClaimShown ==
    ASSUME NEW token, token # Words, NEW claim, claim.text_token = token,
           NEW turn, turn.speaker # "customer", turn.text = <<Words, token, Words>>,
           turn.claims = <<claim>>, NEW m, Played1(m, turn)
    PROVE  \/ m.text = <<Words, StripPhrase, Words>>
           \/ IsLive(claim) /\ m.text = <<Words, token, Words>>
           \/ ~IsLive(claim) /\ m.text = <<Words, LiveToken(claim), Words>>
<1>1. PICK answers : answers = m.results
  OBVIOUS
<1>2. /\ m.text = ApplyVerification(<<Words, token, Words>>, <<claim>>, answers).text
      /\ Answered(<<claim>>, answers)
  BY <1>1 DEF Played1
<1>3. PICK keys : answers[1] = Verify(claim, keys)
  <2>1. PICK claims : claims = <<claim>>
    OBVIOUS
  <2>2. 1 \in DOMAIN claims /\ claims[1] = claim
    BY <2>1
  <2> QED
    BY <1>2, <2>1, <2>2 DEF Answered
<1>4. PICK start : start = [text |-> <<Words, token, Words>>, kind |-> "llm"]
  OBVIOUS
<1>5. ApplyVerification(<<Words, token, Words>>, <<claim>>, answers) = Settled(start, claim, answers[1])
  BY <1>4, OneClaim
<1>6. start.text = <<Words, token, Words>>
  BY <1>4
<1>7. ASSUME NEW new PROVE Replaced(<<Words, token, Words>>, token, new) = <<Words, new, Words>>
  BY DEF Replaced
<1>8. /\ answers[1].status = "ok" => Settled(start, claim, answers[1]).text = start.text
      /\ answers[1].status = "wrong" =>
            Settled(start, claim, answers[1]).text = <<Words, answers[1].correct_token, Words>>
      /\ answers[1].status = "unverifiable" =>
            Settled(start, claim, answers[1]).text = <<Words, StripPhrase, Words>>
  BY <1>4, <1>6, <1>7 DEF Settled
<1>9. \/ answers[1].status = "unverifiable"
      \/ IsLive(claim) /\ answers[1].status = "ok"
      \/ ~IsLive(claim) /\ answers[1].status = "wrong" /\ answers[1].correct_token = LiveToken(claim)
  BY <1>3 DEF Verify, Result
<1> QED
  BY <1>2, <1>5, <1>6, <1>8, <1>9

LEMMA WordsShown ==
    ASSUME NEW m, Played1(m, Says)
    PROVE  m.text = <<Words>>
<1>1. m.text = ApplyVerification(<<Words>>, <<>>, m.results).text
  BY TurnsSay DEF Played1
<1> QED
  BY <1>1, NoClaim

LEMMA MoneyIs ==
    ASSUME NEW loc, NEW amount
    PROVE  /\ Money(loc, amount) # Words /\ Money(loc, amount) # Phrase("available")
           /\ Money(loc, amount) # StripPhrase
           /\ \A other, more : Money(loc, amount) = Money(other, more) => amount = more
           /\ \A more : Money(loc, amount) = Pounds(more) => amount = more
<1>1. \A a, b : <<a, b>> # Words
  BY DEF Words
<1> QED
  BY <1>1 DEF Money, Pounds, Phrase, StripPhrase

LEMMA QuotesIs ==
    ASSUME NEW loc, NEW class, NEW off
    PROVE  \E claim :
              /\ Quotes(loc, class, off).text = <<Words, QuoteOf(loc, class, off), Words>>
              /\ Quotes(loc, class, off).claims = <<claim>>
              /\ claim.kind = "price" /\ claim.key = <<loc, class>>
              /\ claim.quoted = Rate[<<loc, class>>] + off
              /\ claim.text_token = QuoteOf(loc, class, off)
<1>1. PICK token, amount : token = QuoteOf(loc, class, off) /\ amount = Rate[<<loc, class>>] + off
  OBVIOUS
<1>2. PICK claim : claim = PriceClaim(loc, class, amount, token)
  OBVIOUS
<1>3. Quotes(loc, class, off) = Bot(<<Words, token, Words>>, <<claim>>)
  BY <1>1, <1>2 DEF Quotes, QuoteOf
<1>4. /\ claim.kind = "price" /\ claim.key = <<loc, class>>
      /\ claim.quoted = amount /\ claim.text_token = token
  BY <1>2 DEF PriceClaim
<1> QED
  BY <1>1, <1>3, <1>4, TurnsSay

\* A quote at the live rate is read as it is, or not at all.
LEMMA LiveQuoteShown ==
    ASSUME NEW loc, NEW class, Rate[<<loc, class>>] \in Nat, NEW m, Played1(m, Quotes(loc, class, 0))
    PROVE  m.text \in {<<Words, StripPhrase, Words>>, <<Words, QuoteOf(loc, class, 0), Words>>}
<1>1. PICK turn, token : turn = Quotes(loc, class, 0) /\ token = QuoteOf(loc, class, 0)
  OBVIOUS
<1>2. PICK claim : /\ turn.text = <<Words, token, Words>> /\ turn.claims = <<claim>>
                   /\ claim.kind = "price" /\ claim.key = <<loc, class>>
                   /\ claim.quoted = Rate[<<loc, class>>] + 0 /\ claim.text_token = token
  BY <1>1, QuotesIs
<1>3. IsLive(claim)
  BY <1>2 DEF IsLive, Tolerance
<1>4. turn.speaker # "customer" /\ token # Words
  BY <1>1, TurnsSay, MoneyIs DEF QuoteOf
<1>5. \/ m.text = <<Words, StripPhrase, Words>>
      \/ IsLive(claim) /\ m.text = <<Words, token, Words>>
      \/ ~IsLive(claim) /\ m.text = <<Words, LiveToken(claim), Words>>
  BY <1>1, <1>2, <1>4, ClaimShown
<1> QED
  BY <1>1, <1>3, <1>5

LEMMA LastQuoteIs ==
    ASSUME NEW path, IsSequence(path.turns), NEW k \in DOMAIN path.turns,
           NEW loc, NEW class, NEW off, path.turns[k] = Quotes(loc, class, off),
           \A i \in DOMAIN path.turns : i > k => path.turns[i].claims = <<>>
    PROVE  LastQuoteOf(path).key = <<loc, class>>
<1>1. PICK claim : /\ Quotes(loc, class, off).text = <<Words, QuoteOf(loc, class, off), Words>>
                   /\ Quotes(loc, class, off).claims = <<claim>>
                   /\ claim.kind = "price" /\ claim.key = <<loc, class>>
                   /\ claim.quoted = Rate[<<loc, class>>] + off
                   /\ claim.text_token = QuoteOf(loc, class, off)
  BY QuotesIs
<1>2. PICK quoting : quoting = {i \in DOMAIN path.turns : path.turns[i].claims # <<>>}
  OBVIOUS
<1>3. DOMAIN path.turns \subseteq Nat
  BY SequenceFacts
<1>4. PICK one : one = <<claim>>
  OBVIOUS
<1>5. one # <<>> /\ one[1] = claim
  BY <1>4
<1>6. k \in quoting /\ \A i \in quoting : i <= k
  <2>1. k \in quoting
    BY <1>1, <1>2, <1>4, <1>5
  <2>2. \A i \in quoting : ~(i > k)
    BY <1>2
  <2>3. k \in Nat /\ \A i \in quoting : i \in Nat
    BY <1>2, <1>3
  <2> QED
    BY <2>1, <2>2, <2>3
<1>7. Max(quoting) = k
  <2>1. \A i \in quoting : (\A j \in quoting : i >= j) => i = k
    BY <1>2, <1>3, <1>6
  <2>2. \A j \in quoting : k >= j
    BY <1>2, <1>3, <1>6
  <2> QED
    BY <1>6, <2>1, <2>2 DEF Max
<1>8. LastQuoteOf(path) = claim
  BY <1>1, <1>2, <1>4, <1>5, <1>7 DEF LastQuoteOf
<1> QED
  BY <1>1, <1>8

\* What the customer said, and did not say again.
LEMMA FilledLast ==
    ASSUME NEW t, NEW path, PlayedOut(t, path), NEW k \in DOMAIN path.turns,
           path.turns[k].speaker = "customer", NEW slot \in path.turns[k].slots,
           \A i \in DOMAIN path.turns :
              i > k /\ path.turns[i].speaker = "customer" => slot[1] \notin Names(path.turns[i].slots)
    PROVE  slot \in FinalSlots(t)
<1>1. DOMAIN path.turns = DOMAIN t /\ slot \in t[k].slots
  BY PlayedOutIs
<1>2. ASSUME NEW i \in DOMAIN t, i > k PROVE slot[1] \notin Names(t[i].slots)
  <2>1. CASE path.turns[i].speaker = "customer"
    BY <1>1, <1>2, <2>1, PlayedOutIs
  <2>2. CASE path.turns[i].speaker # "customer"
    <3>1. t[i].slots = {}
      BY <1>2, <2>2 DEF PlayedOut, Played1
    <3> QED
      BY <3>1 DEF Names
  <2> QED
    BY <2>1, <2>2
<1> QED
  BY <1>1, <1>2, SlotsStay DEF PlayedOut

\* The wrong quote is corrected or taken out.
LEMMA CV05Ends ==
    ASSUME NEW t, PlayedOut(t, MainPath(CV05))
    PROVE  EndsRight(t, MainPath(CV05))
<1>1. PICK path : path = MainPath(CV05)
  OBVIOUS
<1>2. PICK a, b, c : a = Cust(Place("MAN", "ECAR")) /\ b = Quotes("MAN", "ECAR", -750) /\ c = Cust({})
  OBVIOUS
<1>3. PICK token, required : token = QuoteOf("MAN", "ECAR", -750) /\ required = {"pickup", "vehicle_class"}
  OBVIOUS
<1>4. /\ path.turns = <<a, b, c>> /\ path.conversation_id = "CV-05"
      /\ path.expected = [Expect("resolved", required) EXCEPT !.delivered_excludes = {token}]
  BY <1>1, <1>2, <1>3, PathIs, TreeIs DEF MainPath, CV05
<1>5. /\ path.expected.delivered_excludes = {token} /\ path.expected.superseded_tokens = {}
      /\ path.expected.required_slots = required /\ path.expected.min_bot_turns = 1
      /\ path.expected.outcome = "resolved"
  BY <1>4 DEF Expect
<1>6. /\ DOMAIN path.turns = 1..3
      /\ path.turns[1] = a /\ path.turns[2] = b /\ path.turns[3] = c
  BY <1>4
<1>7. /\ a.speaker = "customer" /\ b.speaker = "bot" /\ c.speaker = "customer"
      /\ Names(a.slots) = required
  BY <1>2, <1>3, TurnsSay, PlacesNamed
<1>8. Fulfils(path)
  <2>1. {1, 2} \subseteq DOMAIN path.turns
    BY <1>6
  <2> QED
    BY <1>1, <1>5, <1>6, <1>7, <2>1, AskedAndAnswered DEF PlayedOut
<1>9. ASSUME NEW i \in Places("bot", t) PROVE ~Occurs(token, t[i].text)
  <2>1. i \in DOMAIN t /\ i \in 1..3 /\ path.turns[i].speaker = "bot"
    <3>1. DOMAIN path.turns = DOMAIN t /\ Places("bot", t) = Places("bot", path.turns)
      BY <1>1, PlayedOutIs
    <3> QED
      BY <1>6, <1>9, <3>1 DEF Places
  <2>2. i = 2
    <3>1. i = 1 \/ i = 2 \/ i = 3
      BY <2>1
    <3> QED
      BY <1>6, <1>7, <2>1, <3>1
  <2>3. PICK m : m = t[i]
    OBVIOUS
  <2>4. Played1(m, b)
    BY <1>1, <1>6, <2>1, <2>2, <2>3 DEF PlayedOut
  <2>5. PICK rate : rate = Rate[<<"MAN", "ECAR">>]
    OBVIOUS
  <2>6. rate \in Nat
    BY <2>5, SeededAssumption, WorldAssumption
  <2>7. PICK claim : /\ b.text = <<Words, token, Words>> /\ b.claims = <<claim>>
                     /\ claim.kind = "price" /\ claim.key = <<"MAN", "ECAR">>
                     /\ claim.quoted = rate + -750 /\ claim.text_token = token
    BY <1>2, <1>3, <2>5, QuotesIs
  <2>8. ~IsLive(claim) /\ LiveToken(claim) = Pounds(rate)
    BY <2>5, <2>6, <2>7 DEF IsLive, Tolerance, LiveToken
  <2>9. /\ token # Words /\ token # Phrase("available") /\ token # StripPhrase
        /\ token # Pounds(rate)
    <3>1. PICK low : low = rate + -750
      OBVIOUS
    <3>2. low # rate
      BY <2>6, <3>1
    <3>3. token = Money("MAN", low)
      BY <1>3, <2>5, <3>1 DEF QuoteOf
    <3> QED
      BY <3>2, <3>3, MoneyIs
  <2>10. \/ m.text = <<Words, StripPhrase, Words>>
         \/ IsLive(claim) /\ m.text = <<Words, token, Words>>
         \/ ~IsLive(claim) /\ m.text = <<Words, LiveToken(claim), Words>>
    BY <1>7, <2>4, <2>7, <2>9, ClaimShown
  <2>11. m.text = <<Words, StripPhrase, Words>> \/ m.text = <<Words, Pounds(rate), Words>>
    BY <2>8, <2>10
  <2>12. ~Occurs(token, <<Words, StripPhrase, Words>>) /\ ~Occurs(token, <<Words, Pounds(rate), Words>>)
    BY <2>9, NotOccurring
  <2> QED
    BY <2>3, <2>11, <2>12
<1>10. Passed(t, path.expected)
  BY <1>1, <1>5, <1>8, <1>9, Fulfilled DEF Passed
<1>11. ~CorrectedIn(t, path) /\ RightlyBooked(t, path)
  BY <1>4, <1>5 DEF CorrectedIn, RightlyBooked
<1> QED
  BY <1>1, <1>10, <1>11 DEF EndsRight

\* The sold-out car: what corrects the draft is what the evaluator takes back.
LEMMA CV06Ends ==
    ASSUME NEW t, PlayedOut(t, MainPath(CV06))
    PROVE  EndsRight(t, MainPath(CV06))
<1>1. PICK path : path = MainPath(CV06)
  OBVIOUS
<1>2. PICK token, live, required :
             /\ token = Phrase("available") /\ live = Phrase("not currently available")
             /\ required = {"pickup", "vehicle_class"}
  OBVIOUS
<1>3. PICK claim : claim = AvailabilityClaim(SoldOut[1], SoldOut[2], TRUE, token)
  OBVIOUS
<1>4. /\ claim.text_token = token /\ claim.key = <<SoldOut[1], SoldOut[2]>>
      /\ claim.kind = "availability" /\ claim.quoted = 1
  BY <1>3 DEF AvailabilityClaim
<1>5. PICK a, b, c : /\ a = Cust(Place(SoldOut[1], SoldOut[2]))
                     /\ b = Bot(<<Words, token, Words>>, <<claim>>) /\ c = Cust({})
  OBVIOUS
<1>6. /\ path.turns = <<a, b, c>> /\ path.conversation_id = "CV-06"
      /\ path.expected = [Expect("resolved", required) EXCEPT !.delivered_excludes = {token}]
  <2>1. PICK turns, expected :
               /\ turns = <<a, b, c>>
               /\ expected = [Expect("resolved", required) EXCEPT !.delivered_excludes = {token}]
    OBVIOUS
  <2>2. CV06 = Tree("CV-06", turns, {}, expected)
    BY <1>2, <1>3, <1>5, <2>1, Zenon DEF CV06
  <2> QED
    BY <1>1, <2>1, <2>2, PathIs, TreeIs DEF MainPath
<1>7. /\ path.expected.delivered_excludes = {token} /\ path.expected.superseded_tokens = {}
      /\ path.expected.required_slots = required /\ path.expected.min_bot_turns = 1
      /\ path.expected.outcome = "resolved"
  BY <1>6 DEF Expect
<1>8. /\ DOMAIN path.turns = 1..3
      /\ path.turns[1] = a /\ path.turns[2] = b /\ path.turns[3] = c
  BY <1>6
<1>9. /\ a.speaker = "customer" /\ b.speaker = "bot" /\ c.speaker = "customer"
      /\ Names(a.slots) = required
      /\ b.text = <<Words, token, Words>> /\ b.claims = <<claim>>
  <2>1. a.speaker = "customer" /\ c.speaker = "customer" /\ Names(a.slots) = required
    <3>1. PICK loc, class : loc = SoldOut[1] /\ class = SoldOut[2]
      OBVIOUS
    <3>2. Names(Place(loc, class)) = {"pickup", "vehicle_class"}
      BY PlacesNamed
    <3>3. a = Cust(Place(loc, class))
      BY <1>5, <3>1
    <3> QED
      BY <1>2, <1>5, <3>2, <3>3, TurnsSay
  <2>2. b.speaker = "bot" /\ b.text = <<Words, token, Words>> /\ b.claims = <<claim>>
    BY <1>5, TurnsSay
  <2> QED
    BY <2>1, <2>2
<1>10. Fulfils(path)
  <2>1. {1, 2} \subseteq DOMAIN path.turns
    BY <1>8
  <2> QED
    BY <1>1, <1>7, <1>8, <1>9, <2>1, AskedAndAnswered DEF PlayedOut
<1>11. Places("bot", t) = {2} /\ Played1(t[2], b)
  <2>1. DOMAIN t = 1..3 /\ Places("bot", t) = Places("bot", path.turns)
    BY <1>1, <1>8, PlayedOutIs
  <2>2. \A i \in 1..3 : path.turns[i].speaker = "bot" <=> i = 2
    <3>1. \A i \in 1..3 : i = 1 \/ i = 2 \/ i = 3
      OBVIOUS
    <3> QED
      BY <1>8, <1>9, <3>1
  <2>3. 2 \in 1..3
    OBVIOUS
  <2>4. Places("bot", path.turns) = {2}
    BY <1>8, <2>2, <2>3 DEF Places
  <2>5. Played1(t[2], path.turns[2])
    BY <1>1, <2>1, <2>3 DEF PlayedOut
  <2> QED
    BY <1>8, <2>1, <2>4, <2>5
<1>12. ~IsLive(claim) /\ LiveToken(claim) = live
  <2>1. ~(Available[claim.key] > 0)
    BY <1>4, SoldOutIs
  <2>2. LiveToken(claim) = Phrase("not currently available")
    BY <1>4, <2>1 DEF LiveToken
  <2> QED
    BY <1>2, <1>4, <2>1, <2>2 DEF IsLive
<1>13. PICK text : text = t[2].text
  OBVIOUS
<1>14. /\ token # Words /\ live # Words /\ token # live
       /\ token # StripPhrase /\ live # StripPhrase
  BY <1>2, Tokens DEF StripPhrase
<1>15. text = <<Words, StripPhrase, Words>> \/ text = <<Words, live, Words>>
  <2>1. PICK m : m = t[2]
    OBVIOUS
  <2>2. \/ m.text = <<Words, StripPhrase, Words>>
        \/ IsLive(claim) /\ m.text = <<Words, token, Words>>
        \/ ~IsLive(claim) /\ m.text = <<Words, LiveToken(claim), Words>>
    BY <1>4, <1>9, <1>11, <1>14, <2>1, ClaimShown
  <2> QED
    BY <1>12, <1>13, <2>1, <2>2
<1>16. Occurs(token, text) <=> Occurs(live, text)
  <2>1. /\ \A i \in DOMAIN text : i = 1 \/ i = 2 \/ i = 3
        /\ 2 \in DOMAIN text /\ text[1] = Words /\ text[3] = Words /\ text[2] \in {StripPhrase, live}
    <3>1. \A i \in 1..3 : i = 1 \/ i = 2 \/ i = 3
      OBVIOUS
    <3>2. PICK middle : middle \in {StripPhrase, live} /\ text = <<Words, middle, Words>>
      BY <1>15
    <3>3. DOMAIN text = 1..3 /\ text[1] = Words /\ text[2] = middle /\ text[3] = Words
      BY <3>2
    <3> QED
      BY <3>1, <3>2, <3>3
  <2>2. CASE text[2] = live
    BY <1>2, <2>1, <2>2 DEF Occurs
  <2>3. CASE text[2] = StripPhrase
    <3>1. \A i \in DOMAIN text : text[i] \in {Words, StripPhrase}
      BY <2>1, <2>3
    <3> QED
      BY <1>2, <1>14, <3>1 DEF Occurs
  <2> QED
    BY <2>1, <2>2, <2>3
<1>17. Passed(t, path.expected) <=> ~Occurs(token, text)
  BY <1>1, <1>7, <1>10, <1>11, <1>13, Fulfilled DEF Passed
<1>18. CorrectedIn(t, path) <=> Occurs(live, text)
  BY <1>2, <1>6, <1>11, <1>13 DEF CorrectedIn
<1>19. RightlyBooked(t, path)
  BY <1>7 DEF RightlyBooked
<1> QED
  BY <1>1, <1>16, <1>17, <1>18, <1>19 DEF EndsRight

\* The booking that is asked for bit by bit.
LEMMA CV01Ends ==
    ASSUME NEW t, PlayedOut(t, MainPath(CV01))
    PROVE  EndsRight(t, MainPath(CV01))
<1>1. PICK path : path = MainPath(CV01)
  OBVIOUS
<1>2. PICK a, b, c, e, f :
             /\ a = Cust({}) /\ b = Says /\ c = Cust({<<"pickup", "LHR">>})
             /\ e = Cust(Dates \cup {<<"vehicle_class", "ICAR">>}) /\ f = Quotes("LHR", "ICAR", 0)
  OBVIOUS
<1>3. PICK required : required = {"pickup", "pickup_at", "return_at", "vehicle_class"}
  OBVIOUS
<1>4. /\ path.turns = <<a, b, c, b, e, f, a, b>> /\ path.conversation_id = "CV-01"
      /\ path.expected = [Expect("booking_created", required) EXCEPT !.min_bot_turns = 4]
  BY <1>1, <1>2, <1>3, PathIs, TreeIs DEF MainPath, CV01
<1>5. /\ path.expected.delivered_excludes = {} /\ path.expected.superseded_tokens = {}
      /\ path.expected.required_slots = required /\ path.expected.min_bot_turns = 4
  BY <1>4 DEF Expect
<1>6. /\ DOMAIN path.turns = 1..8
      /\ path.turns[1] = a /\ path.turns[2] = b /\ path.turns[3] = c /\ path.turns[4] = b
      /\ path.turns[5] = e /\ path.turns[6] = f /\ path.turns[7] = a /\ path.turns[8] = b
  BY <1>4
<1>7. /\ a.speaker = "customer" /\ c.speaker = "customer" /\ e.speaker = "customer"
      /\ b.speaker = "bot" /\ f.speaker = "bot"
      /\ a.claims = <<>> /\ b.claims = <<>>
      /\ a.slots = {} /\ c.slots = {<<"pickup", "LHR">>}
      /\ e.slots = Dates \cup {<<"vehicle_class", "ICAR">>}
  BY <1>2, TurnsSay
<1>8. /\ Names(a.slots) = {} /\ Names(c.slots) = {"pickup"}
      /\ Names(e.slots) = {"pickup_at", "return_at", "vehicle_class"}
  BY <1>7 DEF Names, Dates
<1>9. {2, 4, 6, 8} \subseteq Places("bot", path.turns)
  BY <1>6, <1>7 DEF Places
<1>10. Cardinality(Places("bot", path.turns)) >= 4
  <2>1. IsFiniteSet(Places("bot", path.turns))
    BY <1>1, PlacesFinite DEF PlayedOut
  <2> QED
    BY <1>9, <2>1, AtLeast
<1>11. Fulfils(path)
  <2>1. ASSUME NEW name \in required
        PROVE  \E i \in {3, 5} : path.turns[i].speaker = "customer" /\ name \in Names(path.turns[i].slots)
    BY <1>3, <1>6, <1>7, <1>8
  <2>2. {3, 5} \subseteq DOMAIN path.turns
    BY <1>6
  <2> QED
    BY <1>5, <1>10, <2>1, <2>2 DEF Fulfils
<1>12. Passed(t, path.expected) /\ ~CorrectedIn(t, path)
  BY <1>1, <1>4, <1>5, <1>11, Fulfilled DEF Passed, CorrectedIn
<1>13. LastQuoteOf(path).key = <<"LHR", "ICAR">>
  <2>1. \A i \in DOMAIN path.turns : i > 6 => i = 7 \/ i = 8
    BY <1>6
  <2>2. 6 \in DOMAIN path.turns /\ path.turns[6] = Quotes("LHR", "ICAR", 0)
    BY <1>2, <1>6
  <2>3. \A i \in DOMAIN path.turns : i > 6 => path.turns[i].claims = <<>>
    BY <1>6, <1>7, <2>1
  <2>4. IsSequence(path.turns)
    BY <1>1 DEF PlayedOut
  <2> QED
    BY <2>2, <2>3, <2>4, LastQuoteIs
<1>14. <<"pickup", "LHR">> \in FinalSlots(t)
  <2>1. \A i \in DOMAIN path.turns : i > 3 => i \in {4, 5, 6, 7, 8}
    BY <1>6
  <2>2. \A i \in DOMAIN path.turns :
           i > 3 /\ path.turns[i].speaker = "customer" => "pickup" \notin Names(path.turns[i].slots)
    <3>1. \A i \in {4, 5, 6, 7, 8} : path.turns[i] \in {a, b, e, f}
      BY <1>6
    <3>2. \A turn \in {a, b, e, f} : turn.speaker = "customer" => "pickup" \notin Names(turn.slots)
      BY <1>7, <1>8
    <3> QED
      BY <2>1, <3>1, <3>2
  <2>3. PICK slot : slot = <<"pickup", "LHR">>
    OBVIOUS
  <2>4. /\ 3 \in DOMAIN path.turns /\ path.turns[3].speaker = "customer"
        /\ slot \in path.turns[3].slots /\ slot[1] = "pickup"
    BY <1>6, <1>7, <2>3
  <2>5. slot \in FinalSlots(t)
    BY <1>1, <2>2, <2>4, FilledLast
  <2> QED
    BY <2>3, <2>5
<1>15. <<"vehicle_class", "ICAR">> \in FinalSlots(t)
  <2>1. \A i \in DOMAIN path.turns : i > 5 => i \in {6, 7, 8}
    BY <1>6
  <2>2. \A i \in DOMAIN path.turns :
           i > 5 /\ path.turns[i].speaker = "customer" => "vehicle_class" \notin Names(path.turns[i].slots)
    BY <1>6, <1>7, <1>8, <2>1
  <2>3. PICK slot : slot = <<"vehicle_class", "ICAR">>
    OBVIOUS
  <2>4. /\ 5 \in DOMAIN path.turns /\ path.turns[5].speaker = "customer"
        /\ slot \in path.turns[5].slots /\ slot[1] = "vehicle_class"
    BY <1>6, <1>7, <2>3
  <2>5. slot \in FinalSlots(t)
    BY <1>1, <2>2, <2>4, FilledLast
  <2> QED
    BY <2>3, <2>5
<1>16. RightlyBooked(t, path)
  BY <1>13, <1>14, <1>15 DEF RightlyBooked, Place
<1> QED
  BY <1>1, <1>12, <1>16 DEF EndsRight

\* A booking of the place and class that one turn named and a later turn quoted.
LEMMA PlaceBooked ==
    ASSUME NEW t, NEW path, PlayedOut(t, path), NEW k \in DOMAIN path.turns,
           path.turns[k].speaker = "customer", NEW loc, NEW class,
           Place(loc, class) \subseteq path.turns[k].slots,
           \A i \in DOMAIN path.turns :
              i > k /\ path.turns[i].speaker = "customer" => path.turns[i].slots = {},
           LastQuoteOf(path).key = <<loc, class>>
    PROVE  RightlyBooked(t, path)
<1>1. ASSUME NEW slot \in Place(loc, class) PROVE slot \in FinalSlots(t)
  <2>1. \A i \in DOMAIN path.turns :
           i > k /\ path.turns[i].speaker = "customer" => slot[1] \notin Names(path.turns[i].slots)
    BY DEF Names
  <2> QED
    BY <1>1, <2>1, FilledLast
<1> QED
  BY <1>1 DEF RightlyBooked

\* What the bot says last.
LEMMA FinalTextIs ==
    ASSUME NEW t, NEW path, PlayedOut(t, path), NEW k \in DOMAIN path.turns,
           path.turns[k].speaker = "bot", \A i \in DOMAIN path.turns : i <= k
    PROVE  FinalText(t) = t[k].text
<1>1. PICK said : said = Places("bot", t)
  OBVIOUS
<1>2. k \in said /\ said \subseteq DOMAIN path.turns /\ DOMAIN path.turns \subseteq Nat
  <2>1. /\ DOMAIN path.turns = DOMAIN t /\ DOMAIN t = 1..Len(t) /\ Len(t) \in Nat
        /\ Places("bot", t) = Places("bot", path.turns)
    BY PlayedOutIs
  <2>2. k \in Places("bot", path.turns) /\ Places("bot", path.turns) \subseteq DOMAIN path.turns
    BY DEF Places
  <2> QED
    BY <1>1, <2>1, <2>2
<1>3. Max(said) = k
  <2>1. \A j \in said : k >= j
    BY <1>2
  <2>2. \A i \in said : (\A j \in said : i >= j) => i = k
    BY <1>2
  <2> QED
    BY <1>2, <2>1, <2>2 DEF Max
<1> QED
  BY <1>1, <1>2, <1>3 DEF FinalText

LEMMA SeededRates ==
    /\ Rate[<<"LHR", "ECAR">>] \in Nat /\ Rate[<<"MAN", "SUV">>] \in Nat
    /\ QuoteOf("LHR", "ECAR", 0) # QuoteOf("MAN", "SUV", 0)
<1>1. PICK lhr, man : lhr = Rate[<<"LHR", "ECAR">>] /\ man = Rate[<<"MAN", "SUV">>]
  OBVIOUS
<1>2. lhr \in Nat /\ man \in Nat /\ lhr # man
  BY <1>1, SeededAssumption, WorldAssumption
<1>3. lhr + 0 # man + 0
  BY <1>2
<1>4. QuoteOf("LHR", "ECAR", 0) = Money("LHR", lhr + 0) /\ QuoteOf("MAN", "SUV", 0) = Money("MAN", man + 0)
  BY <1>1 DEF QuoteOf
<1>5. Money("LHR", lhr + 0) # Money("MAN", man + 0)
  BY <1>3, MoneyIs
<1> QED
  BY <1>1, <1>2, <1>4, <1>5

\* The customer comparing two offers takes the second.
LEMMA CV17Ends ==
    ASSUME NEW t, PlayedOut(t, MainPath(CV17))
    PROVE  EndsRight(t, MainPath(CV17))
<1>1. PICK path : path = MainPath(CV17)
  OBVIOUS
<1>2. PICK a, b, c, d, e, f :
             /\ a = Cust(Place("LHR", "ECAR") \cup Dates) /\ b = Quotes("LHR", "ECAR", 0)
             /\ c = Cust(Place("MAN", "SUV")) /\ d = Quotes("MAN", "SUV", 0)
             /\ e = Cust({}) /\ f = Says
  OBVIOUS
<1>3. PICK token, required : /\ token = QuoteOf("LHR", "ECAR", 0)
                             /\ required = {"pickup", "vehicle_class", "pickup_at", "return_at"}
  OBVIOUS
<1>4. /\ path.turns = <<a, b, c, d, e, f>> /\ path.conversation_id = "CV-17"
      /\ path.expected = [Expect("booking_created", required)
                             EXCEPT !.superseded_tokens = {token}, !.min_bot_turns = 3]
  BY <1>1, <1>2, <1>3, PathIs, TreeIs DEF MainPath, CV17
<1>5. /\ path.expected.delivered_excludes = {} /\ path.expected.superseded_tokens = {token}
      /\ path.expected.required_slots = required /\ path.expected.min_bot_turns = 3
  BY <1>4 DEF Expect
<1>6. /\ DOMAIN path.turns = 1..6
      /\ path.turns[1] = a /\ path.turns[2] = b /\ path.turns[3] = c /\ path.turns[4] = d
      /\ path.turns[5] = e /\ path.turns[6] = f
  BY <1>4
<1>7. /\ a.speaker = "customer" /\ c.speaker = "customer" /\ e.speaker = "customer"
      /\ b.speaker = "bot" /\ d.speaker = "bot" /\ f.speaker = "bot"
      /\ e.claims = <<>> /\ f.claims = <<>> /\ e.slots = {}
      /\ a.slots = Place("LHR", "ECAR") \cup Dates /\ c.slots = Place("MAN", "SUV")
  BY <1>2, TurnsSay
<1>8. Names(a.slots) = required
  BY <1>3, <1>7 DEF Names, Place, Dates
<1>9. {2, 4, 6} \subseteq Places("bot", path.turns)
  BY <1>6, <1>7 DEF Places
<1>10. Cardinality(Places("bot", path.turns)) >= 3
  <2>1. IsFiniteSet(Places("bot", path.turns))
    BY <1>1, PlacesFinite DEF PlayedOut
  <2> QED
    BY <1>9, <2>1, AtLeast
<1>11. Fulfils(path)
  <2>1. 1 \in DOMAIN path.turns
    BY <1>6
  <2> QED
    BY <1>5, <1>6, <1>7, <1>8, <1>10, <2>1 DEF Fulfils
<1>12. ~Occurs(token, FinalText(t))
  <2>1. 6 \in DOMAIN path.turns /\ \A i \in DOMAIN path.turns : i <= 6
    BY <1>6
  <2>2. FinalText(t) = t[6].text
    BY <1>1, <1>6, <1>7, <2>1, FinalTextIs
  <2>3. 6 \in DOMAIN t
    BY <1>1, <2>1, PlayedOutIs
  <2>4. Played1(t[6], Says)
    BY <1>1, <1>2, <1>6, <2>3 DEF PlayedOut
  <2>5. t[6].text = <<Words>>
    BY <2>4, WordsShown
  <2>6. token # Words /\ token # Phrase("available")
    BY <1>3, MoneyIs DEF QuoteOf
  <2>7. PICK text : text = <<Words>>
    OBVIOUS
  <2>8. \A i \in DOMAIN text : text[i] = Words
    BY <2>7
  <2>9. ~Occurs(token, text)
    BY <2>6, <2>8 DEF Occurs
  <2> QED
    BY <2>2, <2>5, <2>7, <2>9
<1>13. Passed(t, path.expected) /\ ~CorrectedIn(t, path)
  BY <1>1, <1>4, <1>5, <1>11, <1>12, Fulfilled DEF Passed, CorrectedIn
<1>14. LastQuoteOf(path).key = <<"MAN", "SUV">>
  <2>1. \A i \in DOMAIN path.turns : i > 4 => i = 5 \/ i = 6
    BY <1>6
  <2>2. 4 \in DOMAIN path.turns /\ path.turns[4] = Quotes("MAN", "SUV", 0)
    BY <1>2, <1>6
  <2>3. \A i \in DOMAIN path.turns : i > 4 => path.turns[i].claims = <<>>
    BY <1>6, <1>7, <2>1
  <2>4. IsSequence(path.turns)
    BY <1>1 DEF PlayedOut
  <2> QED
    BY <2>2, <2>3, <2>4, LastQuoteIs
<1>15. RightlyBooked(t, path)
  <2>1. \A i \in DOMAIN path.turns : i > 3 => i = 4 \/ i = 5 \/ i = 6
    BY <1>6
  <2>2. \A i \in DOMAIN path.turns :
           i > 3 /\ path.turns[i].speaker = "customer" => path.turns[i].slots = {}
    BY <1>6, <1>7, <2>1
  <2>3. /\ 3 \in DOMAIN path.turns /\ path.turns[3].speaker = "customer"
        /\ Place("MAN", "SUV") \subseteq path.turns[3].slots
    BY <1>6, <1>7
  <2> QED
    BY <1>1, <1>14, <2>2, <2>3, PlaceBooked
<1> QED
  BY <1>1, <1>13, <1>15 DEF EndsRight

\* The customer goes back to the first offer, after the second was quoted.
LEMMA RevertEnds ==
    ASSUME NEW branch \in CV17.branches, NEW t,
           PlayedOut(t, Path(CV17, BranchPath(CV17, branch), branch.expected))
    PROVE  EndsRight(t, Path(CV17, BranchPath(CV17, branch), branch.expected))
<1>1. PICK path : path = Path(CV17, BranchPath(CV17, branch), branch.expected)
  OBVIOUS
<1>2. PICK a, b, c, d, e, f, g :
             /\ a = Cust(Place("LHR", "ECAR") \cup Dates) /\ b = Quotes("LHR", "ECAR", 0)
             /\ c = Cust(Place("MAN", "SUV")) /\ d = Quotes("MAN", "SUV", 0)
             /\ e = Cust({}) /\ f = Says /\ g = Cust(Place("LHR", "ECAR"))
  OBVIOUS
<1>3. PICK turns, more : turns = <<a, b, c, d, e, f>> /\ more = <<g, b>>
  OBVIOUS
<1>4. PICK token, required : token = QuoteOf("MAN", "SUV", 0) /\ required = {"pickup", "vehicle_class"}
  OBVIOUS
<1>5. PICK expected :
             expected = [Expect("booking_created", required)
                            EXCEPT !.superseded_tokens = {token}, !.min_bot_turns = 3]
  OBVIOUS
<1>6. /\ CV17.turns = turns /\ CV17.conversation_id = "CV-17"
      /\ branch.from_turn = 4 /\ branch.turns = more /\ branch.expected = expected
  <2>1. PICK first : first = [Expect("booking_created",
                                    {"pickup", "vehicle_class", "pickup_at", "return_at"})
                                EXCEPT !.superseded_tokens = {QuoteOf("LHR", "ECAR", 0)},
                                       !.min_bot_turns = 3]
    OBVIOUS
  <2>2. CV17 = Tree("CV-17", turns, {Branch("revert", 4, more, expected)}, first)
    BY <1>2, <1>3, <1>4, <1>5, <2>1, Zenon DEF CV17
  <2>3. branch = Branch("revert", 4, more, expected)
    BY <2>2, TreeIs
  <2> QED
    BY <2>2, <2>3, TreeIs, BranchIs
<1>7. /\ path.turns = BranchPath(CV17, branch) /\ path.conversation_id = "CV-17"
      /\ path.expected = expected
  BY <1>1, <1>6, PathIs
<1>8. /\ path.expected.delivered_excludes = {} /\ path.expected.superseded_tokens = {token}
      /\ path.expected.required_slots = required /\ path.expected.min_bot_turns = 3
  BY <1>5, <1>7 DEF Expect
<1>9. /\ DOMAIN path.turns = 1..6
      /\ path.turns[2] = b /\ path.turns[4] = d /\ path.turns[5] = g /\ path.turns[6] = b
  <2>1. /\ IsSequence(turns) /\ Len(turns) = 6 /\ IsSequence(more) /\ Len(more) = 2
        /\ turns[2] = b /\ turns[4] = d /\ more[1] = g /\ more[2] = b
    <3>1. turns = [i \in 1..6 |-> turns[i]] /\ more = [i \in 1..2 |-> more[i]]
      BY <1>3
    <3>2. turns[2] = b /\ turns[4] = d /\ more[1] = g /\ more[2] = b
      BY <1>3
    <3> QED
      BY <3>1, <3>2, FunctionIsSequence
  <2>2. IsSequence(CV17.turns) /\ IsSequence(branch.turns)
    BY <1>6, <2>1
  <2>3. branch.from_turn \in Nat /\ branch.from_turn <= Len(CV17.turns)
    BY <1>6, <2>1
  <2>4. PICK s : s = BranchPath(CV17, branch)
    OBVIOUS
  <2>5. /\ Len(s) = branch.from_turn + Len(branch.turns)
        /\ \A i \in 1..branch.from_turn : s[i] = CV17.turns[i]
        /\ \A i \in 1..Len(branch.turns) : s[branch.from_turn + i] = branch.turns[i]
    BY <2>2, <2>3, <2>4, BranchTurns
  <2>6. /\ Len(s) = 6
        /\ \A i \in 1..4 : s[i] = turns[i]
        /\ \A i \in 1..2 : s[4 + i] = more[i]
    <3>1. PICK from : from = branch.from_turn
      OBVIOUS
    <3>2. /\ Len(s) = from + Len(more)
          /\ \A i \in 1..from : s[i] = turns[i]
          /\ \A i \in 1..Len(more) : s[from + i] = more[i]
      BY <1>6, <2>5, <3>1
    <3>3. from = 4 /\ Len(more) = 2
      BY <1>6, <2>1, <3>1
    <3> QED
      BY <3>2, <3>3
  <2>7. s[2] = b /\ s[4] = d
    <3>1. 2 \in 1..4 /\ 4 \in 1..4
      OBVIOUS
    <3> QED
      BY <2>1, <2>6, <3>1
  <2>8. s[5] = g /\ s[6] = b
    <3>1. 1 \in 1..2 /\ 2 \in 1..2 /\ 4 + 1 = 5 /\ 4 + 2 = 6
      OBVIOUS
    <3> QED
      BY <2>1, <2>6, <3>1
  <2>9. DOMAIN s = 1..6
    BY <1>1, <1>7, <2>4, <2>6, SequenceFacts DEF PlayedOut
  <2> QED
    BY <1>7, <2>4, <2>7, <2>8, <2>9
<1>10. /\ g.speaker = "customer" /\ b.speaker = "bot" /\ d.speaker = "bot"
       /\ g.slots = Place("LHR", "ECAR") /\ Names(g.slots) = required
  BY <1>2, <1>4, TurnsSay, PlacesNamed
<1>11. {2, 4, 6} \subseteq Places("bot", path.turns)
  BY <1>9, <1>10 DEF Places
<1>12. Cardinality(Places("bot", path.turns)) >= 3
  <2>1. IsFiniteSet(Places("bot", path.turns))
    BY <1>1, PlacesFinite DEF PlayedOut
  <2> QED
    BY <1>11, <2>1, AtLeast
<1>13. Fulfils(path)
  <2>1. 5 \in DOMAIN path.turns
    BY <1>9
  <2> QED
    BY <1>8, <1>9, <1>10, <1>12, <2>1 DEF Fulfils
<1>14. ~Occurs(token, FinalText(t))
  <2>1. 6 \in DOMAIN path.turns /\ \A i \in DOMAIN path.turns : i <= 6
    BY <1>9
  <2>2. FinalText(t) = t[6].text
    BY <1>1, <1>9, <1>10, <2>1, FinalTextIs
  <2>3. 6 \in DOMAIN t
    BY <1>1, <2>1, PlayedOutIs
  <2>4. Played1(t[6], Quotes("LHR", "ECAR", 0))
    BY <1>1, <1>2, <1>9, <2>3 DEF PlayedOut
  <2>5. PICK old, m : old = QuoteOf("LHR", "ECAR", 0) /\ m = t[6]
    OBVIOUS
  <2>6. m.text \in {<<Words, StripPhrase, Words>>, <<Words, old, Words>>}
    BY <2>4, <2>5, SeededRates, LiveQuoteShown
  <2>7. token # old
    BY <1>4, <2>5, SeededRates
  <2>8. token # Words /\ token # Phrase("available") /\ token # StripPhrase
    BY <1>4, MoneyIs DEF QuoteOf
  <2>9. ~Occurs(token, <<Words, StripPhrase, Words>>) /\ ~Occurs(token, <<Words, old, Words>>)
    BY <2>7, <2>8, NotOccurring
  <2> QED
    BY <2>2, <2>5, <2>6, <2>9
<1>15. Passed(t, path.expected) /\ ~CorrectedIn(t, path)
  BY <1>1, <1>7, <1>8, <1>13, <1>14, Fulfilled DEF Passed, CorrectedIn
<1>16. LastQuoteOf(path).key = <<"LHR", "ECAR">>
  <2>1. \A i \in DOMAIN path.turns : ~(i > 6)
    BY <1>9
  <2>2. 6 \in DOMAIN path.turns /\ path.turns[6] = Quotes("LHR", "ECAR", 0)
    BY <1>2, <1>9
  <2>3. IsSequence(path.turns)
    BY <1>1 DEF PlayedOut
  <2> QED
    BY <2>1, <2>2, <2>3, LastQuoteIs
<1>17. RightlyBooked(t, path)
  <2>1. \A i \in DOMAIN path.turns : i > 5 => i = 6
    BY <1>9
  <2>2. \A i \in DOMAIN path.turns :
           i > 5 /\ path.turns[i].speaker = "customer" => path.turns[i].slots = {}
    BY <1>9, <1>10, <2>1
  <2>3. /\ 5 \in DOMAIN path.turns /\ path.turns[5].speaker = "customer"
        /\ Place("LHR", "ECAR") \subseteq path.turns[5].slots
    BY <1>9, <1>10
  <2> QED
    BY <1>1, <1>16, <2>2, <2>3, PlaceBooked
<1> QED
  BY <1>1, <1>15, <1>17 DEF EndsRight

-----------------------------------------------------------------------------

LEMMA MainPathsEnd ==
    ASSUME NEW tree \in Trees, NEW t, PlayedOut(t, MainPath(tree))
    PROVE  EndsRight(t, MainPath(tree))
BY CV01Ends, CV02Ends, CV03Ends, CV04Ends, CV05Ends, CV06Ends, CV07Ends, CV08Ends, CV09Ends,
   CV10Ends, CV11Ends, CV12Ends, CV13Ends, CV14Ends, CV15Ends, CV16Ends, CV17Ends DEF Trees

LEMMA Branching ==
    ASSUME NEW tree \in Trees, tree \notin {CV04, CV16, CV17}
    PROVE  tree.branches = {}
<1>1. CASE tree \in {CV01, CV02, CV03, CV05}
  BY <1>1, TreeIs DEF CV01, CV02, CV03, CV05
<1>2. CASE tree \in {CV07, CV08, CV09, CV10, CV11}
  BY <1>2, TreeIs DEF CV07, CV08, CV09, CV10, CV11
<1>3. CASE tree \in {CV12, CV13, CV14, CV15}
  BY <1>3, TreeIs DEF CV12, CV13, CV14, CV15
<1>4. CASE tree = CV06
  BY <1>4, TreeIs DEF CV06
<1> QED
  BY <1>1, <1>2, <1>3, <1>4 DEF Trees

LEMMA BranchesEnd ==
    ASSUME NEW tree \in Trees, NEW branch \in tree.branches, NEW t,
           PlayedOut(t, Path(tree, BranchPath(tree, branch), branch.expected))
    PROVE  EndsRight(t, Path(tree, BranchPath(tree, branch), branch.expected))
<1>1. tree \in {CV04, CV16, CV17}
  BY Branching
<1> QED
  BY <1>1, RetainEnds, AbandonEnds, RevertEnds

LEMMA PathEndsRight ==
    ASSUME NEW tree \in Trees, NEW path \in Paths(tree), NEW t, PlayedOut(t, path)
    PROVE  EndsRight(t, path)
<1>1. path = MainPath(tree) \/ \E branch \in tree.branches :
                                  path = Path(tree, BranchPath(tree, branch), branch.expected)
  BY DEF Paths, MainPath
<1> QED
  BY <1>1, MainPathsEnd, BranchesEnd

\* Every path of every tree that is played to its end passes the evaluator, whatever the
\* rates are and wherever the outages fall, the sold-out one excepted when it is corrected;
\* and what is booked is what was quoted last (intents.py:152-183, 750-757, 823-828).
THEOREM PathsAlwaysEndRight == Spec => []PathsEndRight
<1>1. SessionInv /\ PlayedInv => PathsEndRight
  <2> SUFFICES ASSUME SessionInv, PlayedInv, pc = "ended"
               PROVE  /\ Passed(transcript, Body.expected) <=> ~CorrectedSoldOut
                      /\ Body.expected.outcome = "booking_created" =>
                            Place(LastQuote.key[1], LastQuote.key[2]) \subseteq FinalSlots(transcript)
    BY DEF PathsEndRight
  <2>1. IsTree
    BY DEF SessionInv, RoundInv
  <2>2. PICK tree \in Trees : Body \in Paths(tree)
    <3>1. script \in Scripts
      BY DEF SessionInv, TypeOK
    <3>2. ASSUME NEW scenario, script = [kind |-> "golden", body |-> scenario] PROVE FALSE
      BY <2>1, <3>2 DEF IsTree
    <3>3. PICK path \in UNION {Paths(tree) : tree \in Played} : script = [kind |-> "tree", body |-> path]
      BY <3>1, <3>2 DEF Scripts
    <3> QED
      BY <3>3, SessionAssumption DEF Body
  <2>3. PICK path, t : path = Body /\ t = transcript
    OBVIOUS
  <2>4. PlayedOut(t, path)
    <3>1. IsSequence(transcript) /\ Len(transcript) = Len(Body.turns)
      BY <2>1 DEF SessionInv, RoundInv, PlayedInv
    <3>2. \A i \in DOMAIN transcript : Played1(transcript[i], Body.turns[i])
      BY <2>1 DEF PlayedInv
    <3>3. IsSequence(path.turns)
      BY <2>2, <2>3, PathsPlayable DEF Playable
    <3> QED
      BY <2>3, <3>1, <3>2, <3>3 DEF PlayedOut
  <2>5. EndsRight(t, path)
    BY <2>2, <2>3, <2>4, PathEndsRight
  <2>6. CorrectedIn(t, path) <=> CorrectedSoldOut
    <3>1. ToSet(transcript) = {transcript[i] : i \in DOMAIN transcript}
      BY DEF ToSet
    <3>2. Delivered = {transcript[i] : i \in Places("bot", transcript)}
      BY <3>1 DEF Delivered, Places
    <3> QED
      BY <2>3, <3>2 DEF CorrectedIn, CorrectedSoldOut
  <2>7. LastQuoteOf(path) = LastQuote
    BY <2>3 DEF LastQuoteOf, LastQuote
  <2> QED
    BY <2>3, <2>5, <2>6, <2>7 DEF EndsRight, RightlyBooked
<1> QED
  BY <1>1, SessionInvariant, PlayedInvariant, PTL

=============================================================================
