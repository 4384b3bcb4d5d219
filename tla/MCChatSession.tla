--------------------------- MODULE MCChatSession ---------------------------
(***************************************************************************)
(* Small instances of ChatSession: the rates and availabilities of the     *)
(* places and classes the trees and scenarios are about, and what the LLM  *)
(* may answer besides what the scenarios have it answer.                   *)
(***************************************************************************)
EXTENDS ChatSession, Bookings

LivePence == [LHR |-> [ICAR |-> 6800, FCAR |-> 8100, ECAR |-> 4950, SUV |-> 10350],
              MAN |-> [ECAR |-> 4700, SUV |-> 9900],
              FRA |-> [ECAR |-> 5200]]

MCRate == [key \in UNION {{loc} \X DOMAIN LivePence[loc] : loc \in DOMAIN LivePence} |->
              LivePence[key[1]][key[2]]]

\* The SUV at Heathrow is sold out.
MCAvailable == [key \in DOMAIN MCRate |-> IF key = <<"LHR", "SUV">> THEN 0 ELSE 3]

Frankfurt == {"FRA"}

AllTrees == Trees

NoTree == {}

Both(a, b) == Bot(a.text \o b.text, a.claims \o b.claims)

\* Each class is quoted at the other's live rate.
Swapped ==
    LET off == MCRate[<<"LHR", "ICAR">>] - MCRate[<<"LHR", "ECAR">>]
    IN  Both(QuotesPounds("LHR", "ECAR", off), QuotesPounds("LHR", "ICAR", -off))

SoldOutQuote ==
    LET token == Phrase("available now")
    IN  Bot(<<token, Words>>, <<AvailabilityClaim("LHR", "SUV", TRUE, token)>>)

\* A station that is not in the world, after one that is.
NoSuchCard ==
    LET token == Pounds(5000)
    IN  Both(QuotesPounds("LHR", "ICAR", 0),
             Bot(<<token, Words>>, <<PriceClaim("BER", "ICAR", 5000, token)>>))

TwoClaims ==
    {Response(NoSuchCard, 90),
     Response(Both(QuotesPounds("LHR", "ICAR", -1000), QuotesPounds("LHR", "ECAR", 0)), 90),
     Response(Both(QuotesPounds("LHR", "ECAR", 1), QuotesPounds("MAN", "ECAR", 2)), 90),
     Response(Both(Quotes("FRA", "ECAR", -500), Quotes("FRA", "ECAR", 0)), 90),
     Response(Both(SoldOutQuote, QuotesPounds("LHR", "SUV", 0)), 50),
     [Response(Both(QuotesPounds("MAN", "SUV", -500), SoldOutQuote), 90) EXCEPT !.confidence = {}]}

FreeResponses ==
    TwoClaims \cup {Response(Swapped, 90), Response(QuotesPounds("LHR", "ICAR", -1000), 49),
                    Response(Bot(<<>>, <<>>), 99)}

SwappedOnly == {Response(Swapped, 90)}

-----------------------------------------------------------------------------
(* The fee rules and the prices of bookings, over the generated world *)

ASSUME WorldChecked == EveryCardOnce

ASSUME FixturesChecked == DisputesGrounded

\* Beyond the grace period a day is charged for every day that has started.
ASSUME LateReturnsChecked ==
    \A overdue \in -10..(3 * DayLength) :
        ExtraDays(overdue, Grace) =
            IF overdue <= Grace THEN 0 ELSE Cardinality({d \in 0..3 : d * DayLength < overdue})

=============================================================================
