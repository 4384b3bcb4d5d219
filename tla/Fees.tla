------------------------------- MODULE Fees -------------------------------
(***************************************************************************)
(* The itemised fees of a booking (generator/durations.py, catalogues.py,  *)
(* customers.py, world.py) and the hand-written disputes about them        *)
(* (FeeDisputeComposer in scenarios.py). Amounts are in pence, times in    *)
(* minutes.                                                                *)
(***************************************************************************)
EXTENDS Integers

CONSTANTS NominalRate, \* world.nominal_daily_rate: <<location, class>> -> amount
          OneWayFee,   \* world.one_way_fee: class -> amount
          Country      \* the country of each location

ASSUME FeesAssumption ==
    /\ \A key \in {<<"LON", "CCAR">>, <<"MAN", "ECAR">>, <<"FRA", "FCAR">>} :
          NominalRate[key] \in Nat \ {0}
    /\ OneWayFee["SFAR"] \in Nat
    /\ {"LON", "CRY"} \subseteq DOMAIN Country /\ Country["LON"] = Country["CRY"]

DayLength == 24 * 60

FeeRules ==
    [late_return_grace_minutes |-> 29, no_show_days_charged |-> 1,
     fuel_service_charge |-> 1500, fuel_price_per_litre |-> 175, tank_litres |-> 60]

\* late_return_extra_days: beyond the grace period every started day counts, the
\* grace included.
ExtraDays(overdue, grace) ==
    IF overdue <= grace THEN 0 ELSE (overdue + DayLength - 1) \div DayLength

AllowsOneWay(pickup, dropoff) ==
    /\ pickup # dropoff
    /\ {pickup, dropoff} \subseteq DOMAIN Country /\ Country[pickup] = Country[dropoff]

FuelCharge(litres) ==
    FeeRules.fuel_service_charge + litres * FeeRules.fuel_price_per_litre

\* What the customer did: `daily` is the net daily rate, `overdue` how late the car
\* came back, `missing` the litres that were missing.
Booking(pickup, dropoff, class, daily, status, overdue, missing) ==
    [pickup |-> pickup, dropoff |-> dropoff, vehicle_class |-> class, daily |-> daily,
     status |-> status, overdue |-> overdue, missing |-> missing]

LateDays(b) == ExtraDays(b.overdue, FeeRules.late_return_grace_minutes)

\* Whether _compose_fees puts a fee of the code on a booking, and how much it is.
Charged(code, b) ==
    CASE code = "one_way" -> AllowsOneWay(b.pickup, b.dropoff)
      [] code = "no_show" -> b.status = "no_show"
      [] code = "late_return" -> b.status = "completed" /\ LateDays(b) > 0
      [] code = "fuel" -> b.status = "completed" /\ b.missing > 0

Amount(code, b) ==
    CASE code = "one_way" -> OneWayFee[b.vehicle_class]
      [] code = "no_show" -> b.daily * FeeRules.no_show_days_charged
      [] code = "late_return" -> b.daily * LateDays(b)
      [] code = "fuel" -> FuelCharge(b.missing)

\* What the rules have the booking cost under that code.
Due(code, b) == IF Charged(code, b) THEN Amount(code, b) ELSE 0

-----------------------------------------------------------------------------
(* The disputes: what was billed, what happened, what is right *)

Dispute(code, billed, b, correct, resolution) ==
    [code |-> code, billed |-> billed, booking |-> b, correct_amount |-> correct,
     resolution |-> resolution]

Grace == FeeRules.late_return_grace_minutes

Completed(loc, class, overdue, missing) ==
    Booking(loc, loc, class, NominalRate[<<loc, class>>], "completed", overdue, missing)

\* "Returned 3h beyond the 29-min grace"
FD01 ==
    LET daily == NominalRate[<<"LON", "CCAR">>]
    IN  Dispute("late_return", daily, Completed("LON", "CCAR", Grace + 180, 0), daily, "upheld")

\* "Returned 20 min late (inside grace) yet billed a late day"
FD02 ==
    LET daily == NominalRate[<<"MAN", "ECAR">>]
    IN  Dispute("late_return", daily, Completed("MAN", "ECAR", 20, 0), 0, "refunded")

FD03 ==
    LET daily == NominalRate[<<"FRA", "FCAR">>]
    IN  Dispute("no_show", daily, Booking("FRA", "FRA", "FCAR", daily, "no_show", 0, 0),
                daily, "upheld")

\* "Billed for 40 L missing but the actual shortfall was 10 L"
FD04 ==
    Dispute("fuel", FuelCharge(40), Completed("LON", "IFAR", 0, 10), FuelCharge(10),
            "partial_refund")

\* The booking went one way; the waiver is only the customer's word.
FD05 ==
    LET fee == OneWayFee["SFAR"]
    IN  Dispute("one_way", fee,
                [Completed("LON", "SFAR", 0, 0) EXCEPT !.dropoff = "CRY"], fee,
                "escalated_to_human")

Disputes == {FD01, FD02, FD03, FD04, FD05}

\* The pinned amount is what the fee rules charge for what happened, and the
\* resolution says how that compares with what was billed (POA/16 section 16.1).
Grounded(d) ==
    /\ d.correct_amount = Due(d.code, d.booking)
    /\ d.resolution \in {"upheld", "escalated_to_human"} => d.billed = d.correct_amount
    /\ d.resolution = "refunded" => d.correct_amount = 0 /\ d.billed > 0
    /\ d.resolution = "partial_refund" => d.correct_amount \in 1..(d.billed - 1)

DisputesGrounded == \A d \in Disputes : Grounded(d)

=============================================================================
