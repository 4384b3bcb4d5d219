------------------------------ MODULE Bookings ------------------------------
(***************************************************************************)
(* What a generated booking costs (CustomerFactory in                      *)
(* generator/customers.py, over generator/catalogues.py). Amounts are in   *)
(* pence, discounts in percent.                                            *)
(***************************************************************************)
EXTENDS Fees, World

\* quantize(Decimal("0.01")) of n / d: to the nearest, ties to even.
Rounded(n, d) ==
    LET q == n \div d  twice == 2 * (n % d)
    IN  IF twice > d \/ (twice = d /\ q % 2 = 1) THEN q + 1 ELSE q

RatePlans == [SME |-> 10, corporate |-> 15]

\* The discount of the plan that goes with a type of customer; individuals have none.
DiscountOf(type) == IF type \in DOMAIN RatePlans THEN RatePlans[type] ELSE 0

\* The price of a day; everything that is picked is priced by the day.
ExtraPrice == [ADD_DRIVER |-> 950, GPS |-> 1299, CHILD_SEAT |-> 850]

ProtectionPrice == [SUPERCOVER |-> 1599, PAI |-> 549]

Pickable == DOMAIN ExtraPrice \cup DOMAIN ProtectionPrice

\* One-way rentals stay in the country.
OneWayDestinations(pickup) == {d \in DOMAIN Country : AllowsOneWay(pickup, d)}

\* The drop-off is elsewhere sometimes, if there is somewhere to go.
Dropoffs(loc) == {loc} \cup OneWayDestinations(loc)

DailyValue(loc, class, discount) == Rounded(NominalRate[<<loc, class>>] * (100 - discount), 100)

\* `days` is the length of the rental in whole days, at least one.
AddOns(picked, days) ==
    LET Extra(code) == IF code \in picked THEN ExtraPrice[code] * days ELSE 0
        Cover(code) == IF code \in picked THEN ProtectionPrice[code] * days ELSE 0
    IN  Extra("ADD_DRIVER") + Extra("GPS") + Extra("CHILD_SEAT") + Cover("SUPERCOVER") + Cover("PAI")

\* The gross total; a one-way fee is part of it.
Total(b, days, picked) == b.daily * days + AddOns(picked, days) + Due("one_way", b)

\* gross - gross / 1.20
Vat(total) == Rounded(total, 6)

\* "then one rental day is charged"
CancellationFee(total, days) == Rounded(total, days)

\* A booking as _booking makes it: dropped off at one of Dropoffs, at a discounted rate.
Made(loc, dropoff, class, type, status) ==
    Booking(loc, dropoff, class, DailyValue(loc, class, DiscountOf(type)), status, 0, 0)

=============================================================================
