------------------------------- MODULE World -------------------------------
(***************************************************************************)
(* The reference world (generator/world.py): the stations and classes, the *)
(* list prices in pence, and the rate cards that build() emits in three    *)
(* passes, so that later passes leave the earlier ones' random draws alone.*)
(***************************************************************************)
EXTENDS Integers

Locations == {"LHR", "MAN", "EDI", "FRA", "CDG", "MAD"}

ExtraLocations == {"LON", "CRY", "PARC", "MADS", "JFK", "NYC"}

CarClasses == {"ECAR", "CCAR", "ICAR", "FCAR", "SUV"}

VanClasses == {"PVAN", "LVAN"}

ExtraClasses == {"PCAR", "LCAR", "CFAR", "IFAR", "SFAR", "LFAR", "IVAR", "PPAR"}

AllLocations == Locations \cup ExtraLocations

AllClasses == CarClasses \cup VanClasses \cup ExtraClasses

\* _BASE_RATE in pounds, and _LOC_MULT in hundredths: their product is in pence.
BaseRate ==
    [ECAR |-> 32, CCAR |-> 38, ICAR |-> 46, FCAR |-> 55, SUV |-> 72, PVAN |-> 65, LVAN |-> 85,
     PCAR |-> 70, LCAR |-> 110, CFAR |-> 60, IFAR |-> 75, SFAR |-> 95, LFAR |-> 140,
     IVAR |-> 80, PPAR |-> 78]

Multiplier ==
    [LHR |-> 115, MAN |-> 100, EDI |-> 105, FRA |-> 110, CDG |-> 112, MAD |-> 95,
     LON |-> 110, CRY |-> 90, PARC |-> 108, MADS |-> 88, JFK |-> 120, NYC |-> 125]

NominalDailyRate == [key \in AllLocations \X AllClasses |-> BaseRate[key[2]] * Multiplier[key[1]]]

DropFee ==
    [ECAR |-> 4500, CCAR |-> 4500, ICAR |-> 5500, FCAR |-> 6500, SUV |-> 7500,
     PVAN |-> 9500, LVAN |-> 12000, PCAR |-> 7500, LCAR |-> 12000, CFAR |-> 7000,
     IFAR |-> 8000, SFAR |-> 9500, LFAR |-> 14000, IVAR |-> 9500, PPAR |-> 9000]

CountryOf ==
    [loc \in AllLocations |->
        IF loc \in {"LHR", "MAN", "EDI", "LON", "CRY"} THEN "GB"
        ELSE IF loc = "FRA" THEN "DE"
        ELSE IF loc \in {"CDG", "PARC"} THEN "FR"
        ELSE IF loc \in {"MAD", "MADS"} THEN "ES" ELSE "US"]

-----------------------------------------------------------------------------
(* The cards of one day: the stations and classes that each pass goes through *)

Covered == Locations \X (CarClasses \cup VanClasses)

Passes ==
    <<Locations \X CarClasses,
      Locations \X VanClasses,
      (AllLocations \X AllClasses) \ Covered>>

\* Whatever a search or a claim names has a rate and an availability, and only one:
\* the passes overlap nowhere and leave nothing out.
EveryCardOnce ==
    /\ UNION {Passes[i] : i \in 1..3} = AllLocations \X AllClasses
    /\ \A i, j \in 1..3 : i # j => Passes[i] \cap Passes[j] = {}

=============================================================================
