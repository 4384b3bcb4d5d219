\* A draft quotes each of two classes at the other's rate.
SPECIFICATION Spec

CONSTANTS
    Rate <- MCRate
    Available <- MCAvailable
    Euro <- Frankfurt
    NominalRate <- NominalDailyRate
    OneWayFee <- DropFee
    Country <- CountryOf
    Played <- NoTree
    Responses <- SwappedOnly
    MaxFaults = 0

INVARIANTS
    NothingUnverified

CHECK_DEADLOCK FALSE
