\* Every tree and branch, every golden scenario, and other drafts of the LLM.
SPECIFICATION Spec

CONSTANTS
    Rate <- MCRate
    Available <- MCAvailable
    Euro <- Frankfurt
    NominalRate <- NominalDailyRate
    OneWayFee <- DropFee
    Country <- CountryOf
    Played <- AllTrees
    Responses <- FreeResponses
    MaxFaults = 2

INVARIANTS
    TypeOK
    CorrectionsStand
    PathsEndRight
    GoldenOutcome

CHECK_DEADLOCK FALSE
