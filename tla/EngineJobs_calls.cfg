SPECIFICATION FairSpec
CONSTANTS
    Handles = {h1, h2}
    NumRuns = 2
    MinTrades = 1
    MaxSanityTrips = 0
    MaxTrades = 1
    MaxTrips = 1
INVARIANTS AnswersAreTrue OnlyGivenUpBatchesRunOn
PROPERTIES CallsEnd
CHECK_DEADLOCK FALSE
