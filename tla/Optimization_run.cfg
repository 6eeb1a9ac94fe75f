SPECIFICATION Spec
CONSTANTS
    NegInf <- MCNegInf
    Clamped <- MCClamped
    TopK = 50
    NeighborhoodK = 2
    ThresholdPercent = 50
    NParams = 2
    NFolds = 2
    Verdicts <- MCVerdicts
    Methods = {"grid", "random", "recursive_grid", "lhs_polish", "successive_halving"}
    ChunkSize = 3
    Width = 1
    MaxRounds = 2
    TopKPolish = 1
    InitialStep = 1
    MaxPolishIters = 2
    InitialCandidates = 3
    Eta = 2
    InitialFolds = 1
    MaxRuns <- MCMaxRuns
    MaxPicks <- MCMaxPicks
INVARIANTS
    NoRowLost
    CompletedIsWhole
    WinnersAreBest
    FinalHeldEverywhere
    
