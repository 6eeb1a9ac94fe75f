SPECIFICATION Spec
CONSTANTS
    Procs = {p1, p2}
    Requests <- Asked
    Modes = {"prefer_cache", "force_refresh", "offline"}
    PerYear = 2
    Published <- Answers
    Precedences <- SomePrecedence
    Policies = {"pick_precedence", "fail", "median"}
    MaxCalls = 3
    MaxRuns = 2
SYMMETRY Symmetric
CONSTRAINT Scenario
INVARIANTS
    RowsFollowBlobs
    NoSilentDisagreement
    RunsReproduce
CHECK_DEADLOCK FALSE
