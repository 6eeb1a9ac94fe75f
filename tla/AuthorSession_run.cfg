SPECIFICATION FairSpec
CONSTANTS
    Names = {n1, n2}
    Mechanisms = {m1}
    Specs = {TRUE}
    NoName = NoName
    MaxTurns = 2
    KRepair = 0
    MaxK = 1
    MaxMenus = 1
    MaxSessions = 2
INVARIANTS AcceptedIsOnDisk DecisionsSurvive
PROPERTIES EverySessionEnds
CHECK_DEADLOCK FALSE
