SPECIFICATION FairSpec
CONSTANTS
    Failures <- MCFailures
    Checks = {"falsified"}
    Ceilings <- MCCeilings
    KRepair = 1
    IterationBudget = 2
    Target = 2
    Cost = 2
    PriorLimit = 1
    MaxCalls = 2
INVARIANTS JudgedOnItsOwn BudgetKept LearnsOnlyFromVerdicts 
PROPERTIES EveryCallEnds
CHECK_DEADLOCK FALSE
