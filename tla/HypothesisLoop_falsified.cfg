SPECIFICATION Spec
CONSTANTS
    Failures <- MCFailures
    Checks = {"accepted", "falsified", "regression"}
    Ceilings <- MCCeilings
    KRepair = 1
    IterationBudget = 2
    Target = 1
    Cost = 2
    PriorLimit = 1
    MaxCalls = 1
INVARIANT AcceptedMetTheirClaim
CHECK_DEADLOCK FALSE
