SPECIFICATION FairSpec
CONSTANTS
    NumRuns = 3
    Parallelism = 2
    WorkerExits <- EachItsOwn
    MemCapSet = TRUE
    LargeRequests = {1}
    SinkMayPanic = TRUE
INVARIANTS
    ProcessesBounded
    CollectionComplete
    AbortNeverSilent
    ReportsAreTrue
PROPERTIES
    NeverRetried
    
    Termination
    
CHECK_DEADLOCK FALSE
