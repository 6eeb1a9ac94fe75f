SPECIFICATION Spec
CONSTANTS
    Unit = 12
    MaxRounds = 3
INVARIANTS
    WindowsAreOutOfSample
    ProposalsCoverSpace
    SearchFollowsBest
    
    
    VerdictIsEarned
    DiagnosisAddsUp
CHECK_DEADLOCK FALSE
