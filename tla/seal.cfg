CONSTANTS
    MaxRuns = 1
    MaxUnforeseen = 2
    RemoveAttempts = 2
    LaunchAttempts = 2
    MaxUnanswered = 1
    SplitInSecond = TRUE
SPECIFICATION Spec
INVARIANTS
    TypeOK
    ReleasedIsClean
    RefusalHasACause
    RefusesWhileItIsFree
    StatementTellsTheTruth
CHECK_DEADLOCK FALSE
