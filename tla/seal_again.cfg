CONSTANTS
    MaxRuns = 2
    MaxUnforeseen = 1
    RemoveAttempts = 1
    LaunchAttempts = 1
    MaxUnanswered = 0
    SplitInSecond = FALSE
SPECIFICATION Spec
INVARIANT AuditBlamesOnlyOthers
CHECK_DEADLOCK FALSE
