CONSTANTS
  Commits = {A}
  NoCommit = NoCommit
  MaxApplies = 3
  MaxReceiving = 1
  Checks = {c1}
  ReceiveFaults <- NoFaults
  CheckFaults <- StopPreparerFails
  ReceiveLost <- NoFaults
  CheckLost <- NoFaults
  EagerPreparer = FALSE
  MaxLateStarts = 0
SPECIFICATION Spec
CHECK_DEADLOCK FALSE
INVARIANT OwnWordOrTimeout
