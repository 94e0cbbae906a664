CONSTANTS
  Commits = {A}
  NoCommit = NoCommit
  MaxApplies = 3
  MaxReceiving = 2
  Checks = {c1}
  ReceiveFaults <- NoFaults
  CheckFaults <- NoFaults
  ReceiveLost <- NoFaults
  CheckLost <- NoFaults
  EagerPreparer = FALSE
  MaxLateStarts = 0
SPECIFICATION Spec
CHECK_DEADLOCK FALSE
PROPERTY NotOverwritten
