CONSTANTS
  Commits = {A}
  NoCommit = NoCommit
  MaxApplies = 2
  MaxReceiving = 1
  Checks = {c1}
  ReceiveFaults <- LaunchAndUnwindFail
  CheckFaults <- NoFaults
  ReceiveLost <- NoFaults
  CheckLost <- NoFaults
  EagerPreparer = FALSE
  MaxLateStarts = 0
SPECIFICATION FairSpec
CHECK_DEADLOCK FALSE
PROPERTY TimerGoes
