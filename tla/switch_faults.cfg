CONSTANTS
  Commits = {A, B}
  NoCommit = NoCommit
  MaxApplies = 3
  MaxReceiving = 1
  Checks = {c1, c2}
  ReceiveFaults <- AllButUnwindSchedule
  CheckFaults <- AllOfTheCheck
  ReceiveLost <- ReceiveMayLose
  CheckLost <- CheckMayLose
  EagerPreparer = TRUE
  MaxLateStarts = 0
SPECIFICATION Spec
CHECK_DEADLOCK FALSE
SYMMETRY Symmetry
INVARIANTS TypeOK LaunchedOnce CommitsWordOrTimeout TimerHasPending
PROPERTIES NotOverwritten SwitchReplacesPrevious KeepsThePromise
