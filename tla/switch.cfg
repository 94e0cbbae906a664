CONSTANTS
  Commits = {A}
  NoCommit = NoCommit
  MaxApplies = 3
  MaxReceiving = 1
  Checks = {c1, c2}
  ReceiveFaults <- NoFaults
  CheckFaults <- NoFaults
  ReceiveLost <- NoFaults
  CheckLost <- NoFaults
  EagerPreparer = FALSE
  MaxLateStarts = 1
SPECIFICATION FairSpec
CHECK_DEADLOCK FALSE
INVARIANTS OwnWordOrTimeout NoPreparerBesideTheNew RecordsTellTheTruth
PROPERTIES AcceptedIsServed TimerGoes
