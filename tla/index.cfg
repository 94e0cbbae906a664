CONSTANTS
  MaxApplies = 3
  LastMonth = 2
  PageSize = 2
  MaxWriting = 2
  MaxFailures = 1
SPECIFICATION Spec
CHECK_DEADLOCK FALSE
INVARIANTS TypeOK HealedByTheLast
PROPERTIES HistoryStaysReachable NamesTheServing
