CONSTANTS
  MaxApplies = 2
  LastMonth = 2
  PageSize = 5
  MaxWriting = 1
  MaxFailures = 0
SPECIFICATION Spec
CHECK_DEADLOCK FALSE
PROPERTY AlwaysNamesTheServing
