SPECIFICATION Spec
CONSTANTS
  Jobs = {"job", "other"}
  Groups <- MCGroups
  NoGroup = NoGroup
  MaxStamp = 3
  ExternalLabels <- MCExternal
  Written <- MCWritten
  MaxRoutines = 2
  Unlabelled = TRUE
INVARIANT GoneTargetsStopped
CHECK_DEADLOCK FALSE
