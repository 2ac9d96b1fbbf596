SPECIFICATION FairSpec
CONSTANTS
  Jobs = {"job", "other"}
  Groups <- MCGroups
  NoGroup = NoGroup
  MaxStamp = 3
  ExternalLabels <- MCExternal
  Written <- MCWritten
  MaxRoutines = 2
  Unlabelled = FALSE
INVARIANTS TypeOK NoLeak GoneTargetsStopped
PROPERTIES StoppedTasksEnd TasksFollowStore
CHECK_DEADLOCK FALSE
