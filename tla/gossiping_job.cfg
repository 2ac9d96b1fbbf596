SPECIFICATION FairSpec
CONSTANTS
  Names = {1, 2}
  ChangesCap = 1
  MaxEntries = 2
  Files = {1}
  Broken = Broken
INVARIANTS TypeOK NoLostWakeup FileListsMembers
PROPERTIES JobFollowsMembers FileCatchesUp
CHECK_DEADLOCK FALSE
