SPECIFICATION Spec
CONSTANTS
  Nodes = {n1, n2}
  DryRun = {n2}
  Jobs = {j1, j2}
  Groups = {g1}
  NoGroup = NoGroup
  MaxStamp = 2
  Requests = {"Active", "Inactive"}
  SharedStamps = FALSE
  QueueCap = 1
  MaxFaults = 1
SYMMETRY Symmetry
INVARIANTS TypeOK OnlyIssued
PROPERTIES StampsNeverFall NoTombstoneLearned ImplementsReplicatedMap
