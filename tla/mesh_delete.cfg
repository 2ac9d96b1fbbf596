SPECIFICATION Spec
CONSTANTS
  Nodes = {n1}
  DryRun = {}
  Jobs = {j1, j2}
  Groups = {g1}
  NoGroup = NoGroup
  MaxStamp = 3
  Requests = {"Active", "Inactive"}
  SharedStamps = FALSE
  QueueCap = 1
  MaxFaults = 0
PROPERTY DeleteByName
CHECK_DEADLOCK FALSE
