SPECIFICATION FairSpec
CONSTANTS
  Nodes = {n1, n2}
  DryRun = {n1, n2}
  Jobs = {j1}
  Groups = {g1}
  NoGroup = NoGroup
  MaxStamp = 2
  Requests = {"Active"}
  SharedStamps = FALSE
  QueueCap = 1
  MaxFaults = 1
INVARIANT MergesCommute
PROPERTIES Spreads Converge
