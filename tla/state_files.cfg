SPECIFICATION FairSpec
CONSTANTS
  first = first
  second = second
  g1 = g1
  g2 = g2
  Jobs = {first, second}
  Groups = {g1, g2}
  NoGroup = NoGroup
  MaxStamp = 2
  Callers = {c1, c2}
  Free = Free
  NoJob = NoJob
  NoFile = NoFile
  Cut = Cut
  Written <- MCWritten
INVARIANTS TypeOK FilesMatchStore BackupKept
PROPERTIES FilesCatchUp ImplementsAtomicStore
