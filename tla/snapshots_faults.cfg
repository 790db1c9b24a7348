SPECIFICATION Spec
CONSTANTS
  p1 = p1  p2 = p2  s1 = s1  s2 = s2  c1 = c1  c2 = c2
  Project = {p1}
  Source = {s1}
  Proc = {c1, c2}
  NoProc = NoProc
  Latest = Latest
  NoFile = NoFile
  Retention = 1
  InterruptAt <- Anywhere
  MaxCancel = 2
  OnePerSecond = FALSE
  MaxCollections = 3
  MaxInterrupts = 2
  MaxTime = 3
SYMMETRY Symmetry
INVARIANTS TypeOK AtMostOneLatest StoreInv
PROPERTY ImplementsHistory
CHECK_DEADLOCK FALSE
