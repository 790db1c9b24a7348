SPECIFICATION FairSpec
CONSTANTS
  p1 = p1  p2 = p2  s1 = s1  s2 = s2  c1 = c1  c2 = c2
  Project = {p1, p2}
  Source = {s1}
  Proc = {c1, c2}
  NoProc = NoProc
  Latest = Latest
  NoFile = NoFile
  Retention = 1
  InterruptAt <- OutsideTransit
  MaxCancel = 1
  OnePerSecond = TRUE
  MaxCollections = 3
  MaxInterrupts = 1
  MaxTime = 2
PROPERTIES LostOnlyByRetention CollectionEnds
CHECK_DEADLOCK FALSE
