SPECIFICATION ReadersSpec
CONSTANTS
  p1 = p1  s1 = s1  s2 = s2  c1 = c1  c2 = c2  k1 = k1
  Project = {p1}
  Source = {s1, s2}
  Proc = {c1, c2}
  Reader = {k1}
  NoProc = NoProc
  Latest = Latest
  NoFile = NoFile
  Retention = 0
  InterruptAt <- OutsideTransit
  MaxCancel = 1
  OnePerSecond = TRUE
  MaxCollections = 3
  MaxInterrupts = 1
  MaxTime = 1
  MaxReads = 2
SYMMETRY Symmetry
INVARIANTS SingleWriter WorkerInsideLock FilesBacked ResolvedBacked ArchivePagesOneRevision NeverOlderThanMetadata
CHECK_DEADLOCK FALSE
