SPECIFICATION SessionSpec
CONSTANTS
  a1 = a1  a2 = a2  p1 = p1  p2 = p2  s1 = s1  s2 = s2  c1 = c1  c2 = c2
  Session = {a1, a2}
  Project = {p1, p2}
  Source = {s1}
  Proc = {c1, c2}
  NoProc = NoProc
  Retention = 1
  MaxCollections = 3
  MaxInterrupts = 2
  MaxTime = 3
SYMMETRY SessionSymmetry
INVARIANTS NewestDescribesDisk NeverOlderThanRow
PROPERTY LostOnlyReplacedOrIdle
CHECK_DEADLOCK FALSE
