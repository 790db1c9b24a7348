SPECIFICATION FairTasksSpec
CONSTANTS
  b1 = b1  b2 = b2  a1 = a1  a2 = a2  p1 = p1  p2 = p2
  Call = {b1, b2}
  Session = {a1}
  Project = {p1, p2}
  MaxFaults = 1
INVARIANTS NoneForgotten CompletedCoversCall OutcomesAgree
PROPERTY PollingEnds
CHECK_DEADLOCK FALSE
