SPECIFICATION MCSpec
SYMMETRY CallSymmetry
ACTION_CONSTRAINT EditsDuringCalls
CONSTANTS
  c1 = c1  c2 = c2  x = x  y = y  noRow = noRow  noSession = noSession  full = full
  Project = {1, 2}
  SourceKey = {x, y}
  Caller <- MCCaller
  AllProjects = all
  AllSources = every
  NoRow = noRow
  NoDeployment = none
  Call = {c1, c2}
  Client = {"agent", "flow"}
  WorkflowAgent = "flow"
  SessionArg <- MCSessionArg
  NoSession = noSession
  Requests <- MCRequests
  KeySets <- MCKeySets
  Files <- MCFiles
  Tools = {"collect_logs", "close_agent_session", "read_log_snapshot_file", "resources/read"}
  Allowlists <- MCAllowlists
  MaxEvents = 1
INVARIANTS CollectedIsAudited CollectedWasAllowed NoLateCollect CloseHasTrail
PROPERTY ImplementsLifecycle
CHECK_DEADLOCK FALSE
