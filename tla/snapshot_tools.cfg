SPECIFICATION MCSpec
CONSTANTS
  ErrorTexts <- MCErrorTexts
  IncidentTexts <- MCIncidentTexts
  HealthPaths = {"/health"}
  AssetPaths = {"/app.js"}
  ChallengePaths = {"/acme"}
  ProbePaths = {"/.env", "/.git"}
  Sources <- MCSources
  Bodies <- MCBodies
  NoFile = NoFile
  Requests <- MCRequests
  GroupLimit = 3
  MinCandidates = 2
  Multiplier = 1
  MaxWindow = 3
  Replacements <- MCReplacements
  MaxEditions = 1
  OrderOf <- MCOrder
INVARIANTS GroupPagesPartition ActivityIsExact ViewLosesNothing PagesCoverFile
PROPERTY CountsRoutes
CHECK_DEADLOCK FALSE
