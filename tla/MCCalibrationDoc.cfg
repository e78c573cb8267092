CONSTANTS
  Points <- MCPoints
  Norms <- MCNorms
  DataSets <- MCDataSets
  Settings <- MCSettings
  Standard <- MCStandard
  MaxRuns = 1
  Ops <- MCOps
  Kind <- MCKind
  Inside <- MCInside
  Uncalibrated = {"wv_y"}
  RMSNorms = {"norm"}
  WVMatmuls = {"wv"}
  Policies <- MCPolicies
  Patterns <- MCPatterns
  NoOp = "-"
  NoPolicy = NoPolicy
  Answers <- MCAnswers
  Hooks = 2
  MaxAuditRuns = 2
  NoGraph = NoGraph
  NoFile = NoFile
SPECIFICATION PartsSpec
INVARIANT RestoredScalesAudited
CHECK_DEADLOCK FALSE
