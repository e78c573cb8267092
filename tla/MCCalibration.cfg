CONSTANTS
  Points <- MCPoints
  Norms <- MCNorms
  DataSets <- MCDataSets
  Settings <- MCSettings
  Standard <- MCStandard
  MaxRuns = 2
  Ops <- MCOps
  Kind <- MCKind
  Inside <- MCInside
  Uncalibrated = {"wv_y"}
  RMSNorms = {"norm"}
  WVMatmuls = {"wv"}
  Policies <- MCPolicies
  Patterns <- MCPatterns
  NoOp = "-"
  NoPolicy = NoPolicy
  Answers <- MCAnswers
  Hooks = 2
  MaxAuditRuns = 2
  NoGraph = NoGraph
  NoFile = NoFile
SPECIFICATION PartsSpec
INVARIANTS
  SucceededIsAudited
  ScalesSound
  RestoredForThisBuild
  ReportsSound
PROPERTY AuditSound
CHECK_DEADLOCK FALSE
