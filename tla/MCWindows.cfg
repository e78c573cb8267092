CONSTANTS
  CacheLens = {12, 14, 17}
  PrefillQueries = {4, 7}
  Block = 6
  Rows = 5
  Values <- MCValues
  Empty = "zero"
  Prompts <- MCPrompts
  Updates <- MCUpdates
  Windows <- MCDecodedWindows
  Choices <- MCChoices
  MaxNewTokens = 6
  Past = 20
SPECIFICATION PartsSpec
INVARIANTS
  MirrorCoherent
  ContextSeenOnce
  PositionBuildersAgree
  ReplayFaithful
  DecisionSound
  FallbackSound
  NucleusLikeRuntime
  ProbesFaithful
PROPERTIES
  WindowSlides
  ImplementsLog
CHECK_DEADLOCK FALSE
