CONSTANTS
  Prompts <- MCPrompts
  MaxNewTokens = {3, 11}
  CacheLen = 16
  TensorCount = 2
  Windows <- MCWindows
  ArTokens <- MCArTokens
  SlowTokens <- MCSlowTokens
  Layouts = {"every", "last"}
SPECIFICATION FairSpec
INVARIANTS
  CacheHoldsText
  CallsSound
  AnswerAccounted
  ProtectedAnswer
PROPERTIES
  TornCacheNeverRead
  AnswerGrowsOrRestartsOnce
  GenerateReturns
