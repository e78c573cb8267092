CONSTANTS
  a = a
  b = b
  c = c
  s1 = s1
  s2 = s2
  p1 = p1
  p2 = p2
  x1 = x1
  x2 = x2
  x3 = x3
  x4 = x4
  x5 = x5
  x6 = x6
  y1 = y1
  NoFile = NoFile
  Part = Part
  None = None
  Canvases <- MCCanvases
  Modes = {"letterbox", "stretch"}
  PatchSize = 14
  MergeSize = 2
  HiddenSize = 2048
  Channels = 3
  PrefillLimits = {576, 600, 1024}
  Sources <- MCSources
  Responses <- MCResponses
  TextTokens = {20, 30}
  OtherGrids <- MCOtherGrids
  Items = {a, b}
  Selections <- MCSelections
  Settings = {s1, s2}
  Profiles = {p1}
  TornAppends = FALSE
  PowerLoss = TRUE
  MaxLog = 3
SPECIFICATION TornSpec
PROPERTY TornRunPublishes
