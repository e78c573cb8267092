CONSTANTS
  GenerationMode = "hybrid"
  Workers = {w1, w2, w3, w4}
  Callers = {c1, c2}
  MaxCalls = 2
  Generations = 2
  Idle = Idle
  Threads = {t1, t2}
  Requests <- MCRequests
  Nobody = Nobody
  MaxBegun = 4
  Images <- MCImages
  Videos <- MCVideos
  Frames = 2
  Commands = {"detect"}
  MaxLines = 4
SPECIFICATION RuntimeSpec
INVARIANT SavedIsOnDisk
