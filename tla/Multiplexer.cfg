CONSTANTS
  Servers = {s1, s2}
  Codes = {1, 2}
  Scripts <- Outputs
  Capacity = 3
  Chunk = 3
SPECIFICATION FairSpec
INVARIANTS
  OutputIsWhole NobodyLeftBehind FailuresAreReal SilenceMeansReady WaitsAreAnswered
PROPERTIES
  RunEnds
CHECK_DEADLOCK FALSE
