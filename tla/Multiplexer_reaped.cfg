CONSTANTS
  Servers = {s1, s2}
  Codes = {1}
  Scripts <- FewOutputs
  Capacity = 2
  Chunk = 3
SPECIFICATION Spec
INVARIANTS
  ReturnsAreTrue
CHECK_DEADLOCK FALSE
