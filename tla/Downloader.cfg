\* Two users' processes and the owner's, every fault.
CONSTANTS
  Procs = {p1, p2, p3}
  Keys = {k1, k2}
  Paths = {d1, d2}
  NoPath = NoPath
  OtherUsers = {p3}
  Faults = {"crash", "fetch", "write", "denied"}
  MaxRequests = 1
SPECIFICATION FairSpec
INVARIANTS MutualExclusion DatabaseSound
PROPERTIES LinesAreDurable DirectoriesHaveOneWriter StaleLockIsForever ImplementsCache EveryCallEnds
CHECK_DEADLOCK FALSE
