SPECIFICATION Spec
CONSTANTS
  full = full
  map = map
  Commands = {cron, user}
  Profiles = {full, map}
  Configs <- MCConfigs
  Times <- MCTimes
  MaxZips = 2
  NoProfile = NoProfile
  NoLifetime = NoLifetime
  NoBase = NoBase
  NoDate = NoDate
SYMMETRY Symmetry
INVARIANTS
  SavingComesBack
  LoneZipsAreQuiet
PROPERTIES
  LifetimesHold
