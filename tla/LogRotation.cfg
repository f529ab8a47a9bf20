SPECIFICATION Spec
CONSTANTS
  Starters = {a, b}
  KeepLogs = {0, 1, 2, 3}
  MaxLogs = 6
CHECK_DEADLOCK FALSE
INVARIANTS
  NewestFirst
  FewLogs
PROPERTIES
  OnlyOldLogsGo
