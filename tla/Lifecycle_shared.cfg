CONSTANTS
  Clis = {c1, c2}
  Settings <- SharedSettings
  MaxWait = 2
  Polls = 1
  MaxStarts = 4
  MaxCommands = 2
SPECIFICATION Spec
INVARIANTS NamesKeepOneServer
SYMMETRY CliSymmetry
CHECK_DEADLOCK FALSE
