CONSTANTS
  Clis = {c1}
  Settings <- Subprocess
  MaxWait = 2
  Polls = 2
  MaxStarts = 3
  MaxCommands = 3
SPECIFICATION Spec
INVARIANTS StoppedIsStopped
CHECK_DEADLOCK FALSE
