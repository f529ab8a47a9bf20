CONSTANTS
  Clis = {c1}
  Settings <- AloneSettings
  MaxWait = 2
  Polls = 2
  MaxStarts = 3
  MaxCommands = 3
SPECIFICATION FairSpec
INVARIANTS AloneKeepsOneServer AloneStops FilesAreQuiet StopIsPatient NoServerIsForgotten
PROPERTIES CommandEnds StopEndsTheServer
CHECK_DEADLOCK FALSE
