SPECIFICATION Spec
CONSTANTS
  Servers = {s1, s2}
  Keys = {port, map}
  Commands = {c1, c2}
  Jobs = {1, 2}
  MaxSets = 2
  None = None
  Lost = Lost
  Emptied = Emptied
  Torn = Torn
SYMMETRY Symmetry
INVARIANTS
  OnceAtBoot
PROPERTIES
  OnlyOverlapsLose
  ImplementsRecords
