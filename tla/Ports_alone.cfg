CONSTANTS
  Servers = {a, b}
  Clis = {c1}
  Keys = {"port", "queryport"}
  MainKey = "port"
  DefaultPort = 2
  MaxPort = 3
  MaxShift = 2
  Addresses <- Everywhere
  Hosted <- Here
  Typed = {1, 2}
  Fleets <- AloneFleets
SPECIFICATION Spec
SYMMETRY ServerSymmetry
INVARIANTS LaunchedApart EveryoneHeard
PROPERTIES ExplicitStays GroupMoves SetupSettles
