CONSTANTS
  Servers = {a, b}
  Clis = {c1}
  Keys = {"port"}
  MainKey = "port"
  DefaultPort = 1
  MaxPort = 3
  MaxShift = 2
  Addresses <- TwoHomed
  Hosted <- TwoHomed
  Typed = {1, 2}
  Fleets <- DeletingFleet
SPECIFICATION Spec
PROPERTIES SetKeepsApart
