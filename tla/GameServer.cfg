SPECIFICATION Spec
CONSTANTS
  Catalogue <- Shipped
  Resolving <- ResolvingGames
  Unpublished <- UnpublishedEndpoints
  MaxEdits = 1
INVARIANTS
  NothingIsMissing
  ContainerPublishes
  
PROPERTY ChoicesStay
CHECK_DEADLOCK FALSE \* a server that is not running may be left so
