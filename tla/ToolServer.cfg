CONSTANTS
  Calls = {"c1", "c2"}
  Scopes = {"a", "b"}
  None = None
  MaxHash = 1
  MaxTries = 1
  Actives <- MCActives
  WalletsOf <- MCWalletsOf
  Loads <- AllLoads
SPECIFICATION Spec
INVARIANTS
  OkMeansLanded
  RefusedNoEffect
  NeighboursDistinct
PROPERTIES
  EveryToolCallAnswered
CHECK_DEADLOCK FALSE
