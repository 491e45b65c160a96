CONSTANTS
  Calls = {"c1", "c2"}
  Scopes = {"a", "b"}
  None = None
  MaxHash = 1
  MaxTries = 1
  Actives <- MCActives
  WalletsOf <- MCWalletsOf
  Loads <- TwiceLoads
SPECIFICATION Spec
INVARIANTS
  DistinctSubmissions
CHECK_DEADLOCK FALSE
