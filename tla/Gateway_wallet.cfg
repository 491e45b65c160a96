SPECIFICATION GatewaySpec
CONSTANTS
  None = None
  Job = {j1, j2}
  Clients = {"a", "b"}
  CodeTtl = 1
  SessionTtl = 2
  RefreshTtl = 2
  MaxFresh = 3
  LastTime = 2
  MaxRestarts = 1
  Keys = {"k"}
  Category = {"read", "deploy"}
  PerMinute <- MCPerMinute
  Minute = 3
  IdleTicks = 4
  LastTick = 6
  Legacy = {"old"}
  Inodes = {1, 2, 3, 4, 5, 6}
  MaxCrashes = 2
  Token = {"t1"}
  Windows = {1}
  Lifetime = 1
  Ephemeral = TRUE
  Flaw = {"malformed", "tampered", "aud"}
  MaxRot = 1
  MaxRestart = 1
  MaxNow = 2
  N = 2
  Msgs <- BecknMsgs
  Triggers <- BecknTriggers
  Registry = {"bpp"}
  Verifier = TRUE
  RequireSignature = TRUE
  ExpectedBpps = {"bpp"}
  Skew = 0
  MaxTime = 1
  MaxEpochs = 1
  Rows <- CallbackRows
  MaxAttempts = 3
  AllowPrivate = FALSE
  Address = {"a", "b"}
  Amount = {1, 2}
  Bodies <- MeshBodies
  Funds <- MeshFunds
  Limit = 1
  MaxHeight = 1
  MaxLoops = 1
SYMMETRY JobSymmetry
INVARIANTS
  AckedWalletDurable
CHECK_DEADLOCK FALSE
