SPECIFICATION BooksSpec
CONSTANTS
  Req = {r1, r2}
  Rev = {v1, v2}
  Issuer = {"bank", "bankMock"}
  Key = {k1}
  Card = {a1}
  Flaw = {}
  Fault = {"crash", "lost_reply", "store", "upstream"}
  None = None
  Job = {j1, j2, j3}
  Acct = {"a1"}
  Amounts = {1, 2, 4}
  SafeMax = 3
  MaxCrash = 1
  Ref = {"f1", "f2"}
  Cents = {0, 2}
  Atomic = {3, 5}
  CentSize = 4
  FeeDivisor = 4
  WireFee = 1
  MoneyFault = {"refused", "lost_reply", "crash"}
  Subject = {"s1", "s2"}
  OpenedSlot = {1}
  MaxCrashes = 1
  Account = {"a1", "a2"}
  OpeningBalance = 9
  Num = 3
  Den = 2
  Scale = 8
  MaxPeriod = 2
  Trace <- Traces
  Revocation <- MCRevocation
  Authority = {"A", "B"}
  Home <- MCHome
  UsdAmount <- MCAmount
  Threshold = 3
  Known = {"A"}
  KnownTx = {1}
  Report = {"r1", "r2"}
  Window <- MCWindow
  Attestation = {"i1", "i2", "i3"}
  Wei = {1, 2}
  MaxBalance = 5
SYMMETRY JobSymmetry
INVARIANTS
  RevocationSound
  LedgerSound
  BooksSound
  AnswerTrue
  NoSilentOrphan
  YieldNeverDouble
  ReportsReconcile
  BridgeSound
CHECK_DEADLOCK FALSE
