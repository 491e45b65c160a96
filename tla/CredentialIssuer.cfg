SPECIFICATION FairSpec
CONSTANTS
  Req = {r1, r2}
  Issuer = {"worldcoin", "civic", "kycTest", "skillCert", "bankMock", "bank"}
  Key = {k1}
  Card = {a1, a2}
  Flaw = {"proof"}
  Fault = {"crash", "lost_reply", "store", "upstream"}
  None = None
INVARIANTS
  MintingSound
  CallersConverge
PROPERTIES
  Refines
  EveryRequestAnswered
CHECK_DEADLOCK FALSE
