SPECIFICATION Spec
CONSTANTS
  Req = {r1, r2}
  Issuer = {"worldcoin"}
  Key = {k1}
  Card = {a1, a2}
  Flaw = {}
  Fault = {}
  None = None
INVARIANTS
  OneMintPerSlot
CHECK_DEADLOCK FALSE
