SPECIFICATION Spec
CONSTANTS
  Token = {t1}
  Ver = {v1}
  Windows = {1}
  Lifetime = 1
  Ephemeral = FALSE
  Flaw = {}
  MaxRot = 0
  MaxRestart = 1
  MaxNow = 2
  None = None
INVARIANTS
  VerifiableAcrossRestarts
CHECK_DEADLOCK FALSE
