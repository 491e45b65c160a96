SPECIFICATION FairSpec
CONSTANTS
  Task = {t1, t2}
  Cards <- MCCards
  Reqs <- MCReqs
  Self <- MCSelf
  None = None
  MaxEvents = 2
  MaxCrash = 1
  MaxNow = 2
INVARIANTS
  OneVerdictPerTask
  VerdictIsOwn
  RevocationTakesEffect
  GatesAgree
  RegisteredOnce
PROPERTIES
  EveryEventDispatched
CHECK_DEADLOCK FALSE
