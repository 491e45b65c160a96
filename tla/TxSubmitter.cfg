SPECIFICATION FairSpec
CONSTANTS
  Call = {c1, c2}
  Key = {k1}
  NoKey = NoKey
  None = None
  Timeouts = {2}
  MaxRetries = 1
  MaxPollErrors = 1
  PollFloor = 1
  CleanupDelay = 1
  StaleAge = 2
  MaxNow = 3
INVARIANTS
  OneLivePerKey
  HonestOutcome
  TimeoutNotEarly
PROPERTIES
  EveryCallAnswered
CHECK_DEADLOCK FALSE
