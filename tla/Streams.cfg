SPECIFICATION StreamsSpec
CONSTANTS
  None = None
  Poller = {"p1", "p2"}
  Kinds = {"blocks", "blocks_tx", "account"}
  PollCap = 2
  MaxHeight = 3
  Sub = {"s1", "s2"}
  Cap = 2
  MaxBuf = 3
  KeepBuf = 1
  MaxNote = 4
  Op = {"o1", "o2"}
  Acct = {"a1"}
  Amounts = {1, 2, 4}
  SafeMax = 3
  MaxCrash = 1
INVARIANTS
  NotificationsFaithful
  Resubscribed
PROPERTIES
  CatchesUp
  Reconnects
  QueueDrains
CHECK_DEADLOCK FALSE
