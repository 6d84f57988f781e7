CONSTANTS
  Parts = {"server", "workers", "monitor"}
  r1 = r1
  r2 = r2
  Callers <- TwoCallers
  Calls <- PairsOfWays
  Own = thread
  Arrivals = 1
  Handles = {"c1", "c2"}
  RoundEvery = 2
  ConsumeEvery = 2
  Proxies = {"p1", "p2"}
  Metrics = {"m"}
SPECIFICATION RuntimeSpec
INVARIANTS
  OneLoop
  StoppedInvalid
  HeldOnce
  ProxiesAccountedFor
PROPERTIES
  HandlerStopReturns
  EventsSeen
  OverdueInvalidated
\* Every thread may have ended.
CHECK_DEADLOCK FALSE
