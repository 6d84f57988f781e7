CONSTANTS
  Parts = {"pipe", "condition", "pool", "interface"}
  Capacity = 2
  Total = 7
  Wanted = 4
  MaxRead = 2
  MaxWrite = 6
  Closers = {"c1", "c2"}
  Waiters = {"w1", "w2"}
  Timed = {"w1"}
  Notifiers = {"n1", "n2"}
  MaxItems = 2
  NoOne = NoOne
  PoolThreads = {"s1"}
  PoolCoroutines = {"a1"}
  MaxResources = 1
  Gets = 1
  MayFail = TRUE
  HasTimeout = TRUE
  PeerThreads = {"s1", "s2"}
  PeerCoroutines = {"a1"}
  Restarts = 1
SPECIFICATION WaitingSpec
INVARIANTS
  PipeIsSound
  WakeupsKept
  PoolKeepsCount
  InterfaceAgrees
PROPERTIES
  TransfersEnd
  ClientsAnswered
  WaitsEnd
\* Every client may have made all its calls.
CHECK_DEADLOCK FALSE
