CONSTANTS
  c1 = c1
  c2 = c2
  c3 = c3
  p1 = p1
  p2 = p2
  t1 = t1
  NoOne = NoOne
  Coroutines  <- MCCoroutines
  Processors  <- MCProcessors
  Threads     <- MCThreads
  ProcessorOf <- MCProcessorOf
  Rounds = 2
  Variables = 2
  Keys = {"a"}
  AttributeNames = {"x"}
  Leaves = {"INTEGER"}
  Kinds = {"MAP", "VECTOR", "PAIRS"}
  MaxContainers = 2
  MaxSlots = 1
SPECIFICATION OwnershipSpec
INVARIANTS
  TreesOwnValues
  CounterExact
  NoLostWakeup
PROPERTIES
  AllServed
  ImplementsSection
