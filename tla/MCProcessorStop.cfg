CONSTANTS
  NoOne = NoOne
  Coroutines = {c1}
  Timed = {}
  Notifiers = {}
  Iterations = 1
  MayStop = TRUE
SPECIFICATION FairSpec
PROPERTIES
  StopReturns
CHECK_DEADLOCK FALSE
