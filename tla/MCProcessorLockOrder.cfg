CONSTANTS
  NoOne = NoOne
  Coroutines = {c1}
  Timed = {c1}
  Notifiers = {n1}
  Iterations = 1
  MayStop = FALSE
SPECIFICATION FairSpec
PROPERTIES
  NotifyReturns
CHECK_DEADLOCK FALSE
