CONSTANTS
  NoOne = NoOne
  Coroutines = {c1, c2}
  Timed = {}
  Notifiers = {n1, n2}
  Iterations = 2
  MayStop = TRUE
SPECIFICATION Spec
INVARIANTS
  SingleOwner
  TasksCounted
  SleepersReachable
