CONSTANTS
  NoOne = NoOne
  Coroutines = {c1, c2}
  Timed = {c1}
  Notifiers = {}
  Iterations = 2
  MayStop = FALSE
SPECIFICATION FairSpec
PROPERTIES
  TimeoutWakes
  WorkTaken
