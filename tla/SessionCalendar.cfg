SPECIFICATION Spec
CONSTANTS
  LastDay = 4
  Weekend = {2}
  Closures = {3}
  Halves = {4}
  Dates = {}
  MaxSyncs = 3
INVARIANTS
  CallCurrent
  AnswerSound
  CountExact
CHECK_DEADLOCK FALSE
