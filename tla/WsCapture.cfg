SPECIFICATION LiveSpec
CONSTANTS
  Bars = {b1, b2, b3}
  MaxFaults = 2
INVARIANT GreenIsComplete
PROPERTY RunEnds
CHECK_DEADLOCK FALSE
