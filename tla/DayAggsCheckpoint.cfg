SPECIFICATION SweepSpec
CONSTANTS
  Dates = {d1, d2}
  Total = 4
  Every = 2
  Traded <- MCTraded
  None = None
  MaxCrashes = 4
INVARIANTS
  NoSilentGap
  ExactUnlessSpoiled
