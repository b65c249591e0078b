SPECIFICATION BucketLiveSpec
CONSTANTS
  Normal = {sweep, repair}
  Low = {trades}
  Burst = 3
  Reserve = 1
  Claim = 3
  Poll = 1
  Lag = 1
  Jump = 2
  MaxUpsets = 1
INVARIANTS
  WithinAllowance
PROPERTIES
  NormalServed
  LowNotWedged
