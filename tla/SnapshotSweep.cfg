SPECIFICATION SweepLiveSpec
CONSTANTS
  Units = {minute, eod, shell}
  Scheduled = {minute, eod}
  Restartable = {eod}
  Chains = {SPY, SPX}
  Burst = 2
  MaxAttempts = 2
  None = None
  MaxFaults = 1
INVARIANTS
  GreenIsTrue
  RetryLandsOnce
PROPERTIES
  JobSpec
  VerdictArrives
