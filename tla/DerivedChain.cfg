SPECIFICATION Spec
CONSTANTS
  LastSession = 4
  FirstDaily = 3
  Chains <- MCChains
  MinStrikes = 2
  Windows = {1}
  Horizons = {1}
  MinTrain = 1
  Calendars <- MCCalendars
  Burst = 1
  Rebuilt = {"spy_spot", "rv_forecast"}
  Starts = {3}
  MaxPasses = 1
  MaxDeaths = 1
INVARIANTS
  PointInTime
  HonestReturns
PROPERTIES
  NeverEmptied
  QuietRunHeals
CHECK_DEADLOCK FALSE
