SPECIFICATION Spec
CONSTANTS
  Weekdays = {1, 3, 4}
  Sessions = {1, 4}
  Jobs = {"contracts_sync", "dividends_sync", "rates_sync", "ibkr_executions"}
  Underlyings <- MCUnderlyings
  ByHand <- MCByHand
  Unlisted = {"SPXW"}
  History = 4
  PAGE = 2
  Quota = 1
  Fills = {1}
  POLL_TRIES = 2
  StartLimitBurst = 2
  LastDay = 4
  MaxHands = 1
  MaxFaults = 1
INVARIANTS
  TypeOK
  LastLandingIsRead
  FiledUnderTheirDay
  HistoryContiguous
PROPERTIES
  CurveNeverAges
CHECK_DEADLOCK FALSE
