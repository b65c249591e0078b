SPECIFICATION Spec
CONSTANTS
  Weekdays = {1, 3, 4}
  Sessions = {1, 4}
  Jobs = {"dividends_sync"}
  Underlyings <- MCUnderlyings
  ByHand <- MCByHand
  Unlisted = {"SPXW"}
  History = 4
  PAGE = 2
  Quota = 1
  Fills = {1}
  POLL_TRIES = 2
  StartLimitBurst = 2
  LastDay = 4
  MaxHands = 0
  MaxFaults = 1
INVARIANT DividendsCountedOnce
CHECK_DEADLOCK FALSE
