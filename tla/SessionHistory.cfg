SPECIFICATION LiveSpec
CONSTANTS
  LastDay = 3
  Sessions = {1, 2}
  Listed = {}
  Datasets = {1, 2}
  Blank <- MCBlank
  Lookback = 1
  ByHand <- MCByHand
  MaxFaults = 1
INVARIANTS
  TypeOK
  CalendarHonest
PROPERTIES
  AuditConverges
  LateFilesLand
CHECK_DEADLOCK FALSE
