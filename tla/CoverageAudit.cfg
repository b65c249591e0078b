SPECIFICATION AuditSpec
CONSTANTS
  LastDay = 9
  Calendars <- MCCalendars
  Timetable <- MCTimetable
  Interval = 105
  MaxSweepGap = 315
  MinRatio = 40
  Entitlement = 4
  EdgeDays = 3
  MaxSessions = 2
  MaxFaults = 1
INVARIANTS
  AuditTypeOK
  NoSilentExpiry
PROPERTIES
  HealthyIsGreen
  HoleIsRed
  FrozenCurveIsRed
CHECK_DEADLOCK FALSE
