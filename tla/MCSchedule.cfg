SPECIFICATION ScheduleSpec
CONSTANTS
  Minutes = 2
  Hours = 3
  Limit = 8
  Exprs <- MCExprs
  Shift = 4
  Before = 0
  After = 2
  None = None
  LastInstant = 14
PROPERTIES NextIsLater NoMatchMissed
CHECK_DEADLOCK FALSE
