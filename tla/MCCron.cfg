SPECIFICATION Spec
CONSTANTS
  MonthDays <- MCMonthDays
  DaysPerWeek = 3
  HoursPerDay = 4
  MinutesPerHour = 2
  SecondsPerMinute = 2
  MaxYears = 2
  Zones <- MCZones
  Exprs <- MCExprs
  Starts <- MCStarts
INVARIANTS TypeOK NothingSkipped
PROPERTY NextReturns
CHECK_DEADLOCK FALSE
