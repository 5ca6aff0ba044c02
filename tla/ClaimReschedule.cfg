SPECIFICATION Spec
CONSTANTS
  TaskId = {t1}
  Handlers = {h1}
  NoRow = NoRow
  MaxRuns = 4
  MaxTime = 2
  DayLength = 1
  CronExpr <- MCCronExpr
  CronNext <- MCCronNext
  CreateInputs <- JustOnce
  UpdateInputs <- JustReschedule
  Ops = {"create", "update"}
  MaxRequests = 2
  MaxCrashes = 0
  MaxFaults = 0
PROPERTY RescheduleIsKept
