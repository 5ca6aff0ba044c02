SPECIFICATION FairSpec
CONSTANTS
  TaskId = {t1}
  Handlers = {h1}
  NoRow = NoRow
  MaxRuns = 5
  MaxTime = 2
  DayLength = 1
  CronExpr <- MCCronExpr
  CronNext <- MCCronNext
  CreateInputs <- JustRetried
  UpdateInputs <- NoInputs
  Ops = {"create"}
  MaxRequests = 1
  MaxCrashes = 2
  MaxFaults = 0
PROPERTY PendingRunIsExecuted
