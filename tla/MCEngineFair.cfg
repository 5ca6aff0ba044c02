SPECIFICATION FairSpec
CONSTANTS
  TaskId = {t1, t2}
  Handlers = {h1}
  NoRow = NoRow
  MaxRuns = 9
  MaxTime = 2
  DayLength = 1
  CronExpr <- MCCronExpr
  CronNext <- MCCronNext
  CreateInputs <- MixedInputs
  UpdateInputs <- NoInputs
  Ops = {"create", "pause", "trigger"}
  MaxRequests = 2
  MaxCrashes = 1
  MaxFaults = 1
PROPERTIES DueTaskIsServed RunningRunEnds
