SPECIFICATION Spec
CONSTANTS
  TaskId = {t1, t2}
  Handlers = {h1, h2}
  NoRow = NoRow
  MaxRuns = 6
  MaxTime = 2
  DayLength = 1
  CronExpr <- MCCronExpr
  CronNext <- MCCronNext
  CreateInputs <- AllCreates
  UpdateInputs <- Edits
  Ops = {"create", "update", "delete", "enable", "pause", "trigger", "retry", "deleteRun"}
  MaxRequests = 4
  MaxCrashes = 0
  MaxFaults = 0
SYMMETRY Symmetry
INVARIANTS TypeOK CountersMatchRows LastRunIsARun ReadersAgree PagesCoverRuns StatisticsAgree
PROPERTIES TerminalIsFinal ImplementsLedger
