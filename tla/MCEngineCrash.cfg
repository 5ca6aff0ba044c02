SPECIFICATION Spec
CONSTANTS
  TaskId = {t1}
  Handlers = {h1}
  NoRow = NoRow
  MaxRuns = 9
  MaxTime = 3
  DayLength = 2
  CronExpr <- MCCronExpr
  CronNext <- MCCronNext
  CreateInputs <- CrashInputs
  UpdateInputs <- NoInputs
  Ops = {"create", "trigger", "retry"}
  MaxRequests = 2
  MaxCrashes = 2
  MaxFaults = 1
INVARIANTS Custody LiveRunHasOwner CountersMatchRows StatisticsAgree LastRunIsARun OneRunPerSlot AttemptWithinBudget CronStaysArmed
PROPERTIES TerminalIsFinal SlotIsRunBeforeItMoves ImplementsLedger
