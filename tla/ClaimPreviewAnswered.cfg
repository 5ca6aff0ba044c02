SPECIFICATION Spec
CONSTANTS
  Requesters = {r1, r2}
  MaxDue = 2
  Nobody = Nobody
  Leaked = Leaked
PROPERTY EveryRequestIsAnswered
CHECK_DEADLOCK FALSE
