SPECIFICATION Spec
CONSTANTS
  Requesters = {r1, r2}
  MaxDue = 2
  Nobody = Nobody
  Leaked = Leaked
INVARIANT NoSelfWait
PROPERTY OperationsEnd
CHECK_DEADLOCK FALSE
