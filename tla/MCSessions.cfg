SPECIFICATION PartsSpec
CONSTANTS
  Caller = {x1, x2, x3}
  Tracked = {x2, x3}
  CanBreak = TRUE
  Free = Free
  Listener = Listener
  Job = {j1, j2}
  Foreign = {f1}
  CanFail = TRUE
INVARIANTS
  PendingIsInProgress
  EndsAfterItsJobs
PROPERTIES
  CallsReturn
  WaitsEnd
CHECK_DEADLOCK FALSE
