CONSTANTS
  MaxOut = 1
  MaxInput = 2
  MaxSegs = 2
  MaxPause = 1
SPECIFICATION Spec
CHECK_DEADLOCK FALSE
INVARIANTS TypeOK OnlyConfirmedHosts HandlerErrorsExplained ReleasedLeavesNothing
