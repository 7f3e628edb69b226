CONSTANTS
  MaxOut = 0
  MaxInput = 1
  MaxSegs = 1
  MaxPause = 0
SPECIFICATION Spec
INVARIANT InputNeverEndsHandler
CHECK_DEADLOCK FALSE
