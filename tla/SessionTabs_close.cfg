SPECIFICATION Spec
CONSTANTS
  MaxSessions = 3
  MaxData = 1
  MaxClosing = 2
INVARIANT NoSessionLost
CHECK_DEADLOCK FALSE
