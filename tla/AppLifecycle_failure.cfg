SPECIFICATION LifeFairSpec
CONSTANTS
  Servers = 2
  MaxRequests = 0
  Signals = {}
PROPERTY FailureEndsRun
CHECK_DEADLOCK FALSE
