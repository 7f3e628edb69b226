SPECIFICATION LifeFairSpec
CONSTANTS
  Servers = 2
  MaxRequests = 1
  Signals = {"HUP", "INT"}
INVARIANTS NothingOutlivesRun
PROPERTIES EndsExplained ShutdownEnds
CHECK_DEADLOCK FALSE
