SPECIFICATION LifeSpec
CONSTANTS
  Servers = 1
  MaxRequests = 0
  Signals = {"TERM"}
PROPERTY CleanShutdown
CHECK_DEADLOCK FALSE
