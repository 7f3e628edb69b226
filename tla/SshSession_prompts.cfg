SPECIFICATION FairSpec
CONSTANTS
  MaxOut = 1  MaxInput = 1  MaxSegs = 2  MaxPause = 1  Window = 1  MayRefuse = TRUE
CHECK_DEADLOCK FALSE
INVARIANTS
  NoFrameIsRefused ReleasedLeavesNothing
PROPERTIES
  HandlerComesBack
  ClosedIsFreed
