CONSTANTS
  MaxOut = 1
  MaxInput = 1
  MaxSegs = 2
  MaxPause = 1
SPECIFICATION FairSpec
INVARIANTS
  NoFrameIsRefused
PROPERTIES
  NobodyWatches
  HandlerComesBack
  ExitIsNoticed
CHECK_DEADLOCK FALSE
