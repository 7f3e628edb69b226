SPECIFICATION FairSpec
CONSTANTS
  MaxOut = 0  MaxInput = 0  MaxSegs = 1  MaxPause = 1  Window = 1  MayRefuse = TRUE
CHECK_DEADLOCK FALSE
PROPERTIES
  RefusalReturns
