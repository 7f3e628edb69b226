SPECIFICATION EchoSpec
CONSTANTS
  MaxOut = 0  MaxInput = 4  MaxSegs = 1  MaxPause = 1  Window = 1  MayRefuse = FALSE
CHECK_DEADLOCK FALSE
PROPERTIES
  InputReturns
