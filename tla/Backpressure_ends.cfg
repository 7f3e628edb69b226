SPECIFICATION PauseFairSpec
CONSTANTS
  MaxMessage = 3
  MinReceived = 3
  Factor = 2
  MaxBytes = 14
CHECK_DEADLOCK FALSE
PROPERTIES SilenceEnds
