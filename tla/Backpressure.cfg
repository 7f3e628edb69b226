SPECIFICATION PauseFairSpec
CONSTANTS
  MaxMessage = 3
  MinReceived = 3
  Factor = 2
  MaxBytes = 14
INVARIANTS PausedMeansBacklog PauseAgreed
CHECK_DEADLOCK FALSE
