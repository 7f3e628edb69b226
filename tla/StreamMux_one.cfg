\* One slot, used twice.
CONSTANTS
  NumSlots = 1
  MaxRuns = 2
  MaxOut = 1
  MaxInput = 1
  MaxSegs = 2
  MaxPause = 1
  MaxJunk = 1
SPECIFICATION FairSpec
INVARIANTS
  AcceptableToClient
  FreeSlotIsReusable
  ReleasedMeansStopped
PROPERTIES
  PausedIsSilent
  ClosedStreamIsFreed
  NothingLeftBehind
  ImplementsContract
