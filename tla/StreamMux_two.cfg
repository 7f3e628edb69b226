\* Two slots, each used once or one of them twice.
CONSTANTS
  NumSlots = 2
  MaxRuns = 2
  MaxOut = 1
  MaxInput = 0
  MaxSegs = 1
  MaxPause = 1
  MaxJunk = 1
SPECIFICATION Spec
INVARIANTS
  TypeOK
  HandlerErrorsExplained
  AcceptableToClient
  FreeSlotIsReusable
PROPERTY PausedIsSilent
