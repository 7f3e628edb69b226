SPECIFICATION Spec
CONSTANTS
  NumSlots = 1
  MaxSessions = 2
  MaxDials = 2
  Writable = {TRUE}
  Keys = {k1, k2}
INVARIANTS NoStrayFrame AcceptIsJustified EveryScreenHasAWayOut NoOrphan
PROPERTIES WaitEnds
CHECK_DEADLOCK FALSE
