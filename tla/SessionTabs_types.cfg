SPECIFICATION Spec
CONSTANTS
  MaxSessions = 2
  MaxData = 2
  MaxClosing = 1
CHECK_DEADLOCK FALSE
INVARIANTS TypeOK NoticeStays
PROPERTIES LoopEnds
