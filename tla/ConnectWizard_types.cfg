SPECIFICATION Spec
CONSTANTS
  NumSlots = 1
  MaxSessions = 2
  MaxDials = 2
  Writable = {TRUE}
  Keys = {k1, k2}
INVARIANTS TypeOK OneWizard
PROPERTIES LockReleased
CHECK_DEADLOCK FALSE
