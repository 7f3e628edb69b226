SPECIFICATION Spec
CONSTANTS
  MaxSessions = 2
  MaxData = 2
  MaxClosing = 1
INVARIANTS CurrentExists NoSessionLost NothingCutOff
PROPERTIES ClosingTabGoes
CHECK_DEADLOCK FALSE
