\* Two tabs whose closes overlap.
SPECIFICATION Spec
CONSTANTS
  MaxSessions = 2
  MaxData = 0
  MaxClosing = 2
INVARIANT CurrentExists
CHECK_DEADLOCK FALSE
