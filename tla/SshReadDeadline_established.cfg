SPECIFICATION DeadlineSpec
CONSTANTS
  MaxPrompts = 1  MaxExpiries = 2
CHECK_DEADLOCK FALSE
PROPERTIES
  EstablishedNeverTimesOut
