SPECIFICATION DeadlineSpec
CONSTANTS
  MaxPrompts = 2  MaxExpiries = 4
CHECK_DEADLOCK FALSE
PROPERTIES
  PromptsAreForgiven
