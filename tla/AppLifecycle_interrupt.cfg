SPECIFICATION LifeFairSpec
CONSTANTS
  Servers = 1
  MaxRequests = 0
  Signals = {"HUP", "INT"}
PROPERTY InterruptObeyed
CHECK_DEADLOCK FALSE
