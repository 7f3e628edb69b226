\* A resize after the window size has been negotiated.
SPECIFICATION Spec
CONSTANTS
  Offers = {"ECHO"}
  Asks = {"NAWS"}
  Withdraws = {}
  Commands = {}
  Sizes = {s1}
  Wide = {}
  Tall = {}
  MaxTurns = 1
  MaxText = 0
  MaxKeys = 0
  MaxResizes = 1
CHECK_DEADLOCK FALSE
INVARIANTS SizeKnown
