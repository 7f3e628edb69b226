SPECIFICATION Spec
CONSTANTS
  Offers = {"ECHO", "SGA"}
  Asks = {"NAWS", "TTYPE", "OTHER"}
  Withdraws = {"ECHO", "SGA"}
  Commands = {"NOP"}
  Sizes = {s1}
  Wide = {}
  Tall = {}
  MaxTurns = 2
  MaxText = 1
  MaxKeys = 1
  MaxResizes = 1
INVARIANT ServeGoesOn
CHECK_DEADLOCK FALSE
