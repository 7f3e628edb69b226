SPECIFICATION Spec
CONSTANTS
  Offers = {"ECHO", "SGA"}
  Asks = {"NAWS", "TTYPE", "OTHER"}
  Withdraws = {"ECHO", "SGA"}
  Commands = {"GA"}
  Sizes = {s1}
  Wide = {}
  Tall = {}
  MaxTurns = 2
  MaxText = 1
  MaxKeys = 1
  MaxResizes = 1
INVARIANTS BytesIntact EchoAgrees
PROPERTIES NegotiationEnds
CHECK_DEADLOCK FALSE
