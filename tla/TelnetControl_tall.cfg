\* A terminal of 255 rows: the size is not escaped.
SPECIFICATION Spec
CONSTANTS
  Offers = {}
  Asks = {"NAWS"}
  Withdraws = {}
  Commands = {}
  Sizes = {s1}
  Wide = {}
  Tall = {s1}
  MaxTurns = 1
  MaxText = 0
  MaxKeys = 1
  MaxResizes = 1
INVARIANT BytesIntact
CHECK_DEADLOCK FALSE
