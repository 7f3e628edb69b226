\* A sendData call of two segments around the close of its stream; with "-continue"
\* TLC reports both properties.
CONSTANTS
  NumSlots = 1
  MaxRuns = 2
  MaxOut = 0
  MaxInput = 1
  MaxSegs = 2
  MaxPause = 0
  MaxJunk = 1
SPECIFICATION Spec
INVARIANTS
  NoSegmentMisread
  NoSegmentAfterClose
