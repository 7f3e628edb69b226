\* The race between the initial response and the remote goroutine.
CONSTANTS
  NumSlots = 1
  MaxRuns = 1
  MaxOut = 0
  MaxInput = 0
  MaxSegs = 1
  MaxPause = 0
  MaxJunk = 1
SPECIFICATION Spec
INVARIANT InitialResponseFirst
