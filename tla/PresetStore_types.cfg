SPECIFICATION Spec
CONSTANTS
  IDs = {"a", "b", "c"}
  Known = {"SSH"}
  Files <- MCFiles
  Bodies <- MCBodies
  Edits <- MCEdits
  Ports <- MCPorts
  Resolve <- MCResolve
  Unknown = {}
  Cipher <- MCCipher
  x = x
  y = y
  Handlers = {x, y}
  MaxUpdates = 2
SYMMETRY Symmetry
INVARIANTS TypeOK
PROPERTIES StrangersSurvive
