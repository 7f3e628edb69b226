SPECIFICATION Spec
CONSTANTS
  IDs = {"a", "b", "c"}
  Known = {"SSH"}
  Files <- MCFiles
  Bodies <- MCBodies
  Edits <- MCEdits
  Ports <- MCPorts
  Resolve <- MCResolve
  Unknown = {"c1"}
  Cipher <- MCCipher
  x = x
  y = y
  Handlers = {x}
  MaxUpdates = 1
INVARIANT StartsAgain
