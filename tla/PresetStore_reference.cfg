SPECIFICATION Spec
CONSTANTS
  IDs = {"a", "b", "c"}
  Known = {"SSH"}
  Files <- MCFiles
  Bodies <- ReferenceBodies
  Edits <- MCEdits
  Ports <- MCPorts
  Resolve <- MCResolve
  Unknown = {}
  Cipher <- MCCipher
  x = x
  y = y
  Handlers = {x}
  MaxUpdates = 1
INVARIANT RestartKeeps
