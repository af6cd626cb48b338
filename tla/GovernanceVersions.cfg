SPECIFICATION Spec
CONSTANTS
  Nodes = {"n1", "n2"}
  Creator = "n1"
  Patches <- MCPatches
  MaxVersion = 2
  SchemaIds = {"governance", "s"}
  BadSources = {"bad"}
  BufferSize = 2
  MaxCrashes = 0
  None = None
INVARIANT
  VersionsAreFinal
