SPECIFICATION Spec
CONSTANTS
  Nodes = {"n1", "n2"}
  Creator = "n1"
  Patches <- MCPatches
  MaxVersion = 3
  SchemaIds = {"governance", "s"}
  BadSources = {"bad"}
  BufferSize = 2
  MaxCrashes = 1
  None = None
INVARIANTS
  TypeOK
  QuorumCanBeMet
  MajorityIntersects
  VersionsAreFinalUnlessRejected
  EvaluatedByItsVersion
PROPERTY
  ContractsFollowGovernance
