SPECIFICATION Spec
CONSTANTS
  Nodes = {"o", "w", "x"}
  Owner = "o"
  Scenarios <- MCScenarios
  MaxLate = 1
  MaxCrashes = 1
  None = None
CHECK_DEADLOCK FALSE
INVARIANTS
  TypeOK
  SignaturesOfEvent
PROPERTY
  Distributed
