SPECIFICATION Spec
CONSTANTS
  Nodes = {"o", "w", "x"}
  Owner = "o"
  Scenarios <- MCReturns
  MaxLate = 0
  MaxCrashes = 0
  None = None
CHECK_DEADLOCK FALSE
INVARIANT
  NodesKeepRunning
