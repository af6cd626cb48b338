SPECIFICATION Spec
CONSTANTS
  Peer = "p"
  Bootstraps = {"b"}
  Conns = {1, 2}
  Cap = 2
  MaxTasks = 1
  MaxOnce = 1
  MaxFailures = 2
  None = None
CHECK_DEADLOCK FALSE
INVARIANTS
  TypeOK
  ConnectionIsOpen
PROPERTIES
  BootstrapsReached
  TaskArrives
