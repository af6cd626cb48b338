SPECIFICATION Spec
CONSTANTS
  MaxSn = 1
  MaxGov = 1
  Ownerships = {{}, {"subject", "governance"}}
  MaxFailures = 1
  None = None
CHECK_DEADLOCK FALSE
INVARIANTS
  TypeOK
  PendingIsCurrent
  StopsOnlyBehind
PROPERTIES
  VoteStands
  AnswerArrives
