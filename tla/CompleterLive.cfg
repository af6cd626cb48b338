SPECIFICATION LiveSpec
CONSTANTS
  n1 = n1
  n2 = n2
  n3 = n3
  f1 = f1
  f2 = f2
  t1 = t1
  c1 = c1
  Requests = {f1, f2}
  Nodes = {n1, n2, n3}
  Own = {f1}
  Verdicts <- AnyVerdict
  MaxGov = 0
  Permitted <- MCPermitted
  MaxCrashes = 1
  Kind <- MCKind
  Effect <- MCEffect
  FirstState = "s"
  Signers <- MCSigners
  Quorum <- MCMajority
  None = None
CHECK_DEADLOCK FALSE
INVARIANTS
  OneSubmissionPerSn
  AcknowledgedNotLost
  CurrentSnIsCache
PROPERTIES
  ImplementsLog
  EventuallyApplied
