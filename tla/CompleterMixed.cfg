SPECIFICATION Spec
CONSTANTS
  n1 = n1
  n2 = n2
  n3 = n3
  f1 = f1
  f2 = f2
  t1 = t1
  c1 = c1
  Requests = {f1, f2, t1, c1}
  Nodes = {n1, n2}
  Own = {f1, c1}
  Verdicts <- AnyVerdict
  MaxGov = 1
  Permitted <- MCRevoked
  MaxCrashes = 1
  Kind <- MCKind
  Effect <- MCEffect
  FirstState = "s"
  Signers <- MCFewerEvaluators
  Quorum <- MCMajorities
  None = None
CHECK_DEADLOCK FALSE
INVARIANTS
  TypeOK
  StageIsPersisted
  EvaluatedByQuorum
  FailsOnlyAfterStoring
