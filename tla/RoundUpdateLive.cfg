SPECIFICATION RoundSpec
CONSTANTS
  v1 = v1
  v2 = v2
  k1 = k1
  Validators <- MCValidators
  Proofs <- MCProofs
  Keys = {k1}
  Hashes = {"none", "g", "e"}
  Metas = {"m"}
  MaxGov = 1
  Signers <- MCSigners
  QuorumSize <- MCQuorumSize
  IsGovernance = FALSE
  NoProof = NoProof
  NoTask = NoTask
  Genesis <- MCGenesis
  Event <- MCEvent
  OwnerKey = k1
  MaxLosses = 1
  MaxRestarts = 1
INVARIANTS
  HandedOverSigned
PROPERTY
  EventuallyValidated
