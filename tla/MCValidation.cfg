SPECIFICATION Spec
CONSTANTS
  v1 = v1
  v2 = v2
  v3 = v3
  k1 = k1
  k2 = k2
  Validators <- MCValidators
  Proofs <- MCProofs
  Keys = {k1, k2}
  Hashes = {"none", "g", "a1", "b1", "b2"}
  Metas = {"m"}
  MaxGov = 1
  Signers <- MCSigners
  QuorumSize <- MCQuorumSize
  IsGovernance = FALSE
  NoProof = NoProof
  NoTask = NoTask
INVARIANTS
  TypeOK
  OneEventPerSn
  NoFork
  CertifiedChain
  IndInv
SYMMETRY MCSymmetry
