-------------------------- MODULE ValidationProofs --------------------------
(***************************************************************************)
(* Safety of the validators for any set of them, any proofs an owner may   *)
(* present, any validators and quorums the versions of the governance      *)
(* name.  One inductive invariant, IndInv, carries the three results; the  *)
(* two about certified proofs also need quorums that intersect.            *)
(***************************************************************************)
EXTENDS Validation, FiniteSetTheorems, TLAPS

(* Initially nothing is registered, signed or being handled.               *)
LEMMA InitTypeOK == Init => TypeOK
  BY ConstantsAssumption DEF Init, TypeOK, Versions

(* Every step of a validator keeps the types of its state.                 *)
LEMMA NextTypeOK == TypeOK /\ [Next]_vars => TypeOK'
<1> SUFFICES ASSUME TypeOK, [Next]_vars PROVE TypeOK'
  OBVIOUS
<1> USE ConstantsAssumption DEF TypeOK, Versions, Tasks
<1>1. CASE UNCHANGED vars
  BY <1>1 DEF vars
<1>2. ASSUME NEW v \in Validators, ReadGovVersion(v) PROVE TypeOK'
  BY <1>2 DEF ReadGovVersion
<1>3. ASSUME NEW v \in Validators, NEW r \in Requests, RegisterProof(v, r)
      PROVE TypeOK'
  BY <1>3 DEF RegisterProof, Requests
<1>4. ASSUME NEW v \in Validators, RefuseProof(v) PROVE TypeOK'
  BY <1>4 DEF RefuseProof
<1>5. ASSUME NEW v \in Validators, SignAndRespond(v) PROVE TypeOK'
  <2>1. task[v].proof \in Proofs
    BY <1>5 DEF SignAndRespond
  <2>2. QED
    BY <1>5, <2>1 DEF SignAndRespond
<1>6. ASSUME NEW v \in Validators, Restart(v) PROVE TypeOK'
  BY <1>6 DEF Restart
<1>7. ASSUME NEW v \in Validators, GovernanceAdvances(v) PROVE TypeOK'
  BY <1>7 DEF GovernanceAdvances
<1>8. QED
  BY <1>1, <1>2, <1>3, <1>4, <1>5, <1>6, <1>7 DEF Next

(* The state of every reachable validator has its type (the register and   *)
(* the handler of validation.rs).                                          *)
THEOREM TypeCorrect == Spec => []TypeOK
<1>1. QED
  BY InitTypeOK, NextTypeOK, PTL DEF Spec

-----------------------------------------------------------------------------
(* What check_proofs guarantees of a proof it accepts, by the register it  *)
(* is compared with.                                                       *)
LEMMA AcceptedProof ==
  ASSUME NEW v \in Validators, NEW r \in Requests, TypeOK,
         CheckProofs(v, r), register[v] # NoProof
  PROVE  /\ register[v].sn <= r.proof.sn
         /\ r.proof.sn = register[v].sn => IsSimilar(register[v], r.proof)
         /\ r.proof.sn = register[v].sn + 1
              => r.proof.prev = register[v].event
<1>1. register[v] \in ProofFields /\ r.proof \in ProofFields
  BY ConstantsAssumption DEF TypeOK, Requests
<1>2. register[v].sn \in Nat /\ r.proof.sn \in Nat
  BY <1>1 DEF ProofFields
<1>3. CASE AcceptSameSn(v, r)
  <2>1. IsSimilar(register[v], r.proof)
    BY <1>3 DEF AcceptSameSn, IsSimilar
  <2>2. QED
    BY <1>2, <1>3, <2>1 DEF AcceptSameSn
<1>4. CASE AcceptNextSn(v, r)
  BY <1>2, <1>4 DEF AcceptNextSn, Follows
<1>5. CASE AcceptSkippedSn(v, r)
  BY <1>2, <1>5 DEF AcceptSkippedSn
<1>6. QED
  BY <1>3, <1>4, <1>5 DEF CheckProofs

(* IndInv is inductive.  Only registering and signing disturb it: the      *)
(* first by AcceptedProof, the second because the proof being signed is    *)
(* the registered one.                                                     *)
LEMMA NextIndInv == TypeOK /\ IndInv /\ [Next]_vars => IndInv'
<1> SUFFICES ASSUME TypeOK, IndInv, [Next]_vars PROVE IndInv'
  OBVIOUS
<1>0. TypeOK'
  BY NextTypeOK
<1>1. CASE UNCHANGED vars
  BY <1>1 DEF vars, IndInv, Votes
<1>2. ASSUME NEW v \in Validators, ReadGovVersion(v) PROVE IndInv'
  BY <1>2 DEF ReadGovVersion, IndInv, Votes, TypeOK
<1>3. ASSUME NEW v \in Validators, NEW r \in Requests, RegisterProof(v, r)
      PROVE IndInv'
  <2> SUFFICES ASSUME NEW w \in Validators PROVE IndInv!(w)'
    BY DEF IndInv
  <2>1. CASE w # v
    BY <1>3, <2>1 DEF RegisterProof, IndInv, Votes, TypeOK
  <2>2. CASE w = v
    <3>1. /\ register'[v] = r.proof /\ signed' = signed
          /\ task'[v].proof = r.proof /\ r.proof \in Proofs
      BY <1>3 DEF RegisterProof, TypeOK, Requests
    <3>2. r.proof # NoProof
      BY <3>1, ConstantsAssumption
    <3>3. \A p \in signed[v] \cup {r.proof} \cup {register[v]} :
            p # NoProof => p.sn \in Nat
      BY <3>1, ConstantsAssumption DEF TypeOK, ProofFields
    <3>4. CASE register[v] = NoProof
      <4>1. signed[v] = {}
        BY <3>4 DEF IndInv
      <4>2. Votes(v)' = {r.proof}
        BY <3>1, <3>2, <4>1 DEF Votes
      <4>3. QED
        BY <2>2, <3>1, <3>2, <3>3, <4>1, <4>2 DEF IsSimilar
    <3>5. CASE register[v] # NoProof
      <4>1. /\ register[v].sn <= r.proof.sn
            /\ r.proof.sn = register[v].sn => IsSimilar(register[v], r.proof)
            /\ r.proof.sn = register[v].sn + 1
                 => r.proof.prev = register[v].event
        BY <1>3, <3>5, AcceptedProof DEF RegisterProof
      <4>2. \A p \in signed[v] :
              p.sn <= register[v].sn /\ p.sn \in Nat /\ p \in Votes(v)
        BY <3>3, <3>5, ConstantsAssumption DEF IndInv, Votes, TypeOK
      <4>3. register[v] \in Votes(v)
        BY <3>5 DEF Votes
      <4>4. \A p \in signed[v] : p.sn = r.proof.sn => IsSimilar(p, r.proof)
        BY <3>3, <3>5, <4>1, <4>2, <4>3 DEF IndInv, IsSimilar
      <4>5. \A p \in signed[v] :
              r.proof.sn = p.sn + 1 => r.proof.prev = p.event
        <5> SUFFICES ASSUME NEW p \in signed[v], r.proof.sn = p.sn + 1
                     PROVE  r.proof.prev = p.event
          OBVIOUS
        <5>1. CASE register[v].sn = r.proof.sn
          BY <4>1, <4>2, <4>3, <5>1 DEF IndInv, IsSimilar
        <5>2. CASE register[v].sn + 1 = r.proof.sn
          BY <3>3, <3>5, <4>1, <4>2, <4>3, <5>2 DEF IndInv, IsSimilar
        <5>3. QED
          BY <3>3, <3>5, <4>1, <4>2, <5>1, <5>2
      <4>6. \A p \in signed[v] : p.sn # r.proof.sn + 1
        BY <3>2, <3>3, <3>5, <4>1, <4>2
      <4>7. Votes(v)' = signed[v] \cup {r.proof}
        BY <3>1, <3>2 DEF Votes
      <4>8. \A p \in signed[v] : p.sn <= r.proof.sn
        BY <3>2, <3>3, <3>5, <4>1, <4>2
      <4>9. \A p, q \in Votes(v)' : p.sn = q.sn => IsSimilar(p, q)
        BY <4>4, <4>7 DEF IndInv, Votes, IsSimilar
      <4>10. \A p, q \in Votes(v)' : q.sn = p.sn + 1 => q.prev = p.event
        BY <3>1, <3>3, <3>2, <4>2, <4>5, <4>6, <4>7 DEF IndInv
      <4>11. QED
        BY <2>2, <3>1, <3>2, <4>8, <4>9, <4>10
    <3>6. QED
      BY <3>4, <3>5
  <2>3. QED
    BY <2>1, <2>2
<1>4. ASSUME NEW v \in Validators, RefuseProof(v) PROVE IndInv'
  BY <1>4 DEF RefuseProof, IndInv, Votes, TypeOK
<1>5. ASSUME NEW v \in Validators, SignAndRespond(v) PROVE IndInv'
  <2>1. task[v].proof \in Proofs /\ register[v] = task[v].proof
    BY <1>5 DEF SignAndRespond, IndInv, TypeOK, Tasks
  <2>2. register[v] # NoProof /\ register[v].sn \in Nat
    BY <2>1, ConstantsAssumption DEF ProofFields
  <2>3. register' = register
    BY <1>5 DEF SignAndRespond
  <2>4. \A w \in Validators : Votes(w)' = Votes(w)
    BY <1>5, <2>1, <2>2 DEF SignAndRespond, Votes, TypeOK
  <2>5. \A w \in Validators : \A p \in signed'[w] :
          register[w] # NoProof /\ p.sn <= register[w].sn
    BY <1>5, <2>1, <2>2 DEF SignAndRespond, IndInv, TypeOK
  <2>6. \A w \in Validators :
          task'[w] # NoTask /\ task'[w].stage = "registered"
            => register[w] = task'[w].proof
    BY <1>5 DEF SignAndRespond, IndInv, TypeOK
  <2>7. QED
    BY <2>3, <2>4, <2>5, <2>6 DEF IndInv
<1>6. ASSUME NEW v \in Validators, Restart(v) PROVE IndInv'
  BY <1>6 DEF Restart, IndInv, Votes, TypeOK
<1>7. ASSUME NEW v \in Validators, GovernanceAdvances(v) PROVE IndInv'
  BY <1>7 DEF GovernanceAdvances, IndInv, Votes, TypeOK
<1>8. QED
  BY <1>1, <1>2, <1>3, <1>4, <1>5, <1>6, <1>7 DEF Next

(* The votes of every reachable validator agree and are linked, and its    *)
(* register is never behind a signature it sent (validation.rs             *)
(* validation_event writes the register first).                            *)
THEOREM IndInvHolds == Spec => []IndInv
<1>1. Init => IndInv
  BY DEF Init, IndInv, Votes
<1>2. QED
  BY <1>1, NextIndInv, TypeCorrect, PTL DEF Spec

(* No validator signs two different events for one sequence number         *)
(* (validation.rs check_proofs).                                           *)
THEOREM OneEventPerSnHolds == Spec => []OneEventPerSn
<1>1. IndInv => OneEventPerSn
  BY DEF IndInv, OneEventPerSn, Votes
<1>2. QED
  BY <1>1, IndInvHolds, PTL

(* Two certified proofs were signed by a common validator.                 *)
LEMMA CommonSigner ==
  ASSUME TypeOK, QuorumsIntersect,
         NEW p \in Proofs, NEW q \in Proofs, Certified(p), Certified(q)
  PROVE  \E v \in Validators : p \in signed[v] /\ q \in signed[v]
<1>1. p.gov \in Versions /\ q.gov \in Versions
  BY ConstantsAssumption DEF ProofFields
<1>2. PICK S \in SUBSET Signers[p.gov] :
        /\ Cardinality(S) >= QuorumSize[p.gov]
        /\ \A v \in S : p \in signed[v]
  BY DEF Certified
<1>3. PICK T \in SUBSET Signers[q.gov] :
        /\ Cardinality(T) >= QuorumSize[q.gov]
        /\ \A v \in T : q \in signed[v]
  BY DEF Certified
<1>4. PICK v \in S \cap T : TRUE
  BY <1>1, <1>2, <1>3 DEF QuorumsIntersect
<1>5. v \in Validators
  BY <1>1, <1>2, <1>4, ConstantsAssumption
<1>6. QED
  BY <1>2, <1>3, <1>4, <1>5

(* When quorums intersect the chain of a subject cannot fork, whatever its *)
(* owner presents to the validators (validation.rs validation_event).      *)
THEOREM NoForkHolds ==
  ASSUME QuorumsIntersect
  PROVE  Spec => []NoFork
<1>1. TypeOK /\ OneEventPerSn => NoFork
  BY CommonSigner DEF NoFork, OneEventPerSn
<1>2. QED
  BY <1>1, TypeCorrect, OneEventPerSnHolds, PTL

(* When quorums intersect every certified event points at the certified    *)
(* event before it (validation.rs validate_previous_proof).                *)
THEOREM CertifiedChainHolds ==
  ASSUME QuorumsIntersect
  PROVE  Spec => []CertifiedChain
<1>1. TypeOK /\ IndInv => CertifiedChain
  <2> SUFFICES ASSUME TypeOK, IndInv, NEW p \in Proofs, NEW q \in Proofs,
                      Certified(p), Certified(q), q.sn = p.sn + 1
               PROVE  q.prev = p.event
    BY DEF CertifiedChain
  <2>1. PICK v \in Validators : p \in signed[v] /\ q \in signed[v]
    BY CommonSigner
  <2>2. QED
    BY <2>1 DEF IndInv, Votes
<1>2. QED
  BY <1>1, TypeCorrect, IndInvHolds, PTL

(* The default policy with validators that stay: the quorum of every       *)
(* version is more than half of one set of validators.                     *)
MajorityOf(V) ==
  \A g \in Versions : Signers[g] = V /\ QuorumSize[g] = Cardinality(V) \div 2 + 1

(* A version may also change the validators: quorums intersect as long as  *)
(* two of them cannot both fit into the validators of their versions.      *)
LEMMA LargeQuorumsIntersect ==
  ASSUME \A g, h \in Versions :
           QuorumSize[g] + QuorumSize[h] > Cardinality(Signers[g] \cup Signers[h])
  PROVE  QuorumsIntersect
<1> SUFFICES ASSUME NEW g \in Versions, NEW h \in Versions,
                    NEW S \in SUBSET Signers[g], NEW T \in SUBSET Signers[h],
                    Cardinality(S) >= QuorumSize[g], Cardinality(T) >= QuorumSize[h]
             PROVE  S \cap T # {}
  BY DEF QuorumsIntersect
<1> DEFINE U == Signers[g] \cup Signers[h]
<1>1. QuorumSize[g] \in Nat /\ QuorumSize[h] \in Nat /\ U \subseteq Validators
  BY ConstantsAssumption
<1>2. IsFiniteSet(U) /\ S \subseteq U /\ T \subseteq U
  BY <1>1, ConstantsAssumption, FS_Subset
<1>3. IsFiniteSet(S) /\ IsFiniteSet(T)
  BY <1>2, FS_Subset
<1>4. /\ Cardinality(S) \in Nat /\ Cardinality(T) \in Nat /\ Cardinality(U) \in Nat
      /\ QuorumSize[g] + QuorumSize[h] > Cardinality(U)
  BY <1>2, <1>3, FS_CardinalityType
<1>5. Cardinality(S) + Cardinality(T) > Cardinality(U)
  BY <1>1, <1>4
<1>6. QED
  BY <1>2, <1>5, FS_MajoritiesIntersect

(* No fork under the policy a governance starts with (MAJORITY, see        *)
(* governance/inner_governance.rs get_quorum) while the validators stay,   *)
(* for any number of them: NoForkHolds applies to the quorums the code     *)
(* computes.                                                               *)
THEOREM MajorityNoFork ==
  ASSUME NEW V, MajorityOf(V)
  PROVE  Spec => []NoFork
<1>1. ASSUME NEW g \in Versions, NEW h \in Versions
      PROVE  QuorumSize[g] + QuorumSize[h] > Cardinality(Signers[g] \cup Signers[h])
  <2>1. Signers[g] = V /\ Signers[h] = V /\ V \subseteq Validators
    BY ConstantsAssumption DEF MajorityOf
  <2>2. Signers[g] \cup Signers[h] = V
    BY <2>1
  <2>3. IsFiniteSet(V)
    BY <2>1, ConstantsAssumption, FS_Subset
  <2>4. Cardinality(V) \in Nat
    BY <2>3, FS_CardinalityType
  <2>5. /\ QuorumSize[g] = Cardinality(V) \div 2 + 1
        /\ QuorumSize[h] = Cardinality(V) \div 2 + 1
    BY DEF MajorityOf
  <2>6. \A n \in Nat : (n \div 2 + 1) + (n \div 2 + 1) > n
    OBVIOUS
  <2>7. QED
    BY <2>2, <2>4, <2>5, <2>6
<1>2. QuorumsIntersect
  BY <1>1, LargeQuorumsIntersect
<1>3. QED
  BY <1>2, NoForkHolds
=============================================================================
