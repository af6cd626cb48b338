------------------------ MODULE ValidationRoundProofs ------------------------
(***************************************************************************)
(* Safety of a validation round for any number of validators, versions of  *)
(* the governance, lost answers and restarts, and validators that change   *)
(* from one version to the next.  A step of the round is a step of module  *)
(* Validation or none, so what ValidationProofs says of every step carries *)
(* over; what the owner collects needs an invariant of its own, RoundInv.  *)
(***************************************************************************)
EXTENDS ValidationRound, ValidationProofs

(* The validators of a round behave as those of Validation.                *)
LEMMA RoundStep == [RoundNext]_allVars => [Next]_vars
<1> SUFFICES ASSUME [RoundNext]_allVars PROVE [Next]_vars
  OBVIOUS
<1>1. CASE UNCHANGED allVars
  BY <1>1 DEF allVars
<1>2. ASSUME NEW v \in Validators, NEW p \in Proofs, HandleRequest(v, p)
      PROVE  [Next]_vars
  <2>1. Request(p) \in Requests
    BY RoundAssumption DEF Request, Requests
  <2>2. QED
    BY <1>2, <2>1 DEF HandleRequest, Next
<1>3. ASSUME NEW v \in Validators,
             \/ StartHandling(v) \/ Respond(v)
             \/ ValidatorLearnsGovernance(v) \/ ValidatorRestart(v)
      PROVE  [Next]_vars
  BY <1>3 DEF StartHandling, Respond, ValidatorLearnsGovernance, ValidatorRestart, Next
<1>4. CASE OwnerLearnsGovernance \/ NewGovernanceVersion \/ OwnerRestart \/ Finished
  BY <1>4 DEF OwnerLearnsGovernance, NewGovernanceVersion, OwnerRestart, Finished, allVars
<1>5. ASSUME NEW m \in responses, IgnoreResponse(m) \/ AcceptResponse(m)
      PROVE  [Next]_vars
  BY <1>5 DEF IgnoreResponse, AcceptResponse
<1>6. QED
  BY <1>1, <1>2, <1>3, <1>4, <1>5 DEF RoundNext

(* A round starts from validators in a state that Validation can reach.    *)
LEMMA RoundStart == RoundInit => TypeOK /\ IndInv
<1> SUFFICES ASSUME RoundInit PROVE TypeOK /\ IndInv
  OBVIOUS
<1>1. Genesis \in Proofs /\ Genesis.sn \in Nat /\ Genesis # NoProof
  BY RoundAssumption, ConstantsAssumption DEF ProofFields
<1>2. TypeOK
  BY <1>1, ConstantsAssumption DEF RoundInit, TypeOK, Versions
<1>3. IndInv
  BY <1>1 DEF RoundInit, IndInv, Votes, IsSimilar
<1>4. QED
  BY <1>2, <1>3

(* A signature a validator has made stays made.                            *)
LEMMA SignaturesStay ==
  ASSUME TypeOK, [Next]_vars
  PROVE  \A v \in Validators : signed[v] \subseteq signed'[v]
<1>1. CASE UNCHANGED vars
  BY <1>1 DEF vars
<1>2. ASSUME NEW v \in Validators, SignAndRespond(v)
      PROVE  \A w \in Validators : signed[w] \subseteq signed'[w]
  BY <1>2 DEF SignAndRespond, TypeOK
<1>3. ASSUME UNCHANGED signed
      PROVE  \A w \in Validators : signed[w] \subseteq signed'[w]
  BY <1>3
<1>4. QED
  BY <1>1, <1>2, <1>3 DEF Next, ReadGovVersion, RegisterProof, RefuseProof, Restart,
     GovernanceAdvances

-----------------------------------------------------------------------------
(* What the owner knows: the version it was notified of, and with it the   *)
(* proof being validated and the validators that are still to be heard.    *)
OwnerInv ==
  /\ ownerGov \in Versions
  /\ notified \in 0 .. ownerGov
  /\ current = Event[notified]
  /\ remaining \subseteq Signers[notified]

(* An answer on its way carries a signature its sender has made.           *)
ResponsesInv ==
  \A m \in responses :
    /\ m.from \in Validators
    /\ m.proof \in signed[m.from]

(* A signature the owner has collected was made by a validator of the      *)
(* version it was made for, one the owner has been notified of.            *)
CollectedInv ==
  \A v \in DOMAIN validations :
    /\ v \in Validators
    /\ validations[v] \in signed[v]
    /\ \E g \in 0 .. notified : validations[v] = Event[g] /\ v \in Signers[g]

(* What was handed over was signed by validators.                          *)
HandedOverInv ==
  done # NoProof => DOMAIN done.sigs \subseteq Validators

RoundInv ==
  OwnerInv /\ ResponsesInv /\ CollectedInv /\ HandedOverInv /\ HandedOverSigned

(* The round starts with nothing collected.                                *)
LEMMA InitRoundInv == RoundInit => RoundInv
<1> SUFFICES ASSUME RoundInit PROVE RoundInv
  OBVIOUS
<1>1. 0 \in Versions
  BY ConstantsAssumption DEF Versions
<1>2. OwnerInv
  BY <1>1 DEF RoundInit, OwnerInv
<1>3. ResponsesInv /\ CollectedInv /\ HandedOverInv /\ HandedOverSigned
  BY DEF RoundInit, ResponsesInv, CollectedInv, HandedOverInv, HandedOverSigned
<1>4. QED
  BY <1>2, <1>3 DEF RoundInv

(* The versions up to the owner's are versions.                            *)
LEMMA EarlierVersions ==
  ASSUME OwnerInv
  PROVE  \A g \in 0 .. notified : g \in Versions
  BY ConstantsAssumption DEF OwnerInv, Versions

(* Whatever happens to the validators, what was signed remains signed.     *)
LEMMA SignedStays ==
  ASSUME TypeOK, RoundInv, [Next]_vars,
         UNCHANGED <<notified, validations, done>>
  PROVE  CollectedInv' /\ HandedOverInv' /\ HandedOverSigned'
<1>1. \A v \in Validators : signed[v] \subseteq signed'[v]
  BY SignaturesStay
<1>2. CollectedInv'
  BY <1>1 DEF RoundInv, CollectedInv
<1>3. HandedOverInv'
  BY DEF RoundInv, HandedOverInv
<1>4. HandedOverSigned'
  BY <1>1 DEF RoundInv, HandedOverInv, HandedOverSigned
<1>5. QED
  BY <1>2, <1>3, <1>4

(* A new version of the governance, by notification or at a restart of the *)
(* owner: the proof and the validators are those of the version.           *)
LEMMA VersionStep ==
  ASSUME TypeOK, RoundInv, NewGovernanceVersion \/ OwnerRestart
  PROVE  RoundInv'
<1>1. UNCHANGED <<signed, responses, done, ownerGov>>
  BY DEF NewGovernanceVersion, OwnerRestart, vars
<1>2. notified' \in 0 .. ownerGov /\ notified \in 0 .. notified'
  BY ConstantsAssumption DEF NewGovernanceVersion, OwnerRestart, RoundInv, OwnerInv, Versions
<1>3. OwnerInv'
  BY <1>1, <1>2 DEF NewGovernanceVersion, OwnerRestart, RoundInv, OwnerInv
<1>4. ResponsesInv' /\ HandedOverInv' /\ HandedOverSigned'
  BY <1>1 DEF RoundInv, ResponsesInv, HandedOverInv, HandedOverSigned
<1>5. CollectedInv'
  <2>1. CASE OwnerRestart
    BY <2>1 DEF OwnerRestart, CollectedInv
  <2>2. CASE NewGovernanceVersion
    <3>1. 0 .. notified \subseteq 0 .. notified'
      BY <1>2
    <3>2. UNCHANGED validations
      BY <2>2 DEF NewGovernanceVersion
    <3>3. QED
      BY <1>1, <3>1, <3>2 DEF RoundInv, CollectedInv
  <2>3. QED
    BY <2>1, <2>2
<1>6. QED
  BY <1>3, <1>4, <1>5 DEF RoundInv

(* The signatures with that of an accepted answer.                         *)
LEMMA Collected ==
  ASSUME TypeOK, RoundInv, NEW m \in responses,
         m.from \in remaining, m.proof = current
  PROVE  /\ DOMAIN WithValidation(m) \subseteq Validators
         /\ \A v \in DOMAIN WithValidation(m) :
              /\ WithValidation(m)[v] \in signed[v]
              /\ \E g \in 0 .. notified :
                   WithValidation(m)[v] = Event[g] /\ v \in Signers[g]
<1>1. DOMAIN WithValidation(m) = DOMAIN validations \cup {m.from}
  BY DEF WithValidation
<1>2. m.from \in Validators /\ m.proof \in signed[m.from]
  BY DEF RoundInv, ResponsesInv
<1>3. /\ notified \in 0 .. notified
      /\ m.proof = Event[notified] /\ m.from \in Signers[notified]
  BY ConstantsAssumption DEF RoundInv, OwnerInv, Versions
<1>4. ASSUME NEW v \in DOMAIN WithValidation(m)
      PROVE  /\ v \in Validators
             /\ WithValidation(m)[v] \in signed[v]
             /\ \E g \in 0 .. notified :
                  WithValidation(m)[v] = Event[g] /\ v \in Signers[g]
  <2>1. CASE v = m.from
    <3>1. WithValidation(m)[v] = m.proof
      BY <2>1 DEF WithValidation
    <3>2. QED
      BY <2>1, <3>1, <1>2, <1>3
  <2>2. CASE v # m.from
    <3>1. v \in DOMAIN validations /\ WithValidation(m)[v] = validations[v]
      BY <2>2, <1>1, <1>4 DEF WithValidation
    <3>2. QED
      BY <3>1 DEF RoundInv, CollectedInv
  <2>3. QED
    BY <2>1, <2>2
<1>5. QED
  BY <1>4

(* An answer is accepted: it is collected, or completes what is handed     *)
(* over, with the quorum of the version the proof names.                   *)
LEMMA AcceptStep ==
  ASSUME TypeOK, RoundInv, NEW m \in responses, AcceptResponse(m)
  PROVE  RoundInv'
<1> DEFINE W == WithValidation(m)
<1>1. /\ m.from \in remaining /\ m.proof = current
      /\ UNCHANGED <<signed, ownerGov, notified, current>>
      /\ responses' \subseteq responses
  BY DEF AcceptResponse, vars
<1>2. /\ DOMAIN W \subseteq Validators
      /\ \A v \in DOMAIN W :
           /\ W[v] \in signed[v]
           /\ \E g \in 0 .. notified : W[v] = Event[g] /\ v \in Signers[g]
  BY <1>1, Collected
<1>3. OwnerInv'
  BY <1>1 DEF AcceptResponse, RoundInv, OwnerInv
<1>4. ResponsesInv'
  BY <1>1 DEF RoundInv, ResponsesInv
<1> HIDE DEF W
<1>5. CASE QuorumReached(m)
  <2>1. /\ done' = [proof |-> current, sigs |-> W]
        /\ validations' = [v \in {} |-> NoProof]
    BY <1>5 DEF AcceptResponse, W
  <2>2. CollectedInv'
    BY <2>1 DEF CollectedInv
  <2>3. HandedOverInv'
    BY <2>1, <1>2 DEF HandedOverInv
  <2>4. /\ current = Event[notified] /\ notified \in Versions /\ current.gov = notified
    BY EarlierVersions, RoundAssumption, ConstantsAssumption DEF RoundInv, OwnerInv, Versions
  <2>5. Cardinality(DOMAIN W) >= QuorumSize[current.gov]
    BY <1>5, <2>4 DEF QuorumReached, W
  <2>6. ASSUME NEW v \in DOMAIN W
        PROVE  /\ W[v] \in signed[v]
               /\ v \in Signers[W[v].gov]
               /\ IsSimilar(W[v], current)
               /\ current.gov = 0 => W[v] = current
    <3>1. PICK g \in 0 .. notified : W[v] = Event[g] /\ v \in Signers[g]
      BY <1>2
    <3>2. g \in Versions
      BY EarlierVersions DEF RoundInv
    <3>3. W[v].gov = g /\ IsSimilar(W[v], current)
      BY <3>1, <3>2, <2>4, RoundAssumption
    <3>4. notified = 0 => g = 0
      OBVIOUS
    <3>5. QED
      BY <1>2, <3>1, <3>3, <3>4, <2>4
  <2>7. HandedOverSigned'
    BY <2>1, <2>5, <2>6, <1>1 DEF HandedOverSigned, IsSimilar
  <2>8. QED
    BY <1>3, <1>4, <2>2, <2>3, <2>7 DEF RoundInv
<1>6. CASE ~ QuorumReached(m)
  <2>1. validations' = W /\ UNCHANGED done
    BY <1>6 DEF AcceptResponse, W
  <2>2. CollectedInv'
    BY <2>1, <1>1, <1>2 DEF CollectedInv
  <2>3. HandedOverInv' /\ HandedOverSigned'
    BY <2>1, <1>1 DEF RoundInv, HandedOverInv, HandedOverSigned
  <2>4. QED
    BY <1>3, <1>4, <2>2, <2>3 DEF RoundInv
<1>7. QED
  BY <1>5, <1>6

(* Every step of a round keeps what the owner has collected.               *)
LEMMA NextRoundInv == TypeOK /\ RoundInv /\ [RoundNext]_allVars => RoundInv'
<1> SUFFICES ASSUME TypeOK, RoundInv, [RoundNext]_allVars PROVE RoundInv'
  OBVIOUS
<1>0. [Next]_vars
  BY RoundStep
<1>1. ASSUME UNCHANGED <<ownerVars, responses>> PROVE RoundInv'
  <2>1. CollectedInv' /\ HandedOverInv' /\ HandedOverSigned'
    BY <1>0, <1>1, SignedStays DEF ownerVars
  <2>2. OwnerInv'
    BY <1>1 DEF ownerVars, RoundInv, OwnerInv
  <2>3. ResponsesInv'
    BY <1>0, <1>1, SignaturesStay DEF RoundInv, ResponsesInv
  <2>4. QED
    BY <2>1, <2>2, <2>3 DEF RoundInv
<1>2. ASSUME NEW v \in Validators, Respond(v) PROVE RoundInv'
  <2>1. CollectedInv' /\ HandedOverInv' /\ HandedOverSigned'
    BY <1>0, <1>2, SignedStays DEF Respond, ownerVars
  <2>2. OwnerInv'
    BY <1>2 DEF Respond, ownerVars, RoundInv, OwnerInv
  <2>3. task[v].proof \in signed'[v]
    BY <1>2 DEF Respond, SignAndRespond, TypeOK
  <2>4. responses' \subseteq responses \cup {[from |-> v, proof |-> task[v].proof]}
    BY <1>2 DEF Respond
  <2>5. ResponsesInv'
    BY <1>0, <2>3, <2>4, SignaturesStay DEF RoundInv, ResponsesInv
  <2>6. QED
    BY <2>1, <2>2, <2>5 DEF RoundInv
<1>3. CASE OwnerLearnsGovernance
  <2>1. /\ ownerGov \in Nat /\ ownerGov' = ownerGov + 1 /\ ownerGov < MaxGov
        /\ UNCHANGED <<vars, notified, current, remaining, validations, done, responses>>
    BY <1>3, ConstantsAssumption
    DEF OwnerLearnsGovernance, netVars, RoundInv, OwnerInv, Versions
  <2>2. OwnerInv'
    BY <2>1, ConstantsAssumption DEF RoundInv, OwnerInv, Versions
  <2>3. CollectedInv' /\ HandedOverInv' /\ HandedOverSigned' /\ ResponsesInv'
    BY <2>1 DEF vars, RoundInv, CollectedInv, HandedOverInv, HandedOverSigned, ResponsesInv
  <2>4. QED
    BY <2>2, <2>3 DEF RoundInv
<1>4. CASE NewGovernanceVersion \/ OwnerRestart
  BY <1>4, VersionStep
<1>5. ASSUME NEW m \in responses, IgnoreResponse(m) PROVE RoundInv'
  BY <1>5 DEF IgnoreResponse, ownerVars, vars, RoundInv, OwnerInv, ResponsesInv,
     CollectedInv, HandedOverInv, HandedOverSigned
<1>6. ASSUME NEW m \in responses, AcceptResponse(m) PROVE RoundInv'
  BY <1>6, AcceptStep
<1>7. ASSUME NEW v \in Validators, ValidatorRestart(v) PROVE RoundInv'
  BY <1>7 DEF ValidatorRestart, Restart, netVars, RoundInv, OwnerInv, ResponsesInv,
     CollectedInv, HandedOverInv, HandedOverSigned
<1>8. CASE UNCHANGED allVars \/ Finished
  BY <1>1, <1>8 DEF Finished, allVars, netVars
<1>9. QED
  BY <1>1, <1>2, <1>3, <1>4, <1>5, <1>6, <1>7, <1>8
  DEF RoundNext, StartHandling, HandleRequest, ValidatorLearnsGovernance, netVars

-----------------------------------------------------------------------------
(* What the validation stage of the owner hands to its ledger was signed,  *)
(* for this event, by as many validators as the version in force requires, *)
(* each one named by the version it signed for, whatever is lost, repeated *)
(* or restarted and however often the governance changes                   *)
(* (event_completer.rs validation_signatures).                             *)
THEOREM HandedOverSignedHolds == RoundSpec => []HandedOverSigned
<1>1. RoundInit => TypeOK /\ RoundInv
  BY RoundStart, InitRoundInv
<1>2. TypeOK /\ RoundInv /\ [RoundNext]_allVars => TypeOK' /\ RoundInv'
  BY RoundStep, NextTypeOK, NextRoundInv
<1>3. RoundInv => HandedOverSigned
  BY DEF RoundInv
<1>4. QED
  BY <1>1, <1>2, <1>3, PTL DEF RoundSpec

(* The validators of a round still never sign two events for one sequence  *)
(* number: the guarantee of validation.rs check_proofs holds in the        *)
(* composition, which starts from a registered genesis event.              *)
THEOREM RoundOneEventPerSn == RoundSpec => []OneEventPerSn
<1>1. RoundInit => TypeOK /\ IndInv
  BY RoundStart
<1>2. TypeOK /\ IndInv /\ [RoundNext]_allVars => TypeOK' /\ IndInv'
  BY RoundStep, NextTypeOK, NextIndInv
<1>3. IndInv => OneEventPerSn
  BY DEF IndInv, OneEventPerSn, Votes
<1>4. QED
  BY <1>1, <1>2, <1>3, PTL DEF RoundSpec
=============================================================================
