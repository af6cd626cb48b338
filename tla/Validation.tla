------------------------------ MODULE Validation ------------------------------
(***************************************************************************)
(* The validators of one subject (core/src/validation).                    *)
(*                                                                         *)
(* A validator answers a ValidationEvent by counter-signing the proof of   *)
(* an event.  All it remembers of the subject is its validation register,  *)
(* the last proof it accepted, kept in its database.  The requests are     *)
(* adversarial: the owner of the subject may present any proof, with any   *)
(* claimed previous proof and any set of signatures that really exist, and *)
(* it may do so again and again.  A validator handles one request at a     *)
(* time, but awaits the governance module inside the handler, can crash    *)
(* between its steps, and its governance is moved on by the ledger         *)
(* meanwhile.                                                              *)
(*                                                                         *)
(* Abstractions.  Every register, lookup and check is keyed by the subject *)
(* identifier, so one subject is modelled.  A hash is an element of        *)
(* Hashes.  A signature is a pair (signer, signed content) that exists     *)
(* only once its signer has made it.  The fields of a proof that nothing   *)
(* but equality looks at (governance, schema, namespace, name) are one     *)
(* field, meta.                                                            *)
(***************************************************************************)
EXTENDS Integers, FiniteSets

CONSTANTS
  Validators,    \* nodes that may validate the subject in some version
  Proofs,        \* the validation proofs an owner may present
  Keys,          \* keys that may sign for the subject
  Hashes,        \* event hashes, NoHash included
  Metas,         \* values of the descriptive fields of a proof
  MaxGov,        \* bound on the version the governance reaches
  Signers,       \* Signers[g]: the validators that version g names
  QuorumSize,    \* QuorumSize[g]: the signatures that version g requires
  IsGovernance,  \* is the subject itself a governance?
  NoProof,       \* no entry in the validation register, no previous proof
  NoTask         \* no request being handled

Versions == 0 .. MaxGov

\* The fields of ValidationProof.
ProofFields ==
  [sn : Nat, prev : Hashes, event : Hashes, key : Keys,
   gov : Versions, genesis : Versions, meta : Metas]

ASSUME ConstantsAssumption ==
  /\ MaxGov \in Nat
  /\ IsFiniteSet(Validators)
  /\ Proofs \subseteq ProofFields
  /\ Signers \in [Versions -> SUBSET Validators]
  /\ QuorumSize \in [Versions -> Nat]
  /\ IsGovernance \in BOOLEAN
  /\ NoProof \notin Proofs

VARIABLES
  gov,       \* gov[v]: version of the governance in v's ledger
  register,  \* register[v]: the validation register of v (database)
  signed,    \* signed[v]: proofs whose signature v has sent out
  task       \* task[v]: how far v is with the request it handles (memory)

vars == <<gov, register, signed, task>>

(* The fields of ValidationEvent, but for the signatures of the previous   *)
(* proof, which are whatever SignaturesReachQuorum finds.                  *)
Requests == [proof : Proofs, prev : Proofs \cup {NoProof}, signer : Keys]

-----------------------------------------------------------------------------
(* ValidationProof::is_similar: equal but for the governance version.      *)
IsSimilar(p, q) ==
  /\ p.sn = q.sn
  /\ p.prev = q.prev
  /\ p.event = q.event
  /\ p.key = q.key
  /\ p.genesis = q.genesis
  /\ p.meta = q.meta

\* Mutant: the hash of the previous event is not compared.
FollowsAnyHash(new, prev) ==
  /\ prev.sn + 1 = new.sn
  /\ prev.genesis = new.genesis
  /\ prev.meta = new.meta

(* The part of validate_previous_proof that links a proof to the previous  *)
(* one.                                                                    *)
Follows(new, prev) ==
  /\ prev.event = new.prev
  /\ prev.sn + 1 = new.sn
  /\ prev.genesis = new.genesis
  /\ prev.meta = new.meta

(* The part of validate_previous_proof that counts signatures: the owner   *)
(* shows any that exist, they come from validators of the version the      *)
(* previous proof names, and they reach its quorum.  get_signers fails for *)
(* a version the node has not reached.                                     *)
SignaturesReachQuorum(v, prev) ==
  /\ prev.gov <= gov[v]
  /\ \E sigs \in SUBSET {s \in Validators : prev \in signed[s]} :
       /\ sigs \subseteq Signers[prev.gov]
       /\ Cardinality(sigs) >= QuorumSize[prev.gov]

(* check_proofs, no register entry: the request must carry the history.    *)
AcceptUnregistered(v, r) ==
  IF r.proof.sn = 0
  THEN /\ r.proof.gov = r.proof.genesis
       /\ r.signer = r.proof.key
  ELSE /\ r.prev # NoProof
       /\ Follows(r.proof, r.prev)
       /\ SignaturesReachQuorum(v, r.prev)
       /\ r.signer = r.prev.key

\* Mutant: another event at the registered sequence number is accepted.
AcceptRivalSameSn(v, r) ==
  /\ r.proof.sn = register[v].sn
  /\ r.signer = register[v].key

(* check_proofs, same sequence number as the register: only the governance *)
(* version may change, and nothing at all in a genesis proof.              *)
AcceptSameSn(v, r) ==
  /\ r.proof.sn = register[v].sn
  /\ IF r.proof.sn = 0 THEN r.proof = register[v]
                       ELSE IsSimilar(register[v], r.proof)
  /\ r.signer = register[v].key

(* check_proofs, the next sequence number: the claimed previous proof must *)
(* be the registered one, and the link is checked against the register.    *)
AcceptNextSn(v, r) ==
  /\ register[v].sn + 1 = r.proof.sn
  /\ r.prev # NoProof
  /\ IsSimilar(register[v], r.prev)
  /\ Follows(r.proof, register[v])
  /\ r.signer = register[v].key

\* Mutant: an older sequence number than the registered one is not refused.
AcceptOlderSn(v, r) ==
  /\ register[v].sn + 1 # r.proof.sn
  /\ r.prev # NoProof
  /\ Follows(r.proof, r.prev)
  /\ SignaturesReachQuorum(v, r.prev)
  /\ r.signer = r.prev.key

(* check_proofs, the register is further behind: as if it were empty.      *)
AcceptSkippedSn(v, r) ==
  /\ register[v].sn + 1 < r.proof.sn
  /\ r.prev # NoProof
  /\ Follows(r.proof, r.prev)
  /\ SignaturesReachQuorum(v, r.prev)
  /\ r.signer = r.prev.key

(* check_proofs together with the comparison of the subject's signer with  *)
(* the key check_proofs returns.                                           *)
CheckProofs(v, r) ==
  IF register[v] = NoProof
  THEN AcceptUnregistered(v, r)
  ELSE AcceptSameSn(v, r) \/ AcceptNextSn(v, r) \/ AcceptSkippedSn(v, r)

(* v is handling a request and knows the version of its governance.        *)
Reading(v) == task[v] # NoTask /\ task[v].stage = "version"

(* The governance version validation_event compares with: the genesis      *)
(* event of a governance is validated before any version of it exists.     *)
ActualGovVersion(v, p) ==
  IF IsGovernance /\ p.sn = 0 THEN 0 ELSE task[v].version

-----------------------------------------------------------------------------
Init ==
  /\ gov = [v \in Validators |-> 0]
  /\ register = [v \in Validators |-> NoProof]
  /\ signed = [v \in Validators |-> {}]
  /\ task = [v \in Validators |-> NoTask]

(* validation_event asks the governance module for the version in force,   *)
(* and awaits the answer.  A node that does not know the governance        *)
(* refuses every request; it takes part once its ledger has it.            *)
ReadGovVersion(v) ==
  /\ task[v] = NoTask
  /\ task' = [task EXCEPT ![v] = [stage |-> "version", version |-> gov[v]]]
  /\ UNCHANGED <<gov, register, signed>>

\* Mutant: the previous proof is registered and signed instead.
RegisterPreviousProof(v, r) ==
  /\ Reading(v)
  /\ ActualGovVersion(v, r.proof) = r.proof.gov
  /\ CheckProofs(v, r)
  /\ register' = [register EXCEPT ![v] = r.prev]
  /\ task' = [task EXCEPT ![v] = [stage |-> "registered", proof |-> r.prev]]
  /\ UNCHANGED <<gov, signed>>

\* Mutant: the register is not saved.
AcceptWithoutRegister(v, r) ==
  /\ Reading(v)
  /\ ActualGovVersion(v, r.proof) = r.proof.gov
  /\ CheckProofs(v, r)
  /\ task' = [task EXCEPT ![v] = [stage |-> "registered", proof |-> r.proof]]
  /\ UNCHANGED <<gov, register, signed>>

(* The versions are equal and check_proofs accepts: the proof replaces the *)
(* register.                                                               *)
RegisterProof(v, r) ==
  /\ Reading(v)
  /\ ActualGovVersion(v, r.proof) = r.proof.gov
  /\ CheckProofs(v, r)
  /\ register' = [register EXCEPT ![v] = r.proof]
  /\ task' = [task EXCEPT ![v] = [stage |-> "registered", proof |-> r.proof]]
  /\ UNCHANGED <<gov, signed>>

(* The proof names another version, the subject's signature does not       *)
(* verify, or check_proofs returns an error: the handler returns and the   *)
(* node is as before.  Some request always fails, so nothing is asked of   *)
(* the state.  The HigherGovernanceExpected message that answers an        *)
(* outdated version is in ValidationRound, where its receiver is.          *)
RefuseProof(v) ==
  /\ Reading(v)
  /\ task' = [task EXCEPT ![v] = NoTask]
  /\ UNCHANGED <<gov, register, signed>>

(* The signature is made and the ValidatorResponse sent.                   *)
SignAndRespond(v) ==
  /\ task[v] # NoTask
  /\ task[v].stage = "registered"
  /\ signed' = [signed EXCEPT ![v] = @ \cup {task[v].proof}]
  /\ task' = [task EXCEPT ![v] = NoTask]
  /\ UNCHANGED <<gov, register>>

(* The node stops and starts again: the register survives, the request     *)
(* being handled does not.                                                 *)
Restart(v) ==
  /\ task[v] # NoTask
  /\ task' = [task EXCEPT ![v] = NoTask]
  /\ UNCHANGED <<gov, register, signed>>

(* The ledger of v stores the next event of the governance.                *)
GovernanceAdvances(v) ==
  /\ gov[v] < MaxGov
  /\ gov' = [gov EXCEPT ![v] = @ + 1]
  /\ UNCHANGED <<register, signed, task>>

Next ==
  \E v \in Validators :
    \/ ReadGovVersion(v)
    \/ \E r \in Requests : RegisterProof(v, r)
    \/ RefuseProof(v)
    \/ SignAndRespond(v)
    \/ Restart(v)
    \/ GovernanceAdvances(v)

Spec == Init /\ [][Next]_vars

-----------------------------------------------------------------------------
Tasks == [stage : {"version"}, version : Versions]
           \cup [stage : {"registered"}, proof : Proofs]

(* Types: the register and the signatures hold proofs, and a request being *)
(* handled is one of the two stages of the handler.                        *)
TypeOK ==
  /\ gov \in [Validators -> Versions]
  /\ register \in [Validators -> Proofs \cup {NoProof}]
  /\ signed \in [Validators -> SUBSET Proofs]
  /\ task \in [Validators -> Tasks \cup {NoTask}]

(* A validator never puts its signature under two different events of the  *)
(* same sequence number: whatever it is asked, however often it restarts   *)
(* and whatever its governance does, two proofs it signed for one sequence *)
(* number differ in the governance version only (validation.rs check_proofs). *)
OneEventPerSn ==
  \A v \in Validators : \A p, q \in signed[v] :
    p.sn = q.sn => IsSimilar(p, q)

(* A quorum of validators of the version it names has signed the proof:    *)
(* what every other node accepts as the validation of an event.            *)
Certified(p) ==
  \E S \in SUBSET Signers[p.gov] :
    /\ Cardinality(S) >= QuorumSize[p.gov]
    /\ \A v \in S : p \in signed[v]

(* Any two quorums share a validator, also of different versions: true of  *)
(* MAJORITY with the same validators, not of every FIXED quorum.           *)
QuorumsIntersect ==
  \A g, h \in Versions :
    \A S \in SUBSET Signers[g], T \in SUBSET Signers[h] :
      Cardinality(S) >= QuorumSize[g] /\ Cardinality(T) >= QuorumSize[h]
        => S \cap T # {}

(* The chain of a subject cannot fork: two certified proofs of one         *)
(* sequence number are about the same event, however the owner             *)
(* equivocates (validation.rs validation_event).                           *)
NoFork ==
  \A p, q \in Proofs :
    Certified(p) /\ Certified(q) /\ p.sn = q.sn => IsSimilar(p, q)

(* Certified events form one hash chain: a certified event points at the   *)
(* certified event before it, even when some validators missed that one    *)
(* and accepted the next on the strength of the signatures they were shown *)
(* (validation.rs validate_previous_proof).                                *)
CertifiedChain ==
  \A p, q \in Proofs :
    Certified(p) /\ Certified(q) /\ q.sn = p.sn + 1 => q.prev = p.event

-----------------------------------------------------------------------------
(* What a validator is bound by: what it signed, and what it registered    *)
(* and may still sign.                                                     *)
Votes(v) == signed[v] \cup ({register[v]} \ {NoProof})

(* The strengthening under which the safety of a validator is inductive.   *)
(* The register is written before the signature is made, so it is never    *)
(* behind a signature; the votes of a validator agree on every sequence    *)
(* number and are linked by their hashes.                                  *)
IndInv ==
  \A v \in Validators :
    /\ task[v] # NoTask /\ task[v].stage = "registered"
         => register[v] = task[v].proof
    /\ \A p \in signed[v] : register[v] # NoProof /\ p.sn <= register[v].sn
    /\ \A p, q \in Votes(v) : p.sn = q.sn => IsSimilar(p, q)
    /\ \A p, q \in Votes(v) : q.sn = p.sn + 1 => q.prev = p.event

=============================================================================
