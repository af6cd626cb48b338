--------------------------- MODULE ValidationRound ---------------------------
(***************************************************************************)
(* One event of a subject on its way through validation: the validating    *)
(* stage of its owner's EventCompleter composed with the validators of     *)
(* module Validation, over a network that may lose answers, while the      *)
(* governance of every node moves on.                                      *)
(*                                                                         *)
(* The event has sequence number 1; the genesis event is certified and     *)
(* registered by every validator.  The owner is honest.  Its request is    *)
(* resent by an indefinite message task until that is replaced, so a       *)
(* request that was ever sent may be handled at any later time, and again. *)
(***************************************************************************)
EXTENDS Validation

CONSTANTS
  Genesis,      \* the proof of the genesis event
  Event,        \* Event[g]: the proof of the event under version g
  OwnerKey,     \* the key the owner signs with
  MaxLosses,    \* bound on the answers the network loses
  MaxRestarts   \* bound on the restarts of nodes, owner and validators

ASSUME RoundAssumption ==
  /\ Genesis \in Proofs
  /\ Event \in [Versions -> Proofs]
  /\ \A g \in Versions : Event[g].gov = g /\ Event[g].sn = 1
  /\ \A g, h \in Versions : IsSimilar(Event[g], Event[h])
  /\ OwnerKey \in Keys
  /\ MaxLosses \in Nat
  /\ MaxRestarts \in Nat

VARIABLES
  ownerGov,     \* version of the governance in the owner's ledger
  notified,     \* version the EventCompleter was last notified of
  current,      \* event_validation_events: the proof being validated
  remaining,    \* subjects_completing_event: the validators not heard from
  validations,  \* event_validations: signer -> the proof it signed
  asked,        \* proofs some request carried
  responses,    \* ValidatorResponse messages on their way
  done,         \* what the ledger was handed, NoProof before
  losses, restarts

ownerVars == <<ownerGov, notified, current, remaining, validations, done, restarts>>
netVars == <<asked, responses, losses>>
allVars == <<vars, ownerVars, netVars>>

Validating == done = NoProof

-----------------------------------------------------------------------------
(* The handler of new_event, or of init after a restart, has just asked    *)
(* for the first signatures.                                               *)
RoundInit ==
  /\ gov = [v \in Validators |-> 0]
  /\ register = [v \in Validators |-> Genesis]
  /\ signed = [v \in Validators |-> {Genesis}]
  /\ task = [v \in Validators |-> NoTask]
  /\ ownerGov = 0 /\ notified = 0
  /\ current = Event[0]
  /\ remaining = Signers[0]
  /\ validations = [v \in {} |-> NoProof]
  /\ asked = {Event[0]}
  /\ responses = {}
  /\ done = NoProof
  /\ losses = 0 /\ restarts = 0

(* What the owner sends a validator for the proof p.                       *)
Request(p) == [proof |-> p, prev |-> Genesis, signer |-> OwnerKey]

(* A validator reads the version of its governance for a request.          *)
StartHandling(v) ==
  /\ Validating
  /\ ReadGovVersion(v)
  /\ UNCHANGED <<ownerVars, netVars>>

(* It accepts the proof of the request, or refuses it.                     *)
HandleRequest(v, p) ==
  /\ p \in asked
  /\ Reading(v)
  /\ \/ RegisterProof(v, Request(p))
     \/ /\ ~ (ActualGovVersion(v, p) = p.gov /\ CheckProofs(v, Request(p)))
        /\ RefuseProof(v)
  /\ UNCHANGED <<ownerVars, netVars>>

(* It signs and answers, and the answer arrives or is lost.                *)
Respond(v) ==
  /\ SignAndRespond(v)
  /\ \/ /\ responses' = responses \cup {[from |-> v, proof |-> task[v].proof]}
        /\ UNCHANGED losses
     \/ /\ losses < MaxLosses
        /\ losses' = losses + 1
        /\ UNCHANGED responses
  /\ UNCHANGED <<ownerVars, asked>>

ValidatorLearnsGovernance(v) ==
  /\ Validating
  /\ GovernanceAdvances(v)
  /\ UNCHANGED <<ownerVars, netVars>>

(* The owner's ledger stores the next event of the governance, asked for   *)
(* in answer to HigherGovernanceExpected or distributed to it.             *)
OwnerLearnsGovernance ==
  /\ Validating
  /\ ownerGov < MaxGov
  /\ ownerGov' = ownerGov + 1
  /\ UNCHANGED <<vars, notified, current, remaining, validations, done, restarts, netVars>>

\* Mutant: the proof of the old version stays the one being validated.
NewGovernanceVersionOldProof ==
  /\ Validating
  /\ notified < ownerGov
  /\ notified' = notified + 1
  /\ remaining' = Signers[notified']
  /\ UNCHANGED <<vars, ownerGov, current, asked, validations, done, restarts,
                 responses, losses>>

(* new_governance_version, for the prevalidated event of the subject: a    *)
(* new proof, all the validators of the new version, and a new request.    *)
NewGovernanceVersion ==
  /\ Validating
  /\ notified < ownerGov
  /\ notified' = notified + 1
  /\ current' = Event[notified']
  /\ remaining' = Signers[notified']
  /\ asked' = asked \cup {Event[notified']}
  /\ UNCHANGED <<vars, ownerGov, validations, done, restarts, responses, losses>>

(* insert_or_replace_and_check on a set with one signature per signer.     *)
WithValidation(m) ==
  [s \in DOMAIN validations \cup {m.from} |->
     IF s = m.from THEN m.proof ELSE validations[s]]

\* Mutant: one signature short.
QuorumOneShort(m) ==
  Cardinality(DOMAIN WithValidation(m)) + 1 >= QuorumSize[notified]

(* The answer m completes the quorum that was recorded with the request.   *)
QuorumReached(m) ==
  Cardinality(DOMAIN WithValidation(m)) >= QuorumSize[notified]

(* validation_signatures ignores the answer: another version than ours, a  *)
(* validator not in the list or heard before, or a signature that does not *)
(* verify against the proof being validated.                               *)
IgnoreResponse(m) ==
  /\ m \in responses
  /\ \/ m.proof.gov # ownerGov
     \/ m.from \notin remaining
     \/ m.proof # current
  /\ responses' = responses \ {m}
  /\ UNCHANGED <<vars, ownerVars, asked, losses>>

(* validation_signatures accepts the answer: short of the quorum it asks   *)
(* the others, else it hands event, signatures and proof to the ledger and *)
(* forgets the event.                                                      *)
AcceptResponse(m) ==
  /\ Validating
  /\ m \in responses
  /\ m.proof.gov = ownerGov
  /\ m.from \in remaining
  /\ m.proof = current
  /\ responses' = responses \ {m}
  /\ IF ~ QuorumReached(m)
     THEN /\ validations' = WithValidation(m)
          /\ remaining' = remaining \ {m.from}
          /\ UNCHANGED done
     ELSE /\ done' = [proof |-> current, sigs |-> WithValidation(m)]
          /\ validations' = [v \in {} |-> NoProof]
          /\ remaining' = {}
  /\ UNCHANGED <<vars, ownerGov, notified, current, restarts, asked, losses>>

(* The owner stops and starts: init finds the prevalidated event in the    *)
(* database and asks again under the version in force.                     *)
OwnerRestart ==
  /\ Validating
  /\ restarts < MaxRestarts
  /\ restarts' = restarts + 1
  /\ notified' = ownerGov
  /\ current' = Event[ownerGov]
  /\ remaining' = Signers[ownerGov]
  /\ validations' = [v \in {} |-> NoProof]
  /\ asked' = asked \cup {Event[ownerGov]}
  /\ UNCHANGED <<vars, ownerGov, done, responses, losses>>

ValidatorRestart(v) ==
  /\ restarts < MaxRestarts
  /\ Restart(v)
  /\ restarts' = restarts + 1
  /\ UNCHANGED <<ownerGov, notified, current, remaining, validations, done, netVars>>

(* The round is over: the message task is cancelled.                       *)
Finished ==
  /\ ~ Validating
  /\ UNCHANGED allVars

RoundNext ==
  \/ \E v \in Validators :
       \/ StartHandling(v)
       \/ \E p \in Proofs : HandleRequest(v, p)
       \/ Respond(v)
       \/ ValidatorLearnsGovernance(v)
       \/ ValidatorRestart(v)
  \/ OwnerLearnsGovernance
  \/ NewGovernanceVersion
  \/ \E m \in responses : IgnoreResponse(m) \/ AcceptResponse(m)
  \/ OwnerRestart
  \/ Finished

(* The message task resends the current request for ever, so a validator   *)
(* that keeps reading requests handles it again and again; queues are      *)
(* served; answers that are not lost arrive; governance events reach every *)
(* node and their notification the EventCompleter.  Nothing is assumed of  *)
(* restarts and losses but that they are finitely many.                    *)
RoundFairness ==
  /\ \A v \in Validators :
       /\ WF_allVars(StartHandling(v))
       /\ SF_allVars(HandleRequest(v, current))
       /\ WF_allVars(Respond(v))
       /\ WF_allVars(ValidatorLearnsGovernance(v))
  /\ WF_allVars(OwnerLearnsGovernance)
  /\ WF_allVars(NewGovernanceVersion)
  /\ \A m \in [from : Validators, proof : Proofs] :
       WF_allVars(IgnoreResponse(m) \/ AcceptResponse(m))

RoundSpec == RoundInit /\ [][RoundNext]_allVars /\ RoundFairness

-----------------------------------------------------------------------------
(* What the owner hands to its ledger, as many signatures as the version   *)
(* its proof names requires, was really signed, for this event, by the     *)
(* validators of the version each one signed for.  Unless the governance   *)
(* was updated in the course of the round they signed that very proof;     *)
(* after an update some may have signed for the version before, validators *)
(* that the new one dismissed included (event_completer.rs                 *)
(* validation_signatures, new_governance_version).                         *)
HandedOverSigned ==
  done # NoProof =>
    /\ Cardinality(DOMAIN done.sigs) >= QuorumSize[done.proof.gov]
    /\ \A v \in DOMAIN done.sigs :
         /\ done.sigs[v] \in signed[v]
         /\ v \in Signers[done.sigs[v].gov]
         /\ IsSimilar(done.sigs[v], done.proof)
         /\ done.proof.gov = 0 => done.sigs[v] = done.proof

(* Every event that enters validation leaves it, although answers are lost *)
(* and nodes restart: the owner keeps asking, and a validator asked again  *)
(* about the event it registered signs again (validation.rs check_proofs). *)
EventuallyValidated == <>(done # NoProof)

=============================================================================
