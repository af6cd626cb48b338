------------------------- MODULE EventCompleterProofs -------------------------
(***************************************************************************)
(* Safety of the owner's EventCompleter and its ledger for any requests,   *)
(* nodes, signers, quorums and crashes.  IndInv holds however the          *)
(* governance changes; what needs a governance that stays as it is has a   *)
(* second invariant, OneVersionInv, on top of it.                          *)
(***************************************************************************)
EXTENDS EventCompleter, Sequences, FiniteSetTheorems, TLAPS

ApprovalRequests ==
  [req : Requests, sn : Nat, gov : Versions, prev : Nat, patch : BOOLEAN]

(* Types of the database, and of what is kept for each stage.              *)
DbOK ==
  /\ subject \in [sn : Nat, state : States, owned : BOOLEAN, active : BOOLEAN]
  /\ IsMap(events, Nat, Events)
  /\ request \in Requests \cup {None}
  /\ prevalidated \in Events \cup {None}
  /\ known \subseteq Requests

EvaluationOK ==
  /\ pre \subseteq Evaluations
  /\ \A e \in pre : Kind[e.req] = "fact"
  /\ \A x \in evals : x.eval \in pre /\ x.by \in Nodes

ApprovalOK ==
  /\ \A a \in DOMAIN apprReqs :
       /\ a \in ApprovalRequests /\ Kind[a.req] = "fact"
       /\ apprReqs[a].eval \in Evaluations /\ apprReqs[a].by \subseteq Nodes
  /\ \A x \in approvals : x.appr \in DOMAIN apprReqs /\ x.by \in Nodes

ValidationOK ==
  /\ IsMap(validating, Events, Versions)
  /\ \A x \in vals : x.event \in DOMAIN validating /\ x.by \in Nodes

(* The event being validated is one the validators were asked about.       *)
SubmittedOK ==
  /\ \A ev \in submitted : ev \in Events /\ (ev.eval = None <=> Kind[ev.req] # "fact")
  /\ prevalidated # None => prevalidated \in submitted

ControlOK ==
  /\ stage \in StageRecords \cup {None}
  /\ handing \in Handings \cup {None}
  /\ currentSn \in Nat
  /\ gov \in Versions /\ notified \in 0 .. gov
  /\ mode \in {"up", "down", "failed"} /\ tracked \in BOOLEAN

Types ==
  DbOK /\ EvaluationOK /\ ApprovalOK /\ ValidationOK /\ SubmittedOK /\ ControlOK

-----------------------------------------------------------------------------
AtValidation == stage # None /\ stage.stage = "validate"

(* A node that does not run has nothing in memory.                         *)
Idle ==
  mode # "up" =>
    /\ stage = None /\ handing = None /\ pre = {}
    /\ DOMAIN apprReqs = {} /\ DOMAIN validating = {}

(* Exactly one event is being validated in the validating stage, the one   *)
(* in the database until that is deleted, and none in the other stages.    *)
OneValidating ==
  mode = "up" =>
    /\ ~ AtValidation => handing = None /\ DOMAIN validating = {}
    /\ AtValidation =>
         IF handing # None /\ handing.phase = "deleted"
         THEN prevalidated = None /\ DOMAIN validating = {handing.event}
         ELSE /\ prevalidated # None /\ DOMAIN validating = {prevalidated}
              /\ handing # None => handing.event = prevalidated

(* What the database holds of an unfinished event: the request kept next   *)
(* to a transfer or an end of life is that of the event; the subject is    *)
(* lost or closed only by this very event.                                 *)
Unfinished ==
  /\ prevalidated # None /\ request # None /\ Kind[prevalidated.req] # "fact" =>
       request = prevalidated.req
  /\ request # None /\ Kind[request] = "eol" => request \in Own
  /\ prevalidated # None /\ ~ subject.owned => Applied(prevalidated.req)
  /\ request # None /\ ~ (subject.owned /\ subject.active) => Applied(request)

(* The event the ledger is about to store replaces no other, and is there  *)
(* before the subject.                                                     *)
NotOverwriting ==
  /\ handing # None /\ handing.phase = "ledger" /\ handing.event.sn \in DOMAIN events =>
       events[handing.event.sn] = handing.event
  /\ handing # None /\ handing.phase = "event" =>
       handing.event.sn \in DOMAIN events /\ events[handing.event.sn] = handing.event

IndInv ==
  /\ Types /\ Idle /\ OneValidating /\ StageIsPersisted
  /\ Unfinished /\ NotOverwriting

-----------------------------------------------------------------------------
(* With one version of the governance.                                     *)

(* The stage before validation is about one evaluation, of the request in  *)
(* the database and for the next event of the subject.                     *)
OneEvaluation ==
  \A e \in pre :
    /\ stage # None /\ stage.stage = "evaluate"
    /\ e = EvaluationRequest(request)

OneApproval ==
  \A a \in DOMAIN apprReqs :
    /\ stage # None /\ stage.stage = "approve"
    /\ a = ApprovalRequest(EvaluationRequest(request))

(* The stored events are numbered from 1 to the subject's last, or to the  *)
(* one in validation; that is the next of the subject, or the last if the  *)
(* subject was stored too.                                                 *)
Numbered ==
  /\ \/ DOMAIN events = 1 .. subject.sn
     \/ /\ DOMAIN events = 1 .. (subject.sn + 1)
        /\ prevalidated # None /\ prevalidated.sn = subject.sn + 1
  /\ prevalidated # None =>
       \/ prevalidated.sn = subject.sn + 1
       \/ /\ prevalidated.sn = subject.sn
          /\ subject.sn \in DOMAIN events /\ events[subject.sn] = prevalidated

StoredOnce ==
  handing # None /\ handing.phase \in {"stored", "deleted"} =>
    /\ handing.event.sn = subject.sn
    /\ subject.sn \in DOMAIN events /\ events[subject.sn] = handing.event
    /\ request # None => request = handing.event.req

(* An event the validators were asked about is in the database until it is *)
(* stored.                                                                 *)
SubmittedKept ==
  \A x \in submitted :
    /\ x.sn <= subject.sn + 1
    /\ x.sn = subject.sn + 1 => prevalidated = x

(* What the database holds is about one request, and no other is pending.  *)
Pending ==
  /\ prevalidated # None /\ request # None => request = prevalidated.req
  /\ AcknowledgedNotLost

OneVersionInv ==
  /\ OneEvaluation /\ OneApproval /\ Numbered /\ StoredOnce /\ SubmittedKept
  /\ OneSubmissionPerSn /\ Pending

(* The requests that are registered and not dropped.                       *)
Kept == known \ dropped

(* With facts only: what is kept and not yet applied is the request or the *)
(* event of the database.  Only after a crash are both there, and then an  *)
(* applied request stays there until the ledger has answered.              *)
Registered ==
  /\ crashes \in Nat /\ dropped \subseteq known
  /\ \A n \in DOMAIN events : events[n].req \in Kept
  /\ request # None =>
       /\ request \in Kept
       /\ prevalidated # None => crashes > 0
       /\ Applied(request) =>
            crashes > 0 /\ mode = "up" /\ (prevalidated # None \/ handing # None)
  /\ prevalidated # None =>
       /\ prevalidated.req \in Kept
       /\ prevalidated.sn \notin DOMAIN events => ~ Applied(prevalidated.req)

-----------------------------------------------------------------------------
(* Operators of the model.                                                 *)

(* The signers of a stage can be counted.                                  *)
LEMMA NodesFinite ==
  ASSUME NEW S \in SUBSET Nodes
  PROVE  IsFiniteSet(S) /\ Cardinality(S) \in Nat
<1>1. IsFiniteSet(S)
  BY CompleterAssumption, FS_Subset
<1>2. QED
  BY <1>1, FS_CardinalityType

(* The record of a stage in which signers of a version are asked.          *)
LEMMA AskingRecord ==
  ASSUME NEW s \in Stages, NEW g \in Versions
  PROVE  /\ Asking(s, g) \in StageRecords /\ Asking(s, g).stage = s
         /\ Asking(s, g).signers = Signers[s][g]
         /\ Asking(s, g).q = Quorum[s][g]
         /\ Asking(s, g).nq = Cardinality(Signers[s][g]) - Quorum[s][g] + 1
<1>1. Signers[s][g] \in SUBSET Nodes /\ Quorum[s][g] \in Nat
  BY CompleterAssumption
<1>2. Cardinality(Signers[s][g]) \in Nat
  BY <1>1, NodesFinite
<1>3. QED
  BY <1>1, <1>2 DEF Asking, StageRecords

(* The record of the validation stage.                                     *)
LEMMA ValidateRecord ==
  ASSUME NEW g \in Versions
  PROVE  Validate(g) \in StageRecords /\ Validate(g).stage = "validate"
<1>1. "validate" \in Stages
  BY DEF Stages
<1>2. Asking("validate", g) \in StageRecords /\ Asking("validate", g).stage = "validate"
  BY <1>1, AskingRecord
<1>3. QED
  BY <1>2 DEF Validate, StageRecords

(* Putting an entry keeps a map a map.                                     *)
LEMMA PutMap ==
  ASSUME NEW f, NEW S, NEW T, IsMap(f, S, T), NEW x \in S, NEW y \in T
  PROVE  IsMap(Put(f, x, y), S, T) /\ DOMAIN Put(f, x, y) = DOMAIN f \cup {x}
  BY DEF IsMap, Put

(* A request for evaluation has its type.                                  *)
LEMMA EvaluationRequestType ==
  ASSUME DbOK, ControlOK, NEW r \in Requests
  PROVE  /\ EvaluationRequest(r) \in Evaluations
         /\ EvaluationRequest(r).req = r
  BY DEF DbOK, ControlOK, EvaluationRequest, Evaluations

(* The event of a transfer or an end of life, which nobody evaluates.      *)
LEMMA EventNoEvalType ==
  ASSUME DbOK, ControlOK, NEW r \in Requests
  PROVE  /\ EventNoEval(r) \in Events
         /\ EventNoEval(r).req = r /\ EventNoEval(r).eval = None
         /\ EventNoEval(r).sn = subject.sn + 1
  BY DEF DbOK, ControlOK, EventNoEval, Events

(* Storing an event that replaces no other keeps what was applied.         *)
AppliedIn(f, r) == \E s \in DOMAIN f : f[s].req = r

(* Storing an event applies its request and no other one.                  *)
LEMMA AppliedStays ==
  ASSUME NEW f, NEW ev, NEW n, n \in DOMAIN f => f[n] = ev
  PROVE  /\ \A r : AppliedIn(f, r) => AppliedIn(Put(f, n, ev), r)
         /\ AppliedIn(Put(f, n, ev), ev.req)
         /\ \A r : AppliedIn(Put(f, n, ev), r) => AppliedIn(f, r) \/ r = ev.req
<1>1. /\ DOMAIN Put(f, n, ev) = DOMAIN f \cup {n} /\ Put(f, n, ev)[n] = ev
      /\ \A s \in DOMAIN f : Put(f, n, ev)[s] = f[s]
  BY DEF Put
<1>2. QED
  BY <1>1 DEF AppliedIn

-----------------------------------------------------------------------------

(* The invariant TypeOK is part of the inductive one.                      *)
LEMMA TypesGiveTypeOK == Types => TypeOK
  BY DEF Types, DbOK, EvaluationOK, ApprovalOK, ValidationOK, SubmittedOK, ControlOK, TypeOK

(* A node starts with an empty database.                                   *)
LEMMA InitInv == Init => IndInv
<1> SUFFICES ASSUME Init PROVE IndInv
  OBVIOUS
<1>1. DOMAIN events = {} /\ DOMAIN apprReqs = {} /\ DOMAIN validating = {}
  BY DEF Init, NoMap
<1>2. DbOK /\ EvaluationOK /\ ApprovalOK /\ ValidationOK /\ SubmittedOK
  BY <1>1 DEF Init, DbOK, EvaluationOK, ApprovalOK, ValidationOK, SubmittedOK, IsMap, States
<1>3. ControlOK
  BY CompleterAssumption DEF Init, ControlOK, Versions
<1>4. Idle /\ OneValidating /\ StageIsPersisted
  BY <1>1 DEF Init, Idle, OneValidating, StageIsPersisted, AtValidation, Ready
<1>5. Unfinished /\ NotOverwriting
  BY DEF Init, Unfinished, NotOverwriting
<1>6. QED
  BY <1>2, <1>3, <1>4, <1>5 DEF IndInv, Types

(* new_event for a fact, from any of its callers.                          *)
LEMMA EvaluationStarts ==
  ASSUME IndInv, NEW r \in Requests, Kind[r] = "fact", MayStart(r), StartEvaluation(r),
         mode' = "up", handing' = None, prevalidated = None, DOMAIN validating = {},
         UNCHANGED <<subject, events, evals, apprReqs, approvals, vals, gov>>,
         notified' \in 0 .. gov, currentSn' \in Nat, tracked' \in BOOLEAN
  PROVE  IndInv'
<1>1. /\ pre' = pre \cup {EvaluationRequest(r)} /\ stage' = Asking("evaluate", gov)
      /\ known' = known \cup {r} /\ request' = r
      /\ UNCHANGED <<prevalidated, validating, submitted>>
  BY DEF StartEvaluation
<1>2. Types /\ gov \in Versions /\ subject.owned /\ subject.active
  BY DEF IndInv, Types, ControlOK, MayStart
<1>3. stage' \in StageRecords /\ stage'.stage = "evaluate" /\ stage' # None
  BY <1>1, <1>2, AskingRecord, NoneAssumption DEF Stages
<1>4. /\ EvaluationRequest(r) \in Evaluations /\ EvaluationRequest(r).req = r
  BY <1>2, EvaluationRequestType DEF Types
<1>5. DbOK' /\ ApprovalOK' /\ ValidationOK' /\ SubmittedOK'
  BY <1>1, <1>2 DEF Types, DbOK, ApprovalOK, ValidationOK, SubmittedOK
<1>6. EvaluationOK'
  BY <1>1, <1>2, <1>4 DEF Types, EvaluationOK
<1>7. ControlOK'
  BY <1>2, <1>3 DEF Types, ControlOK
<1>8. Idle' /\ OneValidating' /\ StageIsPersisted'
  BY <1>1, <1>2, <1>3, CompleterAssumption
  DEF Idle, OneValidating, StageIsPersisted, AtValidation, Ready
<1>9. Unfinished' /\ NotOverwriting'
  BY <1>1, <1>2 DEF Unfinished, NotOverwriting
<1>10. QED
  BY <1>5, <1>6, <1>7, <1>8, <1>9 DEF IndInv, Types

(* new_event for a transfer or an end of life.                             *)
LEMMA ValidationStarts ==
  ASSUME IndInv, NEW r \in Requests, Kind[r] # "fact", MayStart(r), StartValidation(r),
         mode' = "up", handing' = None, prevalidated = None, DOMAIN validating = {},
         UNCHANGED <<subject, events, evals, apprReqs, approvals, vals, gov>>,
         notified' \in 0 .. gov, currentSn' \in Nat, tracked' \in BOOLEAN
  PROVE  IndInv'
<1> DEFINE ev == EventNoEval(r)
<1>1. /\ prevalidated' = ev /\ validating' = Put(validating, ev, gov)
      /\ submitted' = submitted \cup {ev} /\ stage' = Validate(gov)
      /\ known' = known \cup {r} /\ request' = r /\ UNCHANGED pre
  BY DEF StartValidation
<1>2. Types /\ gov \in Versions /\ subject.owned /\ subject.active
  BY DEF IndInv, Types, ControlOK, MayStart
<1>3. stage' \in StageRecords /\ stage'.stage = "validate" /\ stage' # None
  BY <1>1, <1>2, ValidateRecord, NoneAssumption
<1>4. ev \in Events /\ ev.req = r /\ ev.eval = None /\ ev # None
  BY <1>2, EventNoEvalType, NoneAssumption DEF Types
<1> HIDE DEF ev
<1>5. /\ IsMap(validating', Events, Versions)
      /\ DOMAIN validating' = {ev}
  <2>1. IsMap(validating, Events, Versions)
    BY <1>2 DEF Types, ValidationOK
  <2>2. /\ IsMap(validating', Events, Versions)
        /\ DOMAIN validating' = DOMAIN validating \cup {ev}
    BY <1>1, <1>2, <1>4, <2>1 DEF IsMap, Put
  <2>3. QED
    BY <2>2
<1>6. DbOK' /\ EvaluationOK' /\ ApprovalOK'
  BY <1>1, <1>2, <1>4 DEF Types, DbOK, EvaluationOK, ApprovalOK
<1>7. ValidationOK'
  BY <1>2, <1>5 DEF Types, ValidationOK
<1>8. SubmittedOK'
  BY <1>1, <1>2, <1>4 DEF Types, SubmittedOK
<1>9. ControlOK'
  BY <1>2, <1>3 DEF Types, ControlOK
<1>10. Idle' /\ OneValidating' /\ StageIsPersisted'
  BY <1>1, <1>3, <1>4, <1>5
  DEF Idle, OneValidating, StageIsPersisted, AtValidation, Ready
<1>11. Unfinished' /\ NotOverwriting'
  BY <1>1, <1>2, <1>4 DEF Unfinished, NotOverwriting, MayStart
<1>12. QED
  BY <1>6, <1>7, <1>8, <1>9, <1>10, <1>11 DEF IndInv, Types

(* An event has been built from the evaluations and approvals of a fact.   *)
LEMMA EventSubmitted ==
  ASSUME IndInv, NEW ev \in Events, ev.eval \in Evaluations, Kind[ev.req] = "fact",
         NEW g \in Versions, SubmitEvent(ev, g),
         Ready, stage # None, stage.stage # "validate",
         stage' \in StageRecords, stage'.stage = "validate", EvaluationOK', ApprovalOK',
         UNCHANGED <<subject, events, known, vals, tracked, handing, currentSn, notified, mode>>
  PROVE  IndInv'
<1>1. /\ prevalidated' = ev /\ request' = None /\ gov' = g /\ g >= gov
      /\ validating' = Put(validating, ev, g) /\ submitted' = submitted \cup {ev}
  BY DEF SubmitEvent
<1>2. /\ Types /\ subject.owned /\ mode = "up" /\ handing = None
      /\ DOMAIN validating = {}
  BY DEF IndInv, StageIsPersisted, OneValidating, AtValidation, Ready
<1>3. stage' # None /\ ev # None /\ ev.eval # None
  BY NoneAssumption
<1>4. /\ IsMap(validating', Events, Versions)
      /\ DOMAIN validating' = {ev}
  <2>1. IsMap(validating, Events, Versions)
    BY <1>2 DEF Types, ValidationOK
  <2>2. /\ IsMap(validating', Events, Versions)
        /\ DOMAIN validating' = DOMAIN validating \cup {ev}
    BY <1>1, <2>1 DEF IsMap, Put
  <2>3. QED
    BY <1>2, <2>2
<1>5. DbOK' /\ SubmittedOK'
  BY <1>1, <1>2, <1>3 DEF Types, DbOK, SubmittedOK
<1>6. ValidationOK'
  BY <1>2, <1>4 DEF Types, ValidationOK
<1>7. ControlOK'
  <2>1. notified \in 0 .. g
    BY <1>1, <1>2 DEF Types, ControlOK, Versions
  <2>2. QED
    BY <1>1, <1>2, <2>1 DEF Types, ControlOK
<1>8. Idle' /\ OneValidating' /\ StageIsPersisted'
  BY <1>1, <1>2, <1>3, <1>4
  DEF Idle, OneValidating, StageIsPersisted, AtValidation, Ready
<1>9. Unfinished' /\ NotOverwriting'
  BY <1>1, <1>2 DEF Unfinished, NotOverwriting
<1>10. QED
  BY <1>5, <1>6, <1>7, <1>8, <1>9 DEF IndInv, Types

(* The validators of the event of the database are asked again.            *)
LEMMA ValidationResumes ==
  ASSUME IndInv, prevalidated # None, subject.owned, NEW g \in Versions,
         validating' = Put(validating, prevalidated, g), stage' = Validate(g),
         submitted' \subseteq submitted \cup {prevalidated}, submitted \subseteq submitted',
         handing = None, handing' = None, mode' = "up",
         UNCHANGED <<subject, events, request, prevalidated, apprReqs, approvals, vals, gov>>,
         known' \subseteq Requests, EvaluationOK',
         notified' \in 0 .. gov, currentSn' \in Nat, tracked' \in BOOLEAN
  PROVE  IndInv'
<1>1. Types /\ prevalidated \in Events /\ prevalidated \in submitted
  BY DEF IndInv, Types, DbOK, SubmittedOK
<1>2. DOMAIN validating \subseteq {prevalidated}
  BY DEF IndInv, Types, ControlOK, Idle, OneValidating
<1>3. stage' \in StageRecords /\ stage'.stage = "validate" /\ stage' # None
  BY ValidateRecord, NoneAssumption
<1>4. /\ IsMap(validating', Events, Versions)
      /\ DOMAIN validating' = {prevalidated}
  <2>1. IsMap(validating, Events, Versions)
    BY <1>1 DEF Types, ValidationOK
  <2>2. /\ IsMap(Put(validating, prevalidated, g), Events, Versions)
        /\ DOMAIN Put(validating, prevalidated, g) = DOMAIN validating \cup {prevalidated}
    BY <1>1, <2>1 DEF IsMap, Put
  <2>3. DOMAIN validating \cup {prevalidated} = {prevalidated}
    BY <1>2
  <2>4. QED
    BY <2>2, <2>3
<1>5. DbOK' /\ ApprovalOK'
  BY <1>1 DEF Types, DbOK, ApprovalOK
<1>6. SubmittedOK'
  BY <1>1 DEF Types, SubmittedOK
<1>7. ValidationOK'
  BY <1>1, <1>2, <1>4 DEF Types, ValidationOK
<1>8. ControlOK'
  BY <1>1, <1>3 DEF Types, ControlOK
<1>9. Idle' /\ OneValidating' /\ StageIsPersisted'
  BY <1>3, <1>4 DEF Idle, OneValidating, StageIsPersisted, AtValidation, Ready
<1>10. Unfinished' /\ NotOverwriting'
  BY DEF IndInv, Unfinished, NotOverwriting, Applied
<1>11. QED
  BY <1>5, <1>6, <1>7, <1>8, <1>9, <1>10 DEF IndInv, Types

-----------------------------------------------------------------------------
(* The nodes that agree are nodes.                                         *)
LEMMA SameEvaluationNodes ==
  ASSUME EvaluationOK, NEW e, NEW n \in Nodes, NEW verdict
  PROVE  SameEvaluation(e, n, verdict) \subseteq Nodes
  BY DEF EvaluationOK, SameEvaluation

(* Votes that agree come from nodes.                                       *)
LEMMA SameApprovalNodes ==
  ASSUME ApprovalOK, NEW a, NEW n \in Nodes, NEW accept
  PROVE  SameApproval(a, n, accept) \subseteq Nodes
<1>1. \A x \in WithApproval(a, n, accept) : x.by \in Nodes
  BY DEF ApprovalOK, WithApproval
<1>2. QED
  BY <1>1 DEF SameApproval

(* A signer that has answered is not asked again.                          *)
LEMMA FewerSigners ==
  ASSUME NEW st \in StageRecords, NEW n
  PROVE  LET st2 == [st EXCEPT !.signers = @ \ {n}]
         IN  /\ st2 \in StageRecords /\ st2.stage = st.stage
             /\ st2.q = st.q /\ st2.nq = st.nq /\ st2.signers \subseteq st.signers
  BY DEF StageRecords

(* An answer that neither enters nor leaves the validating stage.          *)
LEMMA AnswerKept ==
  ASSUME IndInv, Ready, stage # None, stage' \in StageRecords,
         stage'.stage = "validate" <=> stage.stage = "validate",
         EvaluationOK', ApprovalOK', ValidationOK', 
         UNCHANGED <<db, validating, handing, currentSn, tracked, gov, notified, mode,
                     submitted>>
  PROVE  IndInv'
<1>1. Types /\ mode = "up" /\ handing = None /\ stage' # None
  BY NoneAssumption DEF IndInv, Ready
<1>2. DbOK' /\ SubmittedOK'
  BY <1>1 DEF Types, DbOK, SubmittedOK, db
<1>3. ControlOK'
  BY <1>1 DEF Types, ControlOK
<1>4. Idle' /\ OneValidating'
  BY <1>1 DEF IndInv, Idle, OneValidating, AtValidation, db
<1>5. StageIsPersisted'
  BY <1>1 DEF IndInv, StageIsPersisted, Ready, db
<1>6. Unfinished' /\ NotOverwriting'
  BY <1>1 DEF IndInv, Unfinished, NotOverwriting, Applied, db
<1>7. QED
  BY <1>2, <1>3, <1>4, <1>5, <1>6 DEF IndInv, Types

(* An evaluation without a quorum yet is kept.                             *)
LEMMA KeepEvaluationStep ==
  ASSUME IndInv, NEW e \in pre, NEW n \in Nodes, NEW verdict,
         KeepEvaluation(e, n, verdict)
  PROVE  IndInv'
<1>1. /\ Ready /\ stage # None
      /\ evals' = evals \cup {[eval |-> e, by |-> n, verdict |-> verdict]}
      /\ stage' = [stage EXCEPT !.signers = @ \ {n}]
  BY DEF KeepEvaluation, EvaluationArrives, InStage
<1>2. Types /\ stage \in StageRecords
  BY <1>1 DEF IndInv, Types, ControlOK
<1>3. stage' \in StageRecords /\ stage'.stage = stage.stage
  BY <1>1, <1>2, FewerSigners
<1>4. EvaluationOK'
  BY <1>1, <1>2 DEF KeepEvaluation, Types, EvaluationOK
<1>5. ApprovalOK' /\ ValidationOK'
  BY <1>2 DEF KeepEvaluation, Types, ApprovalOK, ValidationOK
<1>6. QED
  BY <1>1, <1>3, <1>4, <1>5, AnswerKept DEF KeepEvaluation

(* A quorum for a failure that asks for approval is an error.              *)
LEMMA RejectEvaluationStep ==
  ASSUME IndInv, NEW e \in pre, NEW n \in Nodes, RejectEvaluation(e, n)
  PROVE  IndInv'
<1>1. /\ Ready /\ stage # None /\ UNCHANGED stage
      /\ evals' = evals \cup {[eval |-> e, by |-> n, verdict |-> "failapprove"]}
  BY DEF RejectEvaluation, EvaluationArrives, InStage
<1>2. Types /\ stage \in StageRecords
  BY <1>1 DEF IndInv, Types, ControlOK
<1>3. EvaluationOK'
  BY <1>1, <1>2 DEF RejectEvaluation, Types, EvaluationOK
<1>4. ApprovalOK' /\ ValidationOK'
  BY <1>2 DEF RejectEvaluation, Types, ApprovalOK, ValidationOK
<1>5. QED
  BY <1>1, <1>2, <1>3, <1>4, AnswerKept DEF RejectEvaluation

(* A request for approval has its type.                                    *)
LEMMA ApprovalRequestType ==
  ASSUME Types, NEW e \in pre
  PROVE  ApprovalRequest(e) \in ApprovalRequests /\ ApprovalRequest(e).req = e.req
<1>1. e \in Evaluations /\ subject.sn \in Nat /\ gov \in Versions
  BY DEF Types, EvaluationOK, DbOK, ControlOK
<1>2. e.req \in Requests /\ e.sn \in Nat
  BY <1>1 DEF Evaluations
<1>3. (e.state # Effect[e.req]) \in BOOLEAN
  OBVIOUS
<1>4. QED
  BY <1>1, <1>2, <1>3 DEF ApprovalRequest, ApprovalRequests

(* The maps of the evaluation are cleaned together.                        *)
LEMMA CleanEvaluationOK ==
  ASSUME EvaluationOK, NEW e, CleanEvaluation(e)
  PROVE  EvaluationOK'
  BY DEF EvaluationOK, CleanEvaluation

(* A quorum of evaluations that asks for approval.                         *)
LEMMA AskApprovalStep ==
  ASSUME IndInv, NEW e \in pre, NEW n \in Nodes, AskApproval(e, n)
  PROVE  IndInv'
<1> DEFINE a == ApprovalRequest(e)
           by == SameEvaluation(e, n, "approve")
<1>1. /\ Ready /\ stage # None /\ stage.stage = "evaluate"
      /\ apprReqs' = Put(apprReqs, a, [eval |-> e, by |-> by])
      /\ CleanEvaluation(e)
      /\ stage' = Asking("approve", gov)
      /\ UNCHANGED <<approvals, validating, vals>>
  BY DEF AskApproval, EvaluationArrives, InStage
<1>2. Types /\ gov \in Versions
  BY DEF IndInv, Types, ControlOK
<1>3. stage' \in StageRecords /\ stage'.stage = "approve"
  BY <1>1, <1>2, AskingRecord DEF Stages
<1>4. /\ a \in ApprovalRequests /\ a.req = e.req /\ by \subseteq Nodes
      /\ e \in Evaluations /\ Kind[e.req] = "fact"
  BY <1>2, ApprovalRequestType, SameEvaluationNodes DEF Types, EvaluationOK
<1> HIDE DEF a, by
<1>5. ApprovalOK'
  <2>1. DOMAIN apprReqs' = DOMAIN apprReqs \cup {a}
    BY <1>1 DEF Put
  <2>2. ASSUME NEW b \in DOMAIN apprReqs'
        PROVE  /\ b \in ApprovalRequests /\ Kind[b.req] = "fact"
               /\ apprReqs'[b].eval \in Evaluations /\ apprReqs'[b].by \subseteq Nodes
    <3>1. CASE b = a
      BY <1>1, <1>4, <3>1 DEF Put
    <3>2. CASE b # a
      <4>1. b \in DOMAIN apprReqs /\ apprReqs'[b] = apprReqs[b]
        BY <1>1, <2>1, <2>2, <3>2 DEF Put
      <4>2. QED
        BY <1>2, <4>1 DEF Types, ApprovalOK
    <3>3. QED
      BY <3>1, <3>2
  <2>3. \A x \in approvals' : x.appr \in DOMAIN apprReqs' /\ x.by \in Nodes
    BY <1>1, <1>2, <2>1 DEF Types, ApprovalOK
  <2>4. QED
    BY <2>2, <2>3 DEF ApprovalOK
<1>6. EvaluationOK' /\ ValidationOK'
  BY <1>1, <1>2, CleanEvaluationOK DEF Types, ValidationOK
<1>7. QED
  BY <1>1, <1>3, <1>5, <1>6, AnswerKept DEF AskApproval

(* A quorum of evaluations that makes the event.                           *)
LEMMA EvaluatedType ==
  ASSUME IndInv, NEW e \in pre, NEW n \in Nodes, NEW verdict, Evaluated(e, n, verdict)
  PROVE  LET ev == EventOfEvaluation(e, n, verdict)
         IN  /\ ev \in Events /\ ev.eval = e /\ ev.req = e.req /\ ev.sn = e.sn
             /\ e \in Evaluations /\ Kind[ev.req] = "fact"
             /\ Ready /\ stage # None /\ stage.stage = "evaluate"
<1> DEFINE by == SameEvaluation(e, n, verdict)
<1>1. Ready /\ stage # None /\ stage.stage = "evaluate" /\ verdict \in {"ok", "fail"}
  BY DEF Evaluated, EvaluationArrives, InStage
<1>2. Types /\ gov \in Versions /\ subject.sn \in Nat /\ e \in Evaluations
  BY DEF IndInv, Types, ControlOK, DbOK, EvaluationOK
<1>3. by \subseteq Nodes /\ Kind[e.req] = "fact"
  BY <1>2, SameEvaluationNodes DEF Types, EvaluationOK
<1>4. e.req \in Requests /\ e.sn \in Nat
  BY <1>2 DEF Evaluations
<1>5. EventOfEvaluation(e, n, verdict) =
        [req |-> e.req, sn |-> e.sn, prev |-> subject.sn, gov |-> gov,
         verdict |-> verdict, approved |-> TRUE, eval |-> e,
         evaluators |-> by, approvers |-> {}]
  BY DEF EventOfEvaluation
<1> HIDE DEF by
<1>6. QED
  BY <1>1, <1>2, <1>3, <1>4, <1>5 DEF Events

(* A quorum of evaluations submits the event.                              *)
LEMMA EvaluatedEventStep ==
  ASSUME IndInv, NEW e \in pre, NEW n \in Nodes, NEW verdict, NEW g \in Versions,
         EvaluatedEvent(e, n, verdict, g)
  PROVE  IndInv'
<1> DEFINE ev == EventOfEvaluation(e, n, verdict)
<1>1. /\ Evaluated(e, n, verdict)
      /\ SubmitEvent(ev, g) /\ CleanEvaluation(e) /\ stage' = Asking("validate", gov)
      /\ UNCHANGED <<apprReqs, approvals>>
  BY DEF EvaluatedEvent
<1>2. /\ ev \in Events /\ ev.eval \in Evaluations /\ Kind[ev.req] = "fact"
      /\ Ready /\ stage # None /\ stage.stage = "evaluate"
  BY <1>1, EvaluatedType
<1> HIDE DEF ev
<1>3. Types /\ gov \in Versions
  BY DEF IndInv, Types, ControlOK
<1>4. stage' \in StageRecords /\ stage'.stage = "validate"
  BY <1>1, <1>3, AskingRecord DEF Stages
<1>5. EvaluationOK' /\ ApprovalOK'
  BY <1>1, <1>3, CleanEvaluationOK DEF Types, ApprovalOK
<1>6. QED
  BY <1>1, <1>2, <1>4, <1>5, EventSubmitted DEF EvaluatedEvent

(* A vote without a quorum yet is kept.                                    *)
LEMMA KeepApprovalStep ==
  ASSUME IndInv, NEW a \in DOMAIN apprReqs, NEW n \in Nodes, NEW accept,
         KeepApproval(a, n, accept)
  PROVE  IndInv'
<1>1. /\ Ready /\ stage # None /\ approvals' = WithApproval(a, n, accept)
      /\ stage' = [stage EXCEPT !.signers = @ \ {n}]
  BY DEF KeepApproval, ApprovalArrives, InStage
<1>2. Types /\ stage \in StageRecords
  BY <1>1 DEF IndInv, Types, ControlOK
<1>3. stage' \in StageRecords /\ stage'.stage = stage.stage
  BY <1>1, <1>2, FewerSigners
<1>4. ApprovalOK'
  BY <1>1, <1>2 DEF KeepApproval, Types, ApprovalOK, WithApproval
<1>5. EvaluationOK' /\ ValidationOK'
  BY <1>2 DEF KeepApproval, Types, EvaluationOK, ValidationOK
<1>6. QED
  BY <1>1, <1>3, <1>4, <1>5, AnswerKept DEF KeepApproval

(* A quorum of votes makes the event, approved or not.                     *)
LEMMA ApprovedType ==
  ASSUME IndInv, NEW a \in DOMAIN apprReqs, NEW n \in Nodes, NEW accept \in BOOLEAN,
         NEW g \in Versions, Approved(a, n, accept)
  PROVE  LET ev == EventOfApproval(a, n, accept, g)
         IN  /\ ev \in Events /\ ev.eval = apprReqs[a].eval /\ ev.req = a.req /\ ev.sn = a.sn
             /\ ev.eval \in Evaluations /\ Kind[ev.req] = "fact"
             /\ Ready /\ stage # None /\ stage.stage = "approve"
<1> DEFINE by == SameApproval(a, n, accept)
<1>1. Ready /\ stage # None /\ stage.stage = "approve"
  BY DEF Approved, ApprovalArrives, InStage
<1>2. /\ by \subseteq Nodes /\ a \in ApprovalRequests /\ Kind[a.req] = "fact"
      /\ apprReqs[a].eval \in Evaluations /\ apprReqs[a].by \subseteq Nodes
  BY SameApprovalNodes DEF IndInv, Types, ApprovalOK
<1>3. a.req \in Requests /\ a.sn \in Nat /\ a.prev \in Nat
  BY <1>2 DEF ApprovalRequests
<1>4. EventOfApproval(a, n, accept, g) =
        [req |-> a.req, sn |-> a.sn, prev |-> a.prev, gov |-> g,
         verdict |-> "approve", approved |-> accept,
         eval |-> apprReqs[a].eval, evaluators |-> apprReqs[a].by,
         approvers |-> by]
  BY DEF EventOfApproval
<1> HIDE DEF by
<1>5. QED
  BY <1>1, <1>2, <1>3, <1>4 DEF Events

(* A quorum of votes submits the event.                                    *)
LEMMA ApprovedEventStep ==
  ASSUME IndInv, NEW a \in DOMAIN apprReqs, NEW n \in Nodes, NEW accept \in BOOLEAN,
         NEW g \in Versions, ApprovedEvent(a, n, accept, g)
  PROVE  IndInv'
<1> DEFINE ev == EventOfApproval(a, n, accept, g)
<1>1. /\ Approved(a, n, accept)
      /\ SubmitEvent(ev, g) /\ stage' = Validate(gov)
      /\ apprReqs' = Drop(apprReqs, a) /\ approvals' = {x \in approvals : x.appr # a}
      /\ UNCHANGED <<pre, evals>>
  BY DEF ApprovedEvent
<1>2. /\ ev \in Events /\ ev.eval \in Evaluations /\ Kind[ev.req] = "fact"
      /\ Ready /\ stage # None /\ stage.stage = "approve"
  BY <1>1, ApprovedType
<1> HIDE DEF ev
<1>3. Types /\ gov \in Versions
  BY DEF IndInv, Types, ControlOK
<1>4. stage' \in StageRecords /\ stage'.stage = "validate"
  BY <1>1, <1>3, ValidateRecord
<1>5. EvaluationOK' /\ ApprovalOK'
  BY <1>1, <1>3 DEF Types, EvaluationOK, ApprovalOK, Drop
<1>6. QED
  BY <1>1, <1>2, <1>4, <1>5, EventSubmitted DEF ApprovedEvent

(* A signature without a quorum yet is kept.                               *)
LEMMA KeepValidationStep ==
  ASSUME IndInv, NEW ev \in DOMAIN validating, NEW n \in Nodes, KeepValidation(ev, n)
  PROVE  IndInv'
<1>1. /\ Ready /\ stage # None /\ vals' = vals \cup {[event |-> ev, by |-> n]}
      /\ stage' = [stage EXCEPT !.signers = @ \ {n}]
  BY DEF KeepValidation, ValidationArrives, InStage
<1>2. Types /\ stage \in StageRecords
  BY <1>1 DEF IndInv, Types, ControlOK
<1>3. stage' \in StageRecords /\ stage'.stage = stage.stage
  BY <1>1, <1>2, FewerSigners
<1>4. ValidationOK'
  BY <1>1, <1>2 DEF KeepValidation, Types, ValidationOK
<1>5. EvaluationOK' /\ ApprovalOK'
  BY <1>2 DEF KeepValidation, Types, EvaluationOK, ApprovalOK
<1>6. QED
  BY <1>1, <1>3, <1>4, <1>5, AnswerKept DEF KeepValidation

(* A quorum of signatures hands the event to the ledger.                   *)
LEMMA HandToLedgerStep ==
  ASSUME IndInv, NEW ev \in DOMAIN validating, NEW n \in Nodes, HandToLedger(ev, n)
  PROVE  IndInv'
<1>1. /\ mode = "up" /\ handing = None /\ AtValidation /\ ValidatorsAccept(ev)
      /\ handing' = [phase |-> "ledger", event |-> ev]
      /\ vals' = vals \cup {[event |-> ev, by |-> n]}
      /\ UNCHANGED <<db, stage, pre, evals, apprReqs, approvals, validating, tracked,
                     currentSn, gov, notified, mode, submitted>>
  BY DEF HandToLedger, ValidationArrives, InStage, Ready, AtValidation
<1>2. Types /\ ev \in Events /\ ev = prevalidated /\ prevalidated # None
      /\ DOMAIN validating = {prevalidated}
  BY <1>1 DEF IndInv, Types, ValidationOK, IsMap, OneValidating
<1>3. /\ handing' \in Handings /\ handing'.phase = "ledger" /\ handing'.event = ev
      /\ handing' # None
  BY <1>1, <1>2, NoneAssumption DEF Handings
<1>4. DbOK' /\ EvaluationOK' /\ ApprovalOK' /\ SubmittedOK'
  BY <1>1, <1>2 DEF db, Types, DbOK, EvaluationOK, ApprovalOK, SubmittedOK
<1>5. ValidationOK'
  BY <1>1, <1>2 DEF Types, ValidationOK
<1>6. ControlOK'
  BY <1>1, <1>2, <1>3 DEF Types, ControlOK
<1>7. Idle' /\ OneValidating' /\ StageIsPersisted'
  BY <1>1, <1>2, <1>3 DEF db, Idle, OneValidating, StageIsPersisted, AtValidation, Ready
<1>8. NotOverwriting'
  BY <1>1, <1>3 DEF db, NotOverwriting, ValidatorsAccept
<1>9. Unfinished'
  BY <1>1 DEF db, IndInv, Unfinished, Applied
<1>10. QED
  BY <1>4, <1>5, <1>6, <1>7, <1>8, <1>9 DEF IndInv, Types

(* What is so while the ledger has the event.                              *)
LEMMA WithLedger ==
  ASSUME IndInv, InPhase("ledger") \/ InPhase("event") \/ InPhase("stored")
  PROVE  /\ mode = "up" /\ handing \in Handings /\ handing.phase # "deleted"
         /\ AtValidation /\ prevalidated # None /\ handing.event = prevalidated
         /\ DOMAIN validating = {prevalidated}
         /\ prevalidated \in Events /\ handing.event.sn \in Nat
<1>1. /\ mode = "up" /\ handing # None /\ handing.phase # "deleted"
      /\ handing \in Handings
  BY DEF InPhase, IndInv, Types, ControlOK
<1>2. /\ AtValidation /\ prevalidated # None /\ handing.event = prevalidated
      /\ DOMAIN validating = {prevalidated}
  BY <1>1 DEF IndInv, OneValidating
<1>3. prevalidated \in Events
  BY <1>2 DEF IndInv, Types, DbOK
<1>4. prevalidated.sn \in Nat
  BY <1>3 DEF Events
<1>5. QED
  BY <1>1, <1>2, <1>3, <1>4

(* The ledger goes on with an event, or answers.                           *)
LEMMA LedgerGoesOn ==
  ASSUME IndInv, InPhase("ledger") \/ InPhase("event"),
         NEW ph \in {"event", "stored"}, handing' = [handing EXCEPT !.phase = ph],
         UNCHANGED <<request, prevalidated, stage, pre, evals, apprReqs,
                     approvals, validating, vals, tracked, gov, notified, mode, submitted>>,
         DbOK', currentSn' \in Nat, Unfinished',
         ph = "event" => handing.event.sn \in DOMAIN events'
                         /\ events'[handing.event.sn] = handing.event
  PROVE  IndInv'
<1>1. /\ mode = "up" /\ handing \in Handings
      /\ AtValidation /\ prevalidated # None /\ handing.event = prevalidated
      /\ DOMAIN validating = {prevalidated}
  BY WithLedger
<1>3. handing' \in Handings /\ handing'.phase = ph /\ handing'.event = handing.event
  BY <1>1 DEF Handings
<1>4. handing' # None
  BY <1>3, NoneAssumption
<1>5. EvaluationOK' /\ ApprovalOK' /\ ValidationOK' /\ SubmittedOK'
  BY DEF IndInv, Types, EvaluationOK, ApprovalOK, ValidationOK, SubmittedOK
<1>6. ControlOK'
  BY <1>3 DEF IndInv, Types, ControlOK
<1>7. Idle' /\ OneValidating' /\ StageIsPersisted'
  BY <1>1, <1>3, <1>4
  DEF Idle, OneValidating, StageIsPersisted, AtValidation, Ready
<1>8. NotOverwriting'
  BY <1>1, <1>3 DEF NotOverwriting
<1>9. QED
  BY <1>5, <1>6, <1>7, <1>8 DEF IndInv, Types

(* The ledger stores the event.                                            *)
LEMMA StoreEventStep ==
  ASSUME IndInv, StoreEvent
  PROVE  IndInv'
<1> DEFINE ev == handing.event
<1>1. /\ InPhase("ledger") /\ events' = Put(events, ev.sn, ev)
      /\ known' = known \cup {ev.req}
      /\ handing' = [handing EXCEPT !.phase = "event"]
      /\ UNCHANGED <<subject, request, prevalidated, stage, pre, evals, apprReqs,
                     approvals, validating, vals, tracked, currentSn, gov, notified, mode,
                     submitted>>
  BY DEF StoreEvent
<1>2. ev = prevalidated /\ ev \in Events /\ ev.sn \in Nat
  BY <1>1, WithLedger
<1>3. ev.sn \in DOMAIN events => events[ev.sn] = ev
  <2>1. handing # None /\ handing.phase = "ledger"
    BY <1>1 DEF InPhase
  <2>2. QED
    BY <2>1 DEF IndInv, NotOverwriting
<1> HIDE DEF ev
<1>4. \A r : AppliedIn(events, r) => AppliedIn(events', r)
  BY <1>1, <1>3, AppliedStays
<1>5. Unfinished'
  BY <1>1, <1>4 DEF Applied, AppliedIn, IndInv, Unfinished
<1>6. IsMap(events', Nat, Events)
  BY <1>1, <1>2 DEF IndInv, Types, DbOK, IsMap, Put
<1>7. DbOK' /\ currentSn' \in Nat
  <2>1. ev.req \in Requests
    BY <1>2 DEF Events
  <2>2. QED
    BY <1>1, <1>6, <2>1 DEF IndInv, Types, DbOK, ControlOK
<1>8. ev.sn \in DOMAIN events' /\ events'[ev.sn] = ev
  BY <1>1 DEF Put
<1>9. QED
  BY <1>1, <1>5, <1>7, <1>8, LedgerGoesOn DEF ev

(* The ledger stores the subject, whatever the event makes of it.          *)
LEMMA StoreSubjectStep ==
  ASSUME IndInv, InPhase("event"), NEW s, StoreSubject(s),
         s \in [sn : Nat, state : States, owned : BOOLEAN, active : BOOLEAN],
         Kind[handing.event.req] = "fact" =>
           s.owned = subject.owned /\ s.active = subject.active
  PROVE  IndInv'
<1>1. /\ subject' = s /\ currentSn' = currentSn + 1
      /\ handing' = [handing EXCEPT !.phase = "stored"]
      /\ UNCHANGED <<events, request, prevalidated, known, stage, pre, evals, apprReqs,
                     approvals, validating, vals, tracked, gov, notified, mode, submitted>>
  BY DEF StoreSubject, LedgerAnswers
<1>2. handing.event = prevalidated /\ prevalidated # None
  BY WithLedger
<1>3. Applied(handing.event.req)
  BY DEF InPhase, IndInv, NotOverwriting, Applied
<1>4. Unfinished'
  <2>1. request # None /\ Kind[prevalidated.req] # "fact" => request = prevalidated.req
    BY <1>2 DEF IndInv, Unfinished
  <2>2. request' # None /\ ~ (subject'.owned /\ subject'.active) => Applied(request)'
    <3>1. CASE Kind[handing.event.req] = "fact"
      BY <1>1, <3>1 DEF Applied, IndInv, Unfinished
    <3>2. CASE Kind[handing.event.req] # "fact"
      BY <1>1, <1>2, <1>3, <2>1, <3>2 DEF Applied
    <3>3. QED
      BY <3>1, <3>2
  <2>3. prevalidated' # None => Applied(prevalidated.req)'
    BY <1>1, <1>2, <1>3 DEF Applied
  <2>4. /\ prevalidated' # None /\ request' # None /\ Kind[prevalidated'.req] # "fact" =>
             request' = prevalidated'.req
        /\ request' # None /\ Kind[request'] = "eol" => request' \in Own
    BY <1>1 DEF IndInv, Unfinished
  <2>5. QED
    BY <2>2, <2>3, <2>4 DEF Unfinished
<1>5. DbOK' /\ currentSn' \in Nat
  BY <1>1 DEF IndInv, Types, DbOK, ControlOK
<1>6. QED
  BY <1>1, <1>4, <1>5, LedgerGoesOn

(* event_validated stores the event and then the subject.                  *)
LEMMA EventValidatedStep ==
  ASSUME IndInv, EventValidated
  PROVE  IndInv'
<1>0. /\ subject \in [sn : Nat, state : States, owned : BOOLEAN, active : BOOLEAN]
  BY DEF IndInv, Types, DbOK
<1>1. CASE StoreFact
  <2>1. InPhase("event") /\ handing.event \in Events /\ handing.event.sn \in Nat
    BY <1>1, WithLedger DEF StoreFact, Sourcing
  <2>2. Patched(handing.event) \in States
    BY <1>0, <2>1 DEF Patched, States, Events
  <2> DEFINE s == [subject EXCEPT !.sn = handing.event.sn, !.state = Patched(handing.event)]
  <2>3. /\ s \in [sn : Nat, state : States, owned : BOOLEAN, active : BOOLEAN]
        /\ s.owned = subject.owned /\ s.active = subject.active
    BY <1>0, <2>1, <2>2
  <2>4. StoreSubject(s)
    BY <1>1 DEF StoreFact
  <2> HIDE DEF s
  <2>5. QED
    BY <2>1, <2>3, <2>4, StoreSubjectStep
<1>2. CASE StoreTransfer
  <2>1. /\ InPhase("event") /\ handing.event.sn \in Nat
        /\ Kind[handing.event.req] # "fact"
    BY <1>2, WithLedger DEF StoreTransfer, Sourcing
  <2> DEFINE own == handing.event.req \in Own
  <2>2. own \in BOOLEAN
    OBVIOUS
  <2>3. StoreSubject([subject EXCEPT !.sn = handing.event.sn, !.owned = own])
    BY <1>2 DEF StoreTransfer
  <2> HIDE DEF own
  <2>4. [subject EXCEPT !.sn = handing.event.sn, !.owned = own]
           \in [sn : Nat, state : States, owned : BOOLEAN, active : BOOLEAN]
    BY <1>0, <2>1, <2>2
  <2>5. QED
    BY <2>1, <2>3, <2>4, StoreSubjectStep
<1>3. CASE StoreEOL
  <2>1. /\ InPhase("event") /\ handing.event.sn \in Nat
        /\ Kind[handing.event.req] # "fact"
    BY <1>3, WithLedger DEF StoreEOL, Sourcing
  <2>2. [subject EXCEPT !.sn = handing.event.sn, !.active = FALSE]
           \in [sn : Nat, state : States, owned : BOOLEAN, active : BOOLEAN]
    BY <1>0, <2>1
  <2>3. QED
    BY <1>3, <2>1, <2>2, StoreSubjectStep DEF StoreEOL
<1>4. CASE RefuseFact
  <2>1. /\ InPhase("ledger") /\ handing' = [handing EXCEPT !.phase = "stored"]
        /\ UNCHANGED <<subject, events, currentSn, request, prevalidated, known, stage,
                       pre, evals, apprReqs, approvals, validating, vals, tracked, gov,
                       notified, mode, submitted>>
    BY <1>4 DEF RefuseFact, LedgerAnswers
  <2>2. DbOK' /\ Unfinished' /\ currentSn' \in Nat
    BY <2>1 DEF IndInv, Types, DbOK, ControlOK, Unfinished, Applied
  <2>3. QED
    BY <2>1, <2>2, LedgerGoesOn
<1>5. QED
  BY <1>1, <1>2, <1>3, <1>4, StoreEventStep DEF EventValidated

(* The completer forgets the event.                                        *)
LEMMA DelPrevalidatedStep ==
  ASSUME IndInv, DelPrevalidatedEvent
  PROVE  IndInv'
<1>1. /\ InPhase("stored") /\ prevalidated' = None
      /\ handing' = [handing EXCEPT !.phase = "deleted"]
      /\ UNCHANGED <<subject, events, request, known, stage, pre, evals, apprReqs,
                     approvals, validating, vals, tracked, currentSn, gov, notified,
                     mode, submitted>>
  BY DEF DelPrevalidatedEvent
<1>2. /\ mode = "up" /\ handing \in Handings /\ AtValidation
      /\ handing.event = prevalidated /\ DOMAIN validating = {prevalidated}
  BY <1>1, WithLedger
<1>3. handing' \in Handings /\ handing'.phase = "deleted" /\ handing'.event = handing.event
  BY <1>1, <1>2 DEF Handings
<1>4. handing' # None
  BY <1>3, NoneAssumption
<1>5. DbOK' /\ EvaluationOK' /\ ApprovalOK' /\ ValidationOK' /\ SubmittedOK'
  BY <1>1 DEF IndInv, Types, DbOK, EvaluationOK, ApprovalOK, ValidationOK, SubmittedOK
<1>6. ControlOK'
  BY <1>1, <1>3 DEF IndInv, Types, ControlOK
<1>7. Idle' /\ OneValidating' /\ StageIsPersisted'
  BY <1>1, <1>2, <1>3, <1>4
  DEF Idle, OneValidating, StageIsPersisted, AtValidation, Ready
<1>8. Unfinished' /\ NotOverwriting'
  BY <1>1, <1>2, <1>3
  DEF IndInv, Unfinished, NotOverwriting, Applied
<1>9. QED
  BY <1>5, <1>6, <1>7, <1>8 DEF IndInv, Types

(* The completer forgets the request and leaves the stage.                 *)
LEMMA FinishEventStep ==
  ASSUME IndInv, FinishEvent
  PROVE  IndInv'
<1>1. /\ mode = "up" /\ handing # None /\ handing.phase = "deleted"
      /\ request' = None /\ validating' = Drop(validating, handing.event)
      /\ vals' = {x \in vals : x.event # handing.event}
      /\ stage' = None /\ handing' = None
      /\ UNCHANGED <<subject, events, prevalidated, known, pre, evals, apprReqs,
                     approvals, tracked, currentSn, gov, notified, mode, submitted>>
  BY DEF FinishEvent, InPhase
<1>2. prevalidated = None /\ DOMAIN validating = {handing.event}
  BY <1>1 DEF IndInv, OneValidating
<1>3. DOMAIN validating' = {} /\ vals' = {}
  BY <1>1, <1>2 DEF Drop, IndInv, Types, ValidationOK
<1>4. ValidationOK'
  BY <1>3 DEF ValidationOK, IsMap
<1>5. DbOK' /\ EvaluationOK' /\ ApprovalOK' /\ SubmittedOK'
  BY <1>1 DEF IndInv, Types, DbOK, EvaluationOK, ApprovalOK, SubmittedOK
<1>6. ControlOK'
  BY <1>1 DEF IndInv, Types, ControlOK
<1>7. Idle' /\ OneValidating' /\ StageIsPersisted'
  BY <1>1, <1>2, <1>3 DEF Idle, OneValidating, StageIsPersisted, AtValidation, Ready
<1>8. Unfinished' /\ NotOverwriting'
  BY <1>1, <1>2 DEF Unfinished, NotOverwriting
<1>9. QED
  BY <1>4, <1>5, <1>6, <1>7, <1>8 DEF IndInv, Types

-----------------------------------------------------------------------------

(* A new request is registered and its first stage begins.                 *)
LEMMA PreNewEventStep ==
  ASSUME IndInv, NEW r \in Requests, PreNewEvent(r)
  PROVE  IndInv'
<1>1. /\ mode = "up" /\ handing = None /\ stage = None /\ MayStart(r) /\ NewEvent(r)
      /\ UNCHANGED <<subject, events, evals, apprReqs, approvals, vals, tracked,
                     handing, currentSn, gov, notified, mode>>
  BY DEF PreNewEvent, Accepted, Ready
<1>2. prevalidated = None /\ DOMAIN validating = {}
  BY <1>1 DEF IndInv, StageIsPersisted, OneValidating, AtValidation, Ready
<1>3. notified' \in 0 .. gov /\ currentSn' \in Nat
  BY <1>1 DEF IndInv, Types, ControlOK
<1>4. tracked' \in BOOLEAN
  BY <1>1 DEF IndInv, Types, ControlOK
<1>5. CASE Kind[r] = "fact"
  BY <1>1, <1>2, <1>3, <1>4, <1>5, EvaluationStarts DEF NewEvent
<1>6. CASE Kind[r] # "fact"
  BY <1>1, <1>2, <1>3, <1>4, <1>6, ValidationStarts DEF NewEvent
<1>7. QED
  BY <1>5, <1>6

(* Nothing but the versions of the governance changes.                     *)
LEMMA VersionsStep ==
  ASSUME IndInv, mode = "up", gov' \in Versions, notified' \in 0 .. gov',
         UNCHANGED <<db, memory, mode, submitted>>
  PROVE  IndInv'
<1>1. DbOK' /\ EvaluationOK' /\ ApprovalOK' /\ ValidationOK' /\ SubmittedOK'
  BY DEF db, memory, IndInv, Types, DbOK, EvaluationOK, ApprovalOK, ValidationOK, SubmittedOK
<1>2. ControlOK'
  BY DEF memory, IndInv, Types, ControlOK
<1>3. Idle' /\ OneValidating' /\ StageIsPersisted'
  BY DEF db, memory, IndInv, Idle, OneValidating, StageIsPersisted, AtValidation, Ready
<1>4. Unfinished' /\ NotOverwriting'
  BY DEF db, memory, IndInv, Unfinished, NotOverwriting, Applied
<1>5. QED
  BY <1>1, <1>2, <1>3, <1>4 DEF IndInv, Types

(* A version of the governance is stored, not yet read.                    *)
LEMMA GovernanceAdvancesStep ==
  ASSUME IndInv, GovernanceAdvances
  PROVE  IndInv'
<1>1. /\ mode = "up" /\ gov < MaxGov /\ gov' = gov + 1
      /\ UNCHANGED <<db, memory, notified, mode, submitted>>
  BY DEF GovernanceAdvances
<1>2. gov \in 0 .. MaxGov /\ notified \in 0 .. gov
  BY DEF IndInv, Types, ControlOK, Versions
<1>3. gov' \in Versions /\ notified' \in 0 .. gov'
  BY <1>1, <1>2, CompleterAssumption DEF Versions
<1>4. QED
  BY <1>1, <1>3, VersionsStep

(* The node stops and forgets what is not in the database.                 *)
LEMMA DownStep ==
  ASSUME IndInv, Down, DbOK', SubmittedOK', Unfinished', gov' \in Versions, gov' >= gov
  PROVE  IndInv'
<1>1. /\ mode' = "down"
      /\ stage' = None /\ pre' = {} /\ evals' = {} /\ DOMAIN apprReqs' = {}
      /\ approvals' = {} /\ DOMAIN validating' = {} /\ vals' = {}
      /\ tracked' = FALSE /\ handing' = None /\ currentSn' = 0
      /\ UNCHANGED notified
  BY DEF Down, NoMap
<1>2. EvaluationOK' /\ ApprovalOK' /\ ValidationOK'
  BY <1>1 DEF EvaluationOK, ApprovalOK, ValidationOK, IsMap
<1>3. ControlOK'
  <2>1. gov \in Versions /\ notified \in 0 .. gov
    BY DEF IndInv, Types, ControlOK
  <2>2. notified \in 0 .. gov'
    BY <2>1, CompleterAssumption DEF Versions
  <2>3. QED
    BY <1>1, <2>2 DEF ControlOK
<1>4. Idle' /\ OneValidating' /\ StageIsPersisted'
  BY <1>1 DEF Idle, OneValidating, StageIsPersisted, Ready
<1>5. NotOverwriting'
  BY <1>1 DEF NotOverwriting
<1>6. QED
  BY <1>2, <1>3, <1>4, <1>5 DEF IndInv, Types

(* The database is left as it is.                                          *)
LEMMA StopsStep ==
  ASSUME IndInv, Down, UNCHANGED <<request, prevalidated, known, submitted>>,
         gov' \in Versions, gov' >= gov
  PROVE  IndInv'
<1>1. UNCHANGED <<subject, events>>
  BY DEF Down
<1>2. DbOK' /\ SubmittedOK'
  BY <1>1 DEF IndInv, Types, DbOK, SubmittedOK
<1>3. Unfinished'
  BY <1>1 DEF IndInv, Unfinished, Applied
<1>4. QED
  BY <1>2, <1>3, DownStep

(* The event of a fact is saved and its request not deleted.               *)
LEMMA CrashSavedStep ==
  ASSUME IndInv, NEW ev \in Events, ev.eval \in Evaluations, Kind[ev.req] = "fact",
         NEW g \in Versions, CrashSaved(ev, g),
         Ready, stage # None, stage.stage # "validate"
  PROVE  IndInv'
<1>1. /\ prevalidated' = ev /\ gov' = g /\ g >= gov /\ submitted' = submitted \cup {ev}
      /\ Down /\ UNCHANGED <<subject, events, request, known>>
  BY DEF CrashSaved, CrashInside, Down
<1>2. Types /\ subject.owned /\ ev.eval # None
  BY NoneAssumption DEF IndInv, StageIsPersisted
<1>3. DbOK' /\ SubmittedOK'
  BY <1>1, <1>2 DEF Types, DbOK, SubmittedOK
<1>4. Unfinished'
  BY <1>1, <1>2 DEF IndInv, Unfinished, Applied
<1>5. QED
  BY <1>1, <1>3, <1>4, DownStep

(* A node that crashes, between handlers or between the writes of one,     *)
(* leaves a database it can start from.                                    *)
LEMMA CrashesStep ==
  ASSUME IndInv, Crashes
  PROVE  IndInv'
<1>0. Types /\ gov \in Versions /\ gov >= gov
  BY CompleterAssumption DEF IndInv, Types, ControlOK, Versions
<1>1. CASE Crash
  BY <1>0, <1>1, StopsStep DEF Crash, CrashInside
<1>2. ASSUME NEW r \in Requests, CrashUnstored(r) PROVE IndInv'
  <2>1. /\ known' = known \cup {r} /\ Down
        /\ UNCHANGED <<subject, events, request, prevalidated, gov, submitted>>
    BY <1>2 DEF CrashUnstored, CrashInside, Down
  <2>2. DbOK' /\ SubmittedOK'
    BY <1>0, <2>1 DEF Types, DbOK, SubmittedOK
  <2>3. Unfinished'
    BY <2>1 DEF IndInv, Unfinished, Applied
  <2>4. QED
    BY <1>0, <2>1, <2>2, <2>3, DownStep
<1>3. ASSUME NEW r \in Requests, CrashUnrequested(r) PROVE IndInv'
  <2> DEFINE ev == EventNoEval(r)
  <2>1. /\ Kind[r] # "fact" /\ MayStart(r) /\ prevalidated' = ev
        /\ request' \in {request, None} /\ known' \in {known, known \cup {r}}
        /\ submitted' = submitted \cup {ev} /\ Down
        /\ UNCHANGED <<subject, events, gov>>
    BY <1>3 DEF CrashUnrequested, CrashInside, Down
  <2>2. ev \in Events /\ ev.req = r /\ ev.eval = None /\ ev # None
    BY <1>0, EventNoEvalType, NoneAssumption DEF Types
  <2>3. request = None \/ request = r
    BY <1>3 DEF CrashUnrequested, Accepted, IndInv, StageIsPersisted
  <2> HIDE DEF ev
  <2>4. DbOK' /\ SubmittedOK'
    BY <1>0, <2>1, <2>2 DEF Types, DbOK, SubmittedOK
  <2>5. Unfinished'
    BY <2>1, <2>2, <2>3 DEF Unfinished, MayStart
  <2>6. QED
    BY <1>0, <2>1, <2>4, <2>5, DownStep
<1>4. ASSUME NEW n \in Nodes, NEW g \in Versions, NEW e \in pre, NEW verdict,
             CrashEvaluated(e, n, verdict, g)
      PROVE  IndInv'
  <2>1. Evaluated(e, n, verdict) /\ CrashSaved(EventOfEvaluation(e, n, verdict), g)
    BY <1>4 DEF CrashEvaluated
  <2>2. QED
    BY <2>1, EvaluatedType, CrashSavedStep
<1>5. ASSUME NEW n \in Nodes, NEW g \in Versions, NEW a \in DOMAIN apprReqs,
             NEW accept \in BOOLEAN, CrashApproved(a, n, accept, g)
      PROVE  IndInv'
  <2> DEFINE ev == EventOfApproval(a, n, accept, g)
  <2>1. Approved(a, n, accept) /\ (CrashUnsaved(ev, g) \/ CrashSaved(ev, g))
    BY <1>5 DEF CrashApproved
  <2>2. CASE CrashUnsaved(ev, g)
    BY <2>2, StopsStep DEF CrashUnsaved, CrashInside
  <2>3. CASE CrashSaved(ev, g)
    BY <2>1, <2>3, ApprovedType, CrashSavedStep
  <2>4. QED
    BY <2>1, <2>2, <2>3
<1>6. QED
  BY <1>1, <1>2, <1>3, <1>4, <1>5 DEF Crashes

(* The stages begin again under the new version.                           *)
LEMMA NewGovernanceVersionStep ==
  ASSUME IndInv, NewGovernanceVersion
  PROVE  IndInv'
<1>0. /\ mode = "up" /\ handing = None /\ notified < gov
      /\ gov \in Versions /\ notified \in 0 .. gov /\ gov \in Nat
  BY CompleterAssumption DEF NewGovernanceVersion, UpdateNothing, UpdateReevaluates,
     UpdateRevalidates, UpdateDoesBoth, UpdateStops, GovernanceUpdate, Ready, IndInv, Types,
     ControlOK, Versions
<1>1. CASE UpdateNothing
  <2>1. notified' \in 0 .. gov' /\ gov' = gov
    BY <1>0, <1>1 DEF UpdateNothing, GovernanceUpdate
  <2>2. QED
    BY <1>0, <1>1, <2>1, VersionsStep DEF UpdateNothing
<1>2. CASE UpdateReevaluates
  <2>1. /\ request # None /\ prevalidated = None
        /\ Kind[request] = "fact" /\ MayStart(request)
        /\ StartEvaluation(request) /\ notified' = notified + 1
        /\ UNCHANGED <<subject, events, evals, apprReqs, approvals, vals, tracked,
                       handing, currentSn, gov, mode>>
    BY <1>2 DEF UpdateReevaluates, GovernanceUpdate
  <2>2. prevalidated = None /\ request \in Requests
    BY <2>1 DEF IndInv, Unfinished, Types, DbOK
  <2>3. DOMAIN validating = {}
    BY <1>0, <2>2 DEF IndInv, OneValidating
  <2>4. notified' \in 0 .. gov /\ currentSn' \in Nat
    BY <1>0, <2>1 DEF IndInv, Types, ControlOK
  <2>5. tracked' \in BOOLEAN
    BY <2>1 DEF IndInv, Types, ControlOK
  <2>6. QED
    BY <1>0, <2>1, <2>2, <2>3, <2>4, <2>5, EvaluationStarts
<1>3. CASE UpdateRevalidates \/ UpdateDoesBoth
  <2>1. /\ prevalidated # None /\ subject.owned /\ Revalidate /\ notified' = notified + 1
        /\ \/ pre' = pre
           \/ /\ request # None /\ Kind[request] = "fact"
              /\ pre' = pre \cup {EvaluationRequest(request)}
        /\ known' = known \/ (request # None /\ known' = known \cup {request})
    BY <1>3 DEF UpdateRevalidates, UpdateDoesBoth, GovernanceUpdate, MayStart
  <2>2. /\ validating' = Put(validating, prevalidated, notified')
        /\ stage' = Validate(notified')
        /\ UNCHANGED <<subject, events, request, prevalidated, evals, apprReqs, approvals,
                       vals, tracked, handing, currentSn, gov, mode, submitted>>
    BY <2>1 DEF Revalidate
  <2>3. notified' \in 0 .. gov /\ notified' \in Versions
    BY <1>0, <2>1, CompleterAssumption DEF Versions
  <2>4. currentSn' \in Nat /\ Types
    BY <2>2 DEF IndInv, Types, ControlOK
  <2>5. tracked' \in BOOLEAN
    BY <2>2 DEF IndInv, Types, ControlOK
  <2>6. known' \subseteq Requests
    BY <2>1, <2>4 DEF Types, DbOK
  <2>7. EvaluationOK'
    <3>1. CASE pre' = pre
      BY <2>2, <2>4, <3>1 DEF Types, EvaluationOK
    <3>2. CASE request # None /\ Kind[request] = "fact" /\ pre' = pre \cup {EvaluationRequest(request)}
      <4>1. request \in Requests
        BY <2>4, <3>2 DEF Types, DbOK
      <4>2. EvaluationRequest(request) \in Evaluations /\ EvaluationRequest(request).req = request
        BY <2>4, <4>1, EvaluationRequestType DEF Types
      <4>3. QED
        BY <2>2, <2>4, <3>2, <4>2 DEF Types, EvaluationOK
    <3>3. QED
      BY <2>1, <3>1, <3>2
  <2>8. \A g \in Versions : g = notified' =>
          validating' = Put(validating, prevalidated, g) /\ stage' = Validate(g)
    BY <2>2
  <2>9. QED
    BY <1>0, <2>1, <2>2, <2>3, <2>4, <2>5, <2>6, <2>7, <2>8, ValidationResumes
<1>4. CASE UpdateStops
  <2>1. gov >= gov
    BY <1>0
  <2>2. QED
    BY <1>0, <1>4, <2>1, StopsStep DEF UpdateStops
<1>5. QED
  BY <1>1, <1>2, <1>3, <1>4 DEF NewGovernanceVersion

(* A start rebuilds the stage from the database.                           *)
LEMMA RestartStep ==
  ASSUME IndInv, Restart
  PROVE  IndInv'
<1>0. /\ mode = "down" /\ stage = None /\ handing = None /\ pre = {}
      /\ DOMAIN apprReqs = {} /\ DOMAIN validating = {}
      /\ Types /\ gov \in Versions /\ gov \in 0 .. gov /\ subject.sn \in Nat
  BY CompleterAssumption
  DEF Restart, StartIdle, StartRevalidates, StartRequest, StartFails, Start,
      IndInv, Idle, Types, ControlOK, DbOK, Versions
<1>1. ASSUME Start
      PROVE  /\ mode' = "up" /\ handing' = None /\ tracked' \in BOOLEAN
             /\ currentSn' \in Nat /\ notified' \in 0 .. gov
             /\ UNCHANGED <<subject, events, evals, apprReqs, approvals, vals, gov>>
  BY <1>0, <1>1 DEF Start
<1>2. CASE StartIdle
  <2>0. Start /\ UNCHANGED <<request, prevalidated, known, stage, pre, validating, submitted>>
        /\ prevalidated = None /\ request = None
    BY <1>2 DEF StartIdle
  <2>1. DbOK' /\ EvaluationOK' /\ ApprovalOK' /\ ValidationOK' /\ SubmittedOK'
    BY <1>0, <1>1, <2>0
    DEF Types, DbOK, EvaluationOK, ApprovalOK, ValidationOK, SubmittedOK
  <2>2. ControlOK'
    BY <1>0, <1>1, <2>0 DEF Types, ControlOK
  <2>3. Idle' /\ OneValidating' /\ StageIsPersisted'
    BY <1>0, <1>1, <2>0 DEF Idle, OneValidating, StageIsPersisted, AtValidation, Ready
  <2>4. Unfinished' /\ NotOverwriting'
    BY <1>1, <2>0 DEF Unfinished, NotOverwriting
  <2>5. QED
    BY <2>1, <2>2, <2>3, <2>4 DEF IndInv, Types
<1>3. CASE StartRevalidates
  <2>1. /\ Start /\ prevalidated # None /\ subject.owned
        /\ validating' = Put(validating, prevalidated, gov)
        /\ submitted' = submitted \cup {prevalidated} /\ stage' = Validate(gov)
        /\ UNCHANGED <<request, prevalidated, known, pre>>
    BY <1>3 DEF StartRevalidates
  <2>2. known' \subseteq Requests /\ EvaluationOK'
    BY <1>0, <1>1, <2>1 DEF Types, DbOK, EvaluationOK
  <2>3. QED
    BY <1>0, <1>1, <2>1, <2>2, ValidationResumes
<1>4. CASE StartRequest
  <2>1. /\ Start /\ prevalidated = None /\ request # None
        /\ MayStart(request) /\ NewEvent(request)
    BY <1>4 DEF StartRequest
  <2>2. request \in Requests
    BY <1>0, <2>1 DEF Types, DbOK
  <2>3. CASE Kind[request] = "fact"
    BY <1>0, <1>1, <2>1, <2>2, <2>3, EvaluationStarts DEF NewEvent
  <2>4. CASE Kind[request] # "fact"
    BY <1>0, <1>1, <2>1, <2>2, <2>4, ValidationStarts DEF NewEvent
  <2>5. QED
    BY <2>3, <2>4
<1>5. CASE StartFails
  <2>1. /\ mode' = "failed"
        /\ UNCHANGED <<db, memory, gov, notified, submitted>>
    BY <1>5 DEF StartFails
  <2>2. DbOK' /\ EvaluationOK' /\ ApprovalOK' /\ ValidationOK' /\ SubmittedOK'
    BY <1>0, <2>1
    DEF db, memory, Types, DbOK, EvaluationOK, ApprovalOK, ValidationOK, SubmittedOK
  <2>3. ControlOK'
    BY <1>0, <2>1 DEF memory, Types, ControlOK
  <2>4. Idle' /\ OneValidating' /\ StageIsPersisted'
    BY <1>0, <2>1 DEF memory, Idle, OneValidating, StageIsPersisted, Ready
  <2>5. Unfinished' /\ NotOverwriting'
    BY <2>1 DEF db, memory, IndInv, Unfinished, NotOverwriting, Applied
  <2>7. QED
    BY <2>2, <2>3, <2>4, <2>5 DEF IndInv, Types
<1>6. QED
  BY <1>2, <1>3, <1>4, <1>5 DEF Restart

(* A step that changes nothing.                                            *)
LEMMA StutterStep ==
  ASSUME IndInv, UNCHANGED vars
  PROVE  IndInv'
<1>1. UNCHANGED <<db, memory, gov, notified, mode, submitted>>
  BY DEF vars
<1>2. DbOK' /\ EvaluationOK' /\ ApprovalOK' /\ ValidationOK' /\ SubmittedOK'
  BY <1>1
  DEF db, memory, IndInv, Types, DbOK, EvaluationOK, ApprovalOK, ValidationOK, SubmittedOK
<1>3. ControlOK'
  BY <1>1 DEF memory, IndInv, Types, ControlOK
<1>4. Idle' /\ OneValidating' /\ StageIsPersisted'
  BY <1>1 DEF db, memory, IndInv, Idle, OneValidating, StageIsPersisted, AtValidation, Ready
<1>5. Unfinished' /\ NotOverwriting'
  BY <1>1 DEF db, memory, IndInv, Unfinished, NotOverwriting, Applied
<1>6. QED
  BY <1>2, <1>3, <1>4, <1>5 DEF IndInv, Types

(* Every step keeps the inductive invariant.                               *)
LEMMA NextInv == IndInv /\ [Next]_vars => IndInv'
<1> SUFFICES ASSUME IndInv, [Next]_vars PROVE IndInv'
  OBVIOUS
<1>1. CASE UNCHANGED vars
  BY <1>1, StutterStep
<1>2. ASSUME NEW r \in Requests, PreNewEvent(r) PROVE IndInv'
  BY <1>2, PreNewEventStep
<1>3. ASSUME NEW n \in Nodes, EvaluatorResponse(n) PROVE IndInv'
  BY <1>3, KeepEvaluationStep, EvaluatedEventStep, RejectEvaluationStep, AskApprovalStep
  DEF EvaluatorResponse
<1>4. ASSUME NEW n \in Nodes, ApproverResponse(n) PROVE IndInv'
  BY <1>4, KeepApprovalStep, ApprovedEventStep DEF ApproverResponse
<1>5. ASSUME NEW n \in Nodes, ValidatorResponse(n) PROVE IndInv'
  BY <1>5, KeepValidationStep, HandToLedgerStep DEF ValidatorResponse
<1>6. CASE Complete
  BY <1>6, EventValidatedStep, DelPrevalidatedStep, FinishEventStep DEF Complete
<1>7. CASE GovernanceAdvances
  BY <1>7, GovernanceAdvancesStep
<1>8. CASE NewGovernanceVersion
  BY <1>8, NewGovernanceVersionStep
<1>9. CASE Crashes
  BY <1>9, CrashesStep
<1>10. CASE Restart
  BY <1>10, RestartStep
<1>11. QED
  BY <1>1, <1>2, <1>3, <1>4, <1>5, <1>6, <1>7, <1>8, <1>9, <1>10 DEF Next

(* The state of the completer and of its part of the ledger has its type   *)
(* in every reachable state (event_completer.rs EventCompleter).           *)
THEOREM TypeCorrect == Spec => []TypeOK
<1>1. IndInv => TypeOK
  BY TypesGiveTypeOK DEF IndInv
<1>2. QED
  BY <1>1, InitInv, NextInv, PTL DEF Spec

(* The database always holds what a restart or a governance update needs   *)
(* to resume the stage in memory, and the keys an answer is handled with   *)
(* are there (event_completer.rs init, new_governance_version,             *)
(* evaluator_signatures).                                                  *)
THEOREM StagePersisted == Spec => []StageIsPersisted
<1>1. IndInv => StageIsPersisted
  BY DEF IndInv
<1>2. QED
  BY <1>1, InitInv, NextInv, PTL DEF Spec

-----------------------------------------------------------------------------
(* The number of the event in validation, and the last stored event: the   *)
(* subject's, except while the ledger is between its two writes, and in a  *)
(* node that stopped there.                                                *)
StoredLast ==
  /\ prevalidated # None /\ Kind[prevalidated.req] # "fact" =>
       prevalidated.sn \in {subject.sn, subject.sn + 1}
  /\ IF handing # None /\ handing.phase = "event"
     THEN /\ handing.event.sn \in {subject.sn, subject.sn + 1}
          /\ \A k \in DOMAIN events : k <= handing.event.sn
     ELSE \/ IsLastEvent(subject.sn)
          \/ mode # "up" /\ prevalidated # None /\ Applied(prevalidated.req)

StoredInv == StoredLast /\ FailsOnlyAfterStoring

(* Initially only the genesis is stored.                                   *)
LEMMA InitStored == Init => StoredInv
<1> SUFFICES ASSUME Init PROVE StoredInv
  OBVIOUS
<1>1. DOMAIN events = {} /\ subject.sn = 0
  BY DEF Init, NoMap
<1>2. QED
  BY <1>1 DEF Init, StoredInv, StoredLast, FailsOnlyAfterStoring, IsLastEvent

(* Outside the ledger's writes a running node has the subject at its last  *)
(* event.                                                                  *)
LEMMA RunningAtLast ==
  ASSUME StoredInv, mode = "up", ~ (handing # None /\ handing.phase = "event")
  PROVE  IsLastEvent(subject.sn)
  BY DEF StoredInv, StoredLast

(* A step that leaves events and subject alone and stays out of the two    *)
(* writes, with the same event in validation, none, or the next one.       *)
LEMMA StoredStays ==
  ASSUME IsLastEvent(subject.sn), UNCHANGED <<subject, events>>,
         mode' = "up", ~ (handing # None /\ handing.phase = "event")',
         prevalidated' # None /\ Kind[prevalidated'.req] # "fact" =>
           prevalidated'.sn \in {subject.sn, subject.sn + 1}
  PROVE  StoredInv'
  BY DEF StoredInv, StoredLast, FailsOnlyAfterStoring, IsLastEvent

(* The ledger writes the event and then the subject.                       *)
LEMMA StoredValidated ==
  ASSUME IndInv, StoredInv, EventValidated
  PROVE  StoredInv'
<1> DEFINE ev == handing.event
<1>1. /\ InPhase("ledger") \/ InPhase("event")
      /\ UNCHANGED <<prevalidated, mode>>
  BY DEF EventValidated, StoreEvent, RefuseFact, StoreFact, StoreTransfer, StoreEOL,
         Sourcing, StoreSubject, LedgerAnswers
<1>2. /\ mode = "up" /\ handing \in Handings /\ prevalidated # None
      /\ ev = prevalidated /\ ev \in Events /\ ev.sn \in Nat
      /\ subject.sn \in Nat /\ IsMap(events, Nat, Events)
  BY <1>1, WithLedger DEF IndInv, Types, DbOK
<1>3. CASE StoreEvent
  <2>1. /\ InPhase("ledger") /\ ~ WrongSnInSubject(ev)
        /\ events' = Put(events, ev.sn, ev) /\ subject' = subject
        /\ handing' = [handing EXCEPT !.phase = "event"]
    BY <1>3 DEF StoreEvent
  <2>2. IsLastEvent(subject.sn)
    BY <1>2, <2>1, RunningAtLast DEF InPhase
  <2>3. ev.sn \in {subject.sn, subject.sn + 1}
    <3>1. CASE Kind[ev.req] = "fact"
      BY <1>2, <2>1, <3>1 DEF WrongSnInSubject
    <3>2. CASE Kind[ev.req] # "fact"
      BY <1>2, <3>2 DEF StoredInv, StoredLast
    <3>3. QED
      BY <3>1, <3>2
  <2>4. handing' # None /\ handing'.phase = "event" /\ handing'.event = ev
    BY <1>2, <2>1, NoneAssumption DEF Handings
  <2>5. \A k \in DOMAIN events' : k <= ev.sn
    <3>1. DOMAIN events' = DOMAIN events \cup {ev.sn}
      BY <2>1 DEF Put
    <3>2. \A k \in DOMAIN events : k \in Nat /\ k <= subject.sn
      BY <1>2, <2>2 DEF IsLastEvent, IsMap
    <3>3. QED
      BY <1>2, <2>3, <3>1, <3>2
  <2>6. QED
    BY <1>1, <1>2, <2>1, <2>3, <2>4, <2>5 DEF StoredInv, StoredLast, FailsOnlyAfterStoring
<1>4. CASE RefuseFact
  <2>1. /\ InPhase("ledger") /\ handing' = [handing EXCEPT !.phase = "stored"]
        /\ UNCHANGED <<subject, events>>
    BY <1>4 DEF RefuseFact, LedgerAnswers
  <2>2. IsLastEvent(subject.sn)
    BY <1>2, <2>1, RunningAtLast DEF InPhase
  <2>3. handing'.phase = "stored"
    BY <1>2, <2>1 DEF Handings
  <2>4. prevalidated' # None /\ Kind[prevalidated'.req] # "fact" =>
          prevalidated'.sn \in {subject.sn, subject.sn + 1}
    BY <1>1 DEF StoredInv, StoredLast
  <2>5. QED
    BY <1>1, <1>2, <2>1, <2>2, <2>3, <2>4, StoredStays
<1>5. CASE StoreFact \/ StoreTransfer \/ StoreEOL
  <2>1. /\ InPhase("event") /\ subject'.sn = ev.sn
        /\ handing' = [handing EXCEPT !.phase = "stored"] /\ events' = events
    <3>1. subject \in [sn : Nat, state : States, owned : BOOLEAN, active : BOOLEAN]
      BY DEF IndInv, Types, DbOK
    <3>2. QED
      BY <1>5, <3>1 DEF StoreFact, StoreTransfer, StoreEOL, Sourcing, StoreSubject,
         LedgerAnswers
  <2>2. ev.sn \in DOMAIN events /\ \A k \in DOMAIN events : k <= ev.sn
    BY <2>1 DEF InPhase, StoredInv, StoredLast, IndInv, NotOverwriting
  <2>3. IsLastEvent(subject.sn)'
    BY <2>1, <2>2 DEF IsLastEvent
  <2>4. handing'.phase = "stored"
    BY <1>2, <2>1 DEF Handings
  <2>5. QED
    BY <1>1, <1>2, <2>1, <2>3, <2>4 DEF StoredInv, StoredLast, FailsOnlyAfterStoring
<1>6. QED
  BY <1>3, <1>4, <1>5 DEF EventValidated

(* A node that stops between the two writes has an event that is applied.  *)
LEMMA StoredStops ==
  ASSUME IndInv, StoredInv, mode = "up", Down, UNCHANGED prevalidated
  PROVE  StoredInv'
<1>1. mode' = "down" /\ handing' = None /\ UNCHANGED <<subject, events>>
  BY DEF Down
<1>2. CASE handing # None /\ handing.phase = "event"
  <2>1. prevalidated # None /\ Applied(prevalidated.req)
    BY <1>2, WithLedger DEF InPhase, IndInv, NotOverwriting, Applied
  <2>2. QED
    BY <1>1, <2>1 DEF StoredInv, StoredLast, FailsOnlyAfterStoring, Applied, IsLastEvent
<1>3. CASE ~ (handing # None /\ handing.phase = "event")
  BY <1>1, <1>3 DEF StoredInv, StoredLast, FailsOnlyAfterStoring, Applied, IsLastEvent
<1>4. QED
  BY <1>2, <1>3

(* A crash inside another handler finds the subject at its last event.     *)
LEMMA StoredCrashes ==
  ASSUME IndInv, StoredInv, Crashes
  PROVE  StoredInv'
<1>1. ASSUME IsLastEvent(subject.sn), Down,
             prevalidated' # None /\ Kind[prevalidated'.req] # "fact" =>
               prevalidated' = prevalidated \/ prevalidated'.sn = subject.sn + 1
      PROVE  StoredInv'
  <2>1. mode' = "down" /\ handing' = None /\ UNCHANGED <<subject, events>>
    BY <1>1 DEF Down
  <2>2. prevalidated' # None /\ Kind[prevalidated'.req] # "fact" =>
          prevalidated'.sn \in {subject.sn, subject.sn + 1}
    BY <1>1 DEF StoredInv, StoredLast
  <2>3. QED
    BY <1>1, <2>1, <2>2 DEF StoredInv, StoredLast, FailsOnlyAfterStoring, IsLastEvent
<1>2. ASSUME Ready PROVE IsLastEvent(subject.sn)
  BY <1>2, RunningAtLast DEF Ready
<1>3. CASE Crash
  BY <1>3, StoredStops DEF Crash, CrashInside
<1>4. ASSUME NEW r \in Requests, CrashUnstored(r) PROVE StoredInv'
  BY <1>1, <1>2, <1>4 DEF CrashUnstored, CrashInside, Accepted
<1>5. ASSUME NEW r \in Requests, CrashUnrequested(r) PROVE StoredInv'
  <2>1. /\ Ready \/ IsLastEvent(subject.sn)
        /\ prevalidated' = EventNoEval(r)
    BY <1>5 DEF CrashUnrequested, CrashInside, Accepted
  <2>2. EventNoEval(r).sn = subject.sn + 1
    BY DEF EventNoEval
  <2>3. QED
    BY <1>1, <1>2, <1>5, <2>1, <2>2 DEF CrashUnrequested, CrashInside
<1>6. ASSUME NEW n \in Nodes, NEW g \in Versions, NEW e \in pre, NEW verdict,
             CrashEvaluated(e, n, verdict, g)
      PROVE  StoredInv'
  <2>1. Evaluated(e, n, verdict) /\ Down /\ prevalidated' = EventOfEvaluation(e, n, verdict)
    BY <1>6 DEF CrashEvaluated, CrashSaved, CrashInside
  <2>2. QED
    BY <1>1, <1>2, <2>1, EvaluatedType
<1>7. ASSUME NEW n \in Nodes, NEW g \in Versions, NEW a \in DOMAIN apprReqs,
             NEW accept \in BOOLEAN, CrashApproved(a, n, accept, g)
      PROVE  StoredInv'
  <2>1. /\ Approved(a, n, accept) /\ Down
        /\ prevalidated' \in {prevalidated, EventOfApproval(a, n, accept, g)}
    BY <1>7 DEF CrashApproved, CrashUnsaved, CrashSaved, CrashInside
  <2>2. QED
    BY <1>1, <1>2, <2>1, ApprovedType
<1>8. QED
  BY <1>3, <1>4, <1>5, <1>6, <1>7 DEF Crashes

(* A start goes on only from a subject at its last event.                  *)
LEMMA StoredRestart ==
  ASSUME IndInv, StoredInv, Restart
  PROVE  StoredInv'
<1>1. mode = "down" /\ handing = None
  BY DEF Restart, StartIdle, StartRevalidates, StartRequest, StartFails, Start, IndInv, Idle
<1>2. ASSUME Start PROVE /\ IsLastEvent(subject.sn) /\ UNCHANGED <<subject, events>>
                         /\ mode' = "up" /\ handing' = None
  BY <1>1, <1>2 DEF Start
<1>3. CASE StartIdle \/ StartRevalidates
  <2>1. Start /\ prevalidated' = prevalidated
    BY <1>3 DEF StartIdle, StartRevalidates
  <2>2. QED
    BY <1>2, <2>1, StoredStays DEF StoredInv, StoredLast
<1>4. CASE StartRequest
  <2>1. /\ Start /\ prevalidated = None /\ NewEvent(request)
    BY <1>4 DEF StartRequest
  <2>2. prevalidated' # None => prevalidated'.sn = subject.sn + 1
    BY <2>1 DEF NewEvent, StartEvaluation, StartValidation, EventNoEval
  <2>3. QED
    BY <1>2, <2>1, <2>2, StoredStays
<1>5. CASE StartFails
  <2>1. /\ mode' = "failed" /\ UNCHANGED <<subject, events, prevalidated, request, handing, gov>>
        /\ \/ ~ IsLastEvent(subject.sn)
           \/ prevalidated # None /\ ~ subject.owned
           \/ prevalidated = None /\ request # None /\ ~ MayStart(request)
    BY <1>5 DEF StartFails, db, memory
  <2>2. StoredLast'
    BY <1>1, <2>1 DEF StoredInv, StoredLast, Applied, IsLastEvent
  <2>3. IF prevalidated # None THEN Applied(prevalidated.req)
        ELSE Applied(request) \/ request \notin Own \cup Permitted[gov]
    <3>1. CASE ~ IsLastEvent(subject.sn)
      BY <1>1, <3>1 DEF StoredInv, StoredLast
    <3>2. CASE prevalidated # None /\ ~ subject.owned
      BY <3>2 DEF IndInv, Unfinished
    <3>3. CASE prevalidated = None /\ request # None /\ ~ MayStart(request)
      BY <3>3 DEF IndInv, Unfinished, MayStart
    <3>4. QED
      BY <2>1, <3>1, <3>2, <3>3
  <2>4. QED
    BY <2>1, <2>2, <2>3 DEF StoredInv, FailsOnlyAfterStoring, Applied
<1>6. QED
  BY <1>3, <1>4, <1>5 DEF Restart

(* Every step keeps the subject at the last stored event, or has an        *)
(* applied event in the database.                                          *)
LEMMA NextStored == IndInv /\ StoredInv /\ [Next]_vars => StoredInv'
<1> SUFFICES ASSUME IndInv, StoredInv, [Next]_vars PROVE StoredInv'
  OBVIOUS
<1>1. ASSUME UNCHANGED <<subject, events, prevalidated, request, handing, mode>>,
             gov' = gov \/ mode = "up"
      PROVE  StoredInv'
  BY <1>1 DEF StoredInv, StoredLast, FailsOnlyAfterStoring, Applied, IsLastEvent
<1>2. CASE UNCHANGED vars
  BY <1>1, <1>2 DEF vars, db, memory
<1>3. ASSUME Ready, UNCHANGED <<subject, events, handing, mode>>,
             prevalidated' # None /\ Kind[prevalidated'.req] # "fact" =>
               \/ prevalidated' = prevalidated
               \/ prevalidated'.sn = subject.sn + 1
      PROVE  StoredInv'
  <2>1. IsLastEvent(subject.sn) /\ mode' = "up" /\ handing' = None
    BY <1>3, RunningAtLast DEF Ready
  <2>2. prevalidated' # None /\ Kind[prevalidated'.req] # "fact" =>
          prevalidated'.sn \in {subject.sn, subject.sn + 1}
    BY <1>3 DEF StoredInv, StoredLast
  <2>3. QED
    BY <1>3, <2>1, <2>2, StoredStays
<1>4. ASSUME NEW r \in Requests, PreNewEvent(r) PROVE StoredInv'
  BY <1>3, <1>4
  DEF PreNewEvent, Accepted, NewEvent, StartEvaluation, StartValidation, EventNoEval
<1>5. ASSUME NEW n \in Nodes, EvaluatorResponse(n) PROVE StoredInv'
  <2>1. PICK e \in pre :
          \/ \E verdict \in Verdicts[e.req] :
               \/ KeepEvaluation(e, n, verdict)
               \/ \E g \in Versions : EvaluatedEvent(e, n, verdict, g)
          \/ RejectEvaluation(e, n)
          \/ AskApproval(e, n)
    BY <1>5 DEF EvaluatorResponse
  <2>2. Kind[e.req] = "fact"
    BY DEF IndInv, Types, EvaluationOK
  <2>3. ASSUME NEW verdict, NEW g, EvaluatedEvent(e, n, verdict, g) PROVE StoredInv'
    <3>1. /\ Ready /\ prevalidated'.req = e.req
          /\ UNCHANGED <<subject, events, handing, mode>>
      BY <2>3 DEF EvaluatedEvent, Evaluated, EvaluationArrives, InStage, SubmitEvent,
         EventOfEvaluation
    <3>2. QED
      BY <1>3, <2>2, <3>1
  <2>4. ASSUME UNCHANGED <<db, handing, mode, gov>> PROVE StoredInv'
    BY <1>1, <2>4 DEF db
  <2>5. QED
    BY <2>1, <2>3, <2>4 DEF KeepEvaluation, RejectEvaluation, AskApproval
<1>6. ASSUME NEW n \in Nodes, ApproverResponse(n) PROVE StoredInv'
  <2>1. PICK a \in DOMAIN apprReqs, accept \in BOOLEAN :
          \/ KeepApproval(a, n, accept)
          \/ \E g \in Versions : ApprovedEvent(a, n, accept, g)
    BY <1>6 DEF ApproverResponse
  <2>2. Kind[a.req] = "fact"
    BY DEF IndInv, Types, ApprovalOK
  <2>3. ASSUME NEW g, ApprovedEvent(a, n, accept, g) PROVE StoredInv'
    <3>1. /\ Ready /\ prevalidated'.req = a.req
          /\ UNCHANGED <<subject, events, handing, mode>>
      BY <2>3 DEF ApprovedEvent, Approved, ApprovalArrives, InStage, SubmitEvent,
         EventOfApproval
    <3>2. QED
      BY <1>3, <2>2, <3>1
  <2>4. CASE KeepApproval(a, n, accept)
    BY <1>1, <2>4 DEF KeepApproval, db
  <2>5. QED
    BY <2>1, <2>3, <2>4
<1>7. ASSUME NEW n \in Nodes, ValidatorResponse(n) PROVE StoredInv'
  <2>1. PICK ev \in DOMAIN validating : KeepValidation(ev, n) \/ HandToLedger(ev, n)
    BY <1>7 DEF ValidatorResponse
  <2>2. CASE KeepValidation(ev, n)
    BY <1>1, <2>2 DEF KeepValidation, db
  <2>3. CASE HandToLedger(ev, n)
    <3>1. /\ Ready /\ handing'.phase = "ledger" /\ UNCHANGED <<subject, events, prevalidated, mode>>
      BY <2>3 DEF HandToLedger, ValidationArrives, InStage, db
    <3>2. IsLastEvent(subject.sn) /\ mode' = "up"
      BY <3>1, RunningAtLast DEF Ready
    <3>3. QED
      BY <3>1, <3>2, StoredStays DEF StoredInv, StoredLast
  <2>4. QED
    BY <2>1, <2>2, <2>3
<1>8. CASE DelPrevalidatedEvent
  <2>1. /\ InPhase("stored") /\ prevalidated' = None
        /\ handing' = [handing EXCEPT !.phase = "deleted"]
        /\ UNCHANGED <<subject, events, mode>>
    BY <1>8 DEF DelPrevalidatedEvent
  <2>2. handing'.phase = "deleted" /\ mode' = "up" /\ IsLastEvent(subject.sn)
    BY <2>1, WithLedger, RunningAtLast DEF InPhase, Handings
  <2>3. QED
    BY <2>1, <2>2, StoredStays
<1>9. CASE FinishEvent
  <2>1. /\ InPhase("deleted") /\ handing' = None
        /\ UNCHANGED <<subject, events, prevalidated, mode>>
    BY <1>9 DEF FinishEvent
  <2>2. mode' = "up" /\ IsLastEvent(subject.sn)
    BY <2>1, RunningAtLast DEF InPhase
  <2>3. QED
    BY <2>1, <2>2, StoredStays DEF StoredInv, StoredLast
<1>10. CASE Complete
  BY <1>8, <1>9, <1>10, StoredValidated DEF Complete
<1>11. CASE GovernanceAdvances
  BY <1>1, <1>11 DEF GovernanceAdvances, db, memory
<1>12. CASE UpdateNothing \/ UpdateReevaluates \/ UpdateRevalidates \/ UpdateDoesBoth
  <2>1. Ready /\ UNCHANGED <<subject, events, prevalidated, handing, mode>>
    BY <1>12 DEF UpdateNothing, UpdateReevaluates, UpdateRevalidates, UpdateDoesBoth,
       Revalidate, GovernanceUpdate, StartEvaluation, db, memory
  <2>2. QED
    BY <1>3, <2>1
<1>13. CASE UpdateStops \/ Crashes
  BY <1>13, StoredStops, StoredCrashes DEF UpdateStops, Ready
<1>14. CASE Restart
  BY <1>14, StoredRestart
<1>15. QED
  BY <1>2, <1>4, <1>5, <1>6, <1>7, <1>10, <1>11, <1>12, <1>13, <1>14
  DEF Next, NewGovernanceVersion

(* A start fails only after the ledger stored the event that is in the     *)
(* database, the subject perhaps not yet, or for a permission that is gone *)
(* (ledger.rs init, event_validated; event_completer.rs init).             *)
THEOREM FailsAfterStoring == Spec => []FailsOnlyAfterStoring
<1>1. StoredInv => FailsOnlyAfterStoring
  BY DEF StoredInv
<1>2. QED
  BY <1>1, InitInv, NextInv, InitStored, NextStored, PTL DEF Spec

-----------------------------------------------------------------------------
(* One version of the governance: what the node asks for stands until it   *)
(* is done.                                                                *)
LEMMA OneVersion ==
  ASSUME MaxGov = 0, Types
  PROVE  Versions = {0} /\ gov = 0 /\ notified = 0
  BY DEF Types, ControlOK, Versions

(* Nothing is submitted or acknowledged initially.                         *)
LEMMA InitOneVersion == Init => OneVersionInv
<1> SUFFICES ASSUME Init PROVE OneVersionInv
  OBVIOUS
<1>1. DOMAIN events = {} /\ DOMAIN apprReqs = {} /\ subject.sn = 0
  BY DEF Init, NoMap
<1>2. OneEvaluation /\ OneApproval /\ Numbered
  BY <1>1 DEF Init, OneEvaluation, OneApproval, Numbered
<1>3. StoredOnce /\ SubmittedKept /\ OneSubmissionPerSn
  BY DEF Init, StoredOnce, SubmittedKept, OneSubmissionPerSn
<1>4. Pending
  BY DEF Init, Pending, AcknowledgedNotLost
<1>5. QED
  BY <1>2, <1>3, <1>4 DEF OneVersionInv

(* What is submitted and stored is as before.                              *)
LEMMA LogStays ==
  ASSUME OneVersionInv, UNCHANGED <<subject, events, prevalidated, submitted>>
  PROVE  Numbered' /\ SubmittedKept' /\ OneSubmissionPerSn'
<1>1. Numbered' /\ SubmittedKept'
  BY DEF OneVersionInv, Numbered, SubmittedKept
<1>2. OneSubmissionPerSn'
  BY DEF OneVersionInv, OneSubmissionPerSn
<1>3. QED
  BY <1>1, <1>2

(* An event is only submitted when none of its number has been.            *)
LEMMA NextNumberIsFree ==
  ASSUME IndInv, OneVersionInv, prevalidated = None, NEW x \in submitted
  PROVE  x.sn \in Nat /\ x.sn <= subject.sn
<1>1. x \in Events /\ x # None /\ subject.sn \in Nat
  BY NoneAssumption DEF IndInv, Types, SubmittedOK, DbOK
<1>2. x.sn \in Nat
  BY <1>1 DEF Events
<1>3. x.sn <= subject.sn + 1 /\ x.sn # subject.sn + 1
  BY <1>1 DEF OneVersionInv, SubmittedKept
<1>4. QED
  BY <1>1, <1>2, <1>3

(* An event that follows the subject is the only one of its number.        *)
LEMMA NextNumberSubmitted ==
  ASSUME IndInv, OneVersionInv, prevalidated = None, NEW ev,
         ev.sn = subject.sn + 1, prevalidated' = ev, submitted' = submitted \cup {ev},
         UNCHANGED <<subject, events>>
  PROVE  Numbered' /\ SubmittedKept' /\ OneSubmissionPerSn'
<1>1. subject.sn \in Nat
  BY DEF IndInv, Types, DbOK
<1>2. \A x \in submitted : x.sn \in Nat /\ x.sn <= subject.sn
  BY NextNumberIsFree
<1>3. Numbered'
  BY DEF OneVersionInv, Numbered
<1>4. SubmittedKept'
  BY <1>1, <1>2 DEF SubmittedKept
<1>5. OneSubmissionPerSn'
  <2>1. \A x \in submitted : x.sn # ev.sn
    BY <1>1, <1>2
  <2>2. QED
    BY <2>1 DEF OneVersionInv, OneSubmissionPerSn
<1>6. QED
  BY <1>3, <1>4, <1>5

(* Every registered request but the one that is started has its event.     *)
LEMMA OthersApplied ==
  ASSUME IndInv, OneVersionInv, NEW r, prevalidated = None,
         request = None \/ request = r, known' = known \cup {r}, request' = r,
         prevalidated' # None => prevalidated'.req = r,
         UNCHANGED <<events, dropped>>
  PROVE  Pending'
<1>1. \A q \in known \ dropped : q = r \/ Applied(q)
  BY CompleterAssumption DEF OneVersionInv, Pending, AcknowledgedNotLost, IndInv, Types, DbOK
<1>2. QED
  BY <1>1 DEF Pending, AcknowledgedNotLost, Applied

(* The evaluation of a request begins, anew or after a restart.            *)
LEMMA OneEvaluationStarts ==
  ASSUME MaxGov = 0, IndInv, OneVersionInv, stage = None, handing' = None,
         prevalidated = None, NEW r \in Requests, request = None \/ request = r,
         StartEvaluation(r),
         UNCHANGED <<subject, events, evals, apprReqs, gov, dropped>>
  PROVE  OneVersionInv'
<1>1. /\ pre' = pre \cup {EvaluationRequest(r)} /\ stage' = Asking("evaluate", gov)
      /\ known' = known \cup {r} /\ request' = r
      /\ UNCHANGED <<prevalidated, validating, submitted>>
  BY DEF StartEvaluation
<1>2. gov = 0 /\ gov \in Versions
  BY OneVersion DEF IndInv, Types, ControlOK
<1>3. /\ stage' \in StageRecords /\ stage' # None /\ stage'.stage = "evaluate"
      /\ stage'.signers = Signers["evaluate"][0] /\ stage'.q = Quorum["evaluate"][0]
      /\ stage'.nq = Cardinality(Signers["evaluate"][0]) - Quorum["evaluate"][0] + 1
  BY <1>1, <1>2, AskingRecord, NoneAssumption DEF Stages
<1>4. pre = {} /\ evals = {} /\ DOMAIN apprReqs = {}
  BY DEF OneVersionInv, OneEvaluation, OneApproval, IndInv, Types, EvaluationOK
<1>5. OneEvaluation'
  BY <1>1, <1>3, <1>4 DEF OneEvaluation, EvaluationRequest
<1>6. OneApproval' /\ StoredOnce'
  BY <1>4 DEF OneApproval, StoredOnce
<1>7. Pending'
  BY <1>1, OthersApplied
<1>8. QED
  BY <1>1, <1>5, <1>6, <1>7, LogStays DEF OneVersionInv

(* The validation of a transfer or an end of life begins.                  *)
LEMMA OneValidationStarts ==
  ASSUME MaxGov = 0, IndInv, OneVersionInv, stage = None, handing' = None,
         prevalidated = None, NEW r \in Requests, request = None \/ request = r,
         Kind[r] # "fact", StartValidation(r),
         UNCHANGED <<subject, events, evals, apprReqs, gov, dropped>>
  PROVE  OneVersionInv'
<1> DEFINE ev == EventNoEval(r)
<1>1. /\ prevalidated' = ev /\ submitted' = submitted \cup {ev}
      /\ stage' = Validate(gov) /\ known' = known \cup {r} /\ request' = r
      /\ UNCHANGED pre
  BY DEF StartValidation
<1>2. gov \in Versions
  BY DEF IndInv, Types, ControlOK
<1>3. stage' \in StageRecords /\ stage' # None /\ stage'.stage = "validate"
  BY <1>1, <1>2, ValidateRecord, NoneAssumption
<1>4. pre = {} /\ evals = {} /\ DOMAIN apprReqs = {}
  BY DEF OneVersionInv, OneEvaluation, OneApproval, IndInv, Types, EvaluationOK
<1>5. OneEvaluation' /\ OneApproval' /\ StoredOnce'
  BY <1>1, <1>3, <1>4 DEF OneEvaluation, OneApproval, StoredOnce
<1>6. ev.sn = subject.sn + 1 /\ ev.req = r
  BY EventNoEvalType DEF IndInv, Types
<1> HIDE DEF ev
<1>7. Numbered' /\ SubmittedKept' /\ OneSubmissionPerSn'
  BY <1>1, <1>6, NextNumberSubmitted
<1>9. Pending'
  BY <1>1, <1>6, OthersApplied
<1>10. QED
  BY <1>5, <1>7, <1>9 DEF OneVersionInv

(* The event that is built from the evaluations of the request.            *)
LEMMA OneEventSubmitted ==
  ASSUME MaxGov = 0, IndInv, OneVersionInv, Ready, stage # None, stage.stage # "validate",
         NEW ev, ev # None, NEW g \in Versions, SubmitEvent(ev, g),
         ev.req = request, ev.sn = subject.sn + 1,
         stage' # None, stage'.stage = "validate",
         pre' = {}, evals' = {}, DOMAIN apprReqs' = {},
         UNCHANGED <<subject, events, known, handing, dropped>>
  PROVE  OneVersionInv'
<1>1. /\ prevalidated' = ev /\ request' = None /\ gov' = g
      /\ submitted' = submitted \cup {ev}
  BY DEF SubmitEvent
<1>2. prevalidated = None /\ handing = None /\ gov = 0 /\ request # None
  BY OneVersion DEF IndInv, StageIsPersisted, Ready
<1>3. OneEvaluation' /\ OneApproval' /\ StoredOnce'
  BY <1>2 DEF OneEvaluation, OneApproval, StoredOnce
<1>4. Numbered' /\ SubmittedKept' /\ OneSubmissionPerSn'
  BY <1>1, <1>2, NextNumberSubmitted
<1>6. Pending'
  <2>1. \A q \in known \ dropped : q = request \/ Applied(q)
    BY <1>2 DEF OneVersionInv, Pending, AcknowledgedNotLost
  <2>2. QED
    BY <1>1, <2>1 DEF Pending, AcknowledgedNotLost, Applied
<1>7. QED
  BY <1>3, <1>4, <1>6 DEF OneVersionInv

(* An answer in a stage: the log and what the stage is about are as before. *)
LEMMA OneAnswerKept ==
  ASSUME OneVersionInv, stage # None, stage' # None, stage'.stage = stage.stage,
         StoredOnce',
         UNCHANGED <<db, pre, apprReqs, gov, submitted, dropped>>
  PROVE  OneVersionInv'
<1>1. OneEvaluation'
  BY DEF db, OneVersionInv, OneEvaluation, EvaluationRequest
<1>2. OneApproval'
  BY DEF db, OneVersionInv, OneApproval, ApprovalRequest, EvaluationRequest
<1>3. Numbered' /\ SubmittedKept' /\ OneSubmissionPerSn'
  BY LogStays DEF db
<1>4. Pending'
  BY DEF db, OneVersionInv, Pending, AcknowledgedNotLost, Applied
<1>5. QED
  BY <1>1, <1>2, <1>3, <1>4 DEF OneVersionInv

(* The evaluations of the one request that is being evaluated.             *)
LEMMA OneEvaluationArrives ==
  ASSUME MaxGov = 0, IndInv, OneVersionInv, NEW e \in pre, NEW n \in Nodes, NEW verdict,
         EvaluationArrives(e, n, verdict)
  PROVE  /\ Ready /\ stage # None /\ stage \in StageRecords /\ stage.stage = "evaluate"
         /\ e = EvaluationRequest(request) /\ pre = {e} /\ e \in Evaluations
         /\ request # None /\ gov = 0
         /\ DOMAIN apprReqs = {}
<1>1. /\ Ready /\ stage # None /\ stage.stage = "evaluate" /\ n \in stage.signers
  BY DEF EvaluationArrives, InStage
<1>2. stage \in StageRecords /\ gov = 0 /\ e \in Evaluations
  BY <1>1, OneVersion DEF IndInv, Types, ControlOK, EvaluationOK
<1>3. \A f \in pre : f = EvaluationRequest(request)
  BY DEF OneVersionInv, OneEvaluation
<1>4. request # None
  BY <1>1 DEF IndInv, StageIsPersisted
<1>7. DOMAIN apprReqs = {}
  BY <1>1 DEF OneVersionInv, OneApproval
<1>8. QED
  BY <1>1, <1>2, <1>3, <1>4, <1>7

(* An evaluation is kept: it is of the one request in progress.            *)
LEMMA OneKeepEvaluation ==
  ASSUME MaxGov = 0, IndInv, OneVersionInv, NEW e \in pre, NEW n \in Nodes, NEW verdict,
         KeepEvaluation(e, n, verdict)
  PROVE  OneVersionInv'
<1>1. /\ EvaluationArrives(e, n, verdict)
      /\ evals' = evals \cup {[eval |-> e, by |-> n, verdict |-> verdict]}
      /\ stage' = [stage EXCEPT !.signers = @ \ {n}]
      /\ UNCHANGED <<db, pre, apprReqs, handing, gov, submitted, dropped>>
  BY DEF KeepEvaluation, stops
<1>2. /\ Ready /\ stage # None /\ stage \in StageRecords
  BY <1>1, OneEvaluationArrives
<1>3. /\ stage' \in StageRecords /\ stage'.stage = stage.stage
      /\ stage'.signers \subseteq stage.signers /\ stage'.q = stage.q /\ stage'.nq = stage.nq
  BY <1>1, <1>2, FewerSigners
<1>5. StoredOnce' /\ stage' # None
  BY <1>1, <1>2, <1>3, NoneAssumption DEF Ready, StoredOnce
<1>6. QED
  BY <1>1, <1>2, <1>3, <1>5, OneAnswerKept

(* A failure that asks for approval changes nothing that is kept.          *)
LEMMA OneRejectEvaluation ==
  ASSUME MaxGov = 0, IndInv, OneVersionInv, NEW e \in pre, NEW n \in Nodes,
         RejectEvaluation(e, n)
  PROVE  OneVersionInv'
<1>1. /\ EvaluationArrives(e, n, "failapprove")
      /\ evals' = evals \cup {[eval |-> e, by |-> n, verdict |-> "failapprove"]}
      /\ UNCHANGED <<db, pre, apprReqs, stage, handing, gov, submitted, dropped>>
  BY DEF RejectEvaluation, stops
<1>2. /\ Ready /\ stage # None
  BY <1>1, OneEvaluationArrives
<1>4. StoredOnce'
  BY <1>1, <1>2 DEF Ready, StoredOnce
<1>5. QED
  BY <1>1, <1>2, <1>4, OneAnswerKept

(* With the request's evaluation all evaluations are removed.              *)
LEMMA OneCleanEvaluation ==
  ASSUME EvaluationOK, NEW e, pre = {e}, CleanEvaluation(e)
  PROVE  pre' = {} /\ evals' = {}
  BY DEF EvaluationOK, CleanEvaluation

(* The request for approval takes its evaluations along.                   *)
LEMMA OneAskApproval ==
  ASSUME MaxGov = 0, IndInv, OneVersionInv, NEW e \in pre, NEW n \in Nodes,
         AskApproval(e, n)
  PROVE  OneVersionInv'
<1> DEFINE a == ApprovalRequest(e)
           by == SameEvaluation(e, n, "approve")
<1>1. /\ EvaluationArrives(e, n, "approve") /\ EvaluationQuorum(e, n, "approve")
      /\ apprReqs' = Put(apprReqs, a, [eval |-> e, by |-> by])
      /\ CleanEvaluation(e) /\ stage' = Asking("approve", gov)
      /\ UNCHANGED <<db, handing, gov, submitted, dropped>>
  BY DEF AskApproval, stops
<1>2. /\ Ready /\ stage # None /\ stage.stage = "evaluate" /\ e = EvaluationRequest(request)
      /\ pre = {e} /\ DOMAIN apprReqs = {}
      /\ gov \in Versions
  BY <1>1, OneEvaluationArrives DEF IndInv, Types, ControlOK
<1>4. stage' \in StageRecords /\ stage' # None /\ stage'.stage = "approve"
  BY <1>1, <1>2, AskingRecord, NoneAssumption DEF Stages
<1>5. pre' = {} /\ evals' = {}
  BY <1>1, <1>2, OneCleanEvaluation DEF IndInv, Types
<1>6. OneEvaluation'
  BY <1>4, <1>5 DEF OneEvaluation
<1>7. a = ApprovalRequest(EvaluationRequest(request))'
  BY <1>1, <1>2 DEF db, ApprovalRequest, EvaluationRequest
<1> HIDE DEF a, by
<1>9. DOMAIN apprReqs' = {a}
  BY <1>1, <1>2 DEF Put
<1>10. OneApproval'
  BY <1>4, <1>7, <1>9 DEF OneApproval
<1>11. StoredOnce'
  BY <1>1, <1>2 DEF Ready, StoredOnce
<1>12. Numbered' /\ SubmittedKept' /\ OneSubmissionPerSn'
  BY <1>1, LogStays DEF db
<1>13. Pending'
  BY <1>1 DEF db, OneVersionInv, Pending, AcknowledgedNotLost, Applied
<1>14. QED
  BY <1>6, <1>10, <1>11, <1>12, <1>13 DEF OneVersionInv

(* The event that evaluations make is the next one.                        *)
LEMMA OneEvaluated ==
  ASSUME MaxGov = 0, IndInv, OneVersionInv, NEW e \in pre, NEW n \in Nodes, NEW verdict,
         Evaluated(e, n, verdict)
  PROVE  LET ev == EventOfEvaluation(e, n, verdict)
         IN  /\ ev.req = request /\ ev.sn = subject.sn + 1 /\ ev # None
             /\ Ready /\ stage # None /\ stage.stage = "evaluate"
             /\ pre = {e} /\ DOMAIN apprReqs = {}
<1>1. /\ Ready /\ stage # None /\ stage.stage = "evaluate" /\ e = EvaluationRequest(request)
      /\ pre = {e} /\ DOMAIN apprReqs = {}
  BY OneEvaluationArrives DEF Evaluated
<1>2. e.req = request /\ e.sn = subject.sn + 1
  BY <1>1 DEF EvaluationRequest
<1>3. QED
  BY <1>1, <1>2, EvaluatedType, NoneAssumption

(* It is submitted.                                                        *)
LEMMA OneEvaluatedEvent ==
  ASSUME MaxGov = 0, IndInv, OneVersionInv, NEW e \in pre, NEW n \in Nodes, NEW verdict,
         NEW g \in Versions, EvaluatedEvent(e, n, verdict, g)
  PROVE  OneVersionInv'
<1> DEFINE ev == EventOfEvaluation(e, n, verdict)
<1>1. /\ Evaluated(e, n, verdict)
      /\ SubmitEvent(ev, g) /\ CleanEvaluation(e) /\ stage' = Asking("validate", gov)
      /\ UNCHANGED <<subject, events, known, apprReqs, handing, dropped>>
  BY DEF EvaluatedEvent, stops
<1>2. /\ ev.req = request /\ ev.sn = subject.sn + 1 /\ ev # None
      /\ Ready /\ stage # None /\ stage.stage = "evaluate"
      /\ pre = {e} /\ DOMAIN apprReqs = {}
  BY <1>1, OneEvaluated
<1> HIDE DEF ev
<1>3. gov \in Versions
  BY DEF IndInv, Types, ControlOK
<1>4. stage' \in StageRecords /\ stage' # None /\ stage'.stage = "validate"
  BY <1>1, <1>3, AskingRecord, NoneAssumption DEF Stages
<1>5. pre' = {} /\ evals' = {} /\ DOMAIN apprReqs' = {}
  BY <1>1, <1>2, OneCleanEvaluation DEF IndInv, Types
<1>6. QED
  BY <1>1, <1>2, <1>4, <1>5, OneEventSubmitted

(* The event that votes make is the next one.                              *)
LEMMA OneApproved ==
  ASSUME IndInv, OneVersionInv, NEW a \in DOMAIN apprReqs, NEW n \in Nodes,
         NEW accept \in BOOLEAN, NEW g \in Versions, Approved(a, n, accept)
  PROVE  LET ev == EventOfApproval(a, n, accept, g)
         IN  /\ ev.req = request /\ ev.sn = subject.sn + 1 /\ ev # None
             /\ Ready /\ stage # None /\ stage.stage = "approve"
             /\ DOMAIN apprReqs = {a}
<1>1. \A b \in DOMAIN apprReqs : b = ApprovalRequest(EvaluationRequest(request))
  BY DEF OneVersionInv, OneApproval
<1>2. a.req = request /\ a.sn = subject.sn + 1
  BY <1>1 DEF ApprovalRequest, EvaluationRequest
<1>3. DOMAIN apprReqs = {a}
  BY <1>1
<1>4. QED
  BY <1>2, <1>3, ApprovedType, NoneAssumption

(* It is submitted.                                                        *)
LEMMA OneApprovedEvent ==
  ASSUME MaxGov = 0, IndInv, OneVersionInv, NEW a \in DOMAIN apprReqs, NEW n \in Nodes,
         NEW accept \in BOOLEAN, NEW g \in Versions, ApprovedEvent(a, n, accept, g)
  PROVE  OneVersionInv'
<1> DEFINE ev == EventOfApproval(a, n, accept, g)
<1>1. /\ Approved(a, n, accept)
      /\ SubmitEvent(ev, g) /\ stage' = Validate(gov)
      /\ apprReqs' = Drop(apprReqs, a)
      /\ UNCHANGED <<subject, events, known, pre, evals, handing, dropped>>
  BY DEF ApprovedEvent, stops
<1>2. /\ ev.req = request /\ ev.sn = subject.sn + 1 /\ ev # None
      /\ Ready /\ stage # None /\ stage.stage = "approve" /\ DOMAIN apprReqs = {a}
  BY <1>1, OneApproved
<1> HIDE DEF ev
<1>3. Types /\ gov \in Versions
  BY DEF IndInv, Types, ControlOK
<1>4. stage' \in StageRecords /\ stage' # None /\ stage'.stage = "validate"
  BY <1>1, <1>3, ValidateRecord, NoneAssumption
<1>5. pre' = {} /\ evals' = {} /\ DOMAIN apprReqs' = {}
  <2>1. pre = {}
    BY <1>2 DEF OneVersionInv, OneEvaluation
  <2>2. evals = {}
    BY <1>3, <2>1 DEF Types, EvaluationOK
  <2>3. QED
    BY <1>1, <1>2, <2>1, <2>2 DEF Drop
<1>6. QED
  BY <1>1, <1>2, <1>4, <1>5, OneEventSubmitted

(* A vote is kept.                                                         *)
LEMMA OneKeepApproval ==
  ASSUME IndInv, OneVersionInv, NEW a, NEW n, NEW accept, KeepApproval(a, n, accept)
  PROVE  OneVersionInv'
<1>1. /\ Ready /\ stage # None /\ stage' = [stage EXCEPT !.signers = @ \ {n}]
      /\ UNCHANGED <<db, pre, evals, apprReqs, handing, gov, submitted, dropped>>
  BY DEF KeepApproval, ApprovalArrives, InStage, stops
<1>2. stage \in StageRecords
  BY <1>1 DEF IndInv, Types, ControlOK
<1>3. /\ stage' \in StageRecords /\ stage'.stage = stage.stage
      /\ stage'.signers \subseteq stage.signers /\ stage'.q = stage.q /\ stage'.nq = stage.nq
  BY <1>1, <1>2, FewerSigners
<1>5. StoredOnce' /\ stage' # None
  BY <1>1, <1>3, NoneAssumption DEF Ready, StoredOnce
<1>6. QED
  BY <1>1, <1>3, <1>5, OneAnswerKept

(* A signature is kept.                                                    *)
LEMMA OneKeepValidation ==
  ASSUME IndInv, OneVersionInv, NEW ev, NEW n, KeepValidation(ev, n)
  PROVE  OneVersionInv'
<1>1. /\ Ready /\ stage # None /\ stage' = [stage EXCEPT !.signers = @ \ {n}]
      /\ UNCHANGED <<db, pre, evals, apprReqs, handing, gov, submitted, dropped>>
  BY DEF KeepValidation, ValidationArrives, InStage, stops
<1>2. stage \in StageRecords
  BY <1>1 DEF IndInv, Types, ControlOK
<1>3. /\ stage' \in StageRecords /\ stage'.stage = stage.stage
      /\ stage'.signers \subseteq stage.signers /\ stage'.q = stage.q /\ stage'.nq = stage.nq
  BY <1>1, <1>2, FewerSigners
<1>5. StoredOnce' /\ stage' # None
  BY <1>1, <1>3, NoneAssumption DEF Ready, StoredOnce
<1>6. QED
  BY <1>1, <1>3, <1>5, OneAnswerKept

(* The event is handed to the ledger.                                      *)
LEMMA OneHandToLedger ==
  ASSUME IndInv, OneVersionInv, NEW ev, NEW n, HandToLedger(ev, n)
  PROVE  OneVersionInv'
<1>1. /\ stage # None /\ handing' = [phase |-> "ledger", event |-> ev]
      /\ UNCHANGED <<db, stage, pre, evals, apprReqs, gov, submitted, dropped>>
  BY DEF HandToLedger, ValidationArrives, InStage, stops
<1>3. StoredOnce'
  BY <1>1 DEF StoredOnce
<1>4. QED
  BY <1>1, <1>3, OneAnswerKept

(* While the event is with the ledger nothing is evaluated or approved.    *)
LEMMA OnlyValidating ==
  ASSUME IndInv, OneVersionInv, AtValidation,
         stage' = stage \/ stage' = None, UNCHANGED <<pre, evals, apprReqs>>
  PROVE  OneEvaluation' /\ OneApproval'
<1>1. pre = {} /\ DOMAIN apprReqs = {}
  BY DEF AtValidation, OneVersionInv, OneEvaluation, OneApproval
<1>2. evals = {}
  BY <1>1 DEF IndInv, Types, EvaluationOK
<1>3. QED
  BY <1>1, <1>2 DEF AtValidation, OneEvaluation, OneApproval

(* The ledger stores the event in validation, again or for the first time. *)
LEMMA OneEventStored ==
  ASSUME IndInv, OneVersionInv, StoreEvent
  PROVE  OneVersionInv'
<1> DEFINE p == prevalidated
<1>0. InPhase("ledger")
  BY DEF StoreEvent
<1>1. /\ handing \in Handings /\ AtValidation /\ p # None /\ handing.event = p
      /\ p.sn \in Nat
  BY <1>0, WithLedger
<1>2. /\ events' = Put(events, p.sn, p) /\ handing' = [handing EXCEPT !.phase = "event"]
      /\ known' = known \cup {p.req}
      /\ UNCHANGED <<subject, request, prevalidated, stage, pre, evals, apprReqs,
                     gov, submitted, dropped>>
  BY <1>1 DEF StoreEvent, stops
<1>3. handing'.phase = "event"
  BY <1>1, <1>2 DEF Handings
<1>4. subject.sn \in Nat
  BY DEF IndInv, Types, DbOK
<1>5. p.sn \in DOMAIN events => events[p.sn] = p
  BY <1>0, <1>1 DEF InPhase, IndInv, NotOverwriting
<1>6. DOMAIN events' = DOMAIN events \cup {p.sn} /\ events'[p.sn] = p
  BY <1>2 DEF Put
<1>7. Numbered'
  BY <1>1, <1>2, <1>4, <1>6 DEF OneVersionInv, Numbered
<1>8. OneEvaluation' /\ OneApproval'
  BY <1>1, <1>2, OnlyValidating
<1>9. StoredOnce' /\ SubmittedKept' /\ OneSubmissionPerSn'
  BY <1>2, <1>3 DEF StoredOnce, OneVersionInv, SubmittedKept, OneSubmissionPerSn
<1>10. Pending'
  <2>1. /\ \A r : AppliedIn(events, r) => AppliedIn(events', r)
        /\ AppliedIn(events', p.req)
    BY <1>2, <1>5, AppliedStays
  <2>2. \A r \in known \ dropped : request = r \/ (p # None /\ p.req = r) \/ AppliedIn(events, r)
    BY DEF OneVersionInv, Pending, AcknowledgedNotLost, Applied, AppliedIn
  <2>3. request' # None /\ prevalidated' # None => request' = prevalidated'.req
    BY <1>2 DEF OneVersionInv, Pending
  <2>4. AcknowledgedNotLost'
    BY <1>2, <2>1, <2>2 DEF AcknowledgedNotLost, Applied, AppliedIn
  <2>5. QED
    BY <2>3, <2>4 DEF Pending
<1>11. QED
  BY <1>7, <1>8, <1>9, <1>10 DEF OneVersionInv

(* The event becomes the subject's last, also when it was that already.    *)
LEMMA OneSubjectStored ==
  ASSUME IndInv, OneVersionInv, InPhase("event"), NEW s, s.sn = handing.event.sn,
         StoreSubject(s)
  PROVE  OneVersionInv'
<1> DEFINE p == prevalidated
<1>1. /\ handing \in Handings /\ AtValidation /\ p # None /\ handing.event = p
      /\ p.sn \in Nat
  BY WithLedger
<1>2. /\ subject' = s /\ handing' = [handing EXCEPT !.phase = "stored"]
      /\ UNCHANGED <<events, request, prevalidated, known, stage, pre, evals, apprReqs,
                     gov, submitted, dropped>>
  BY <1>1 DEF StoreSubject, LedgerAnswers, stops
<1>3. handing'.phase = "stored" /\ handing'.event = p
  BY <1>1, <1>2 DEF Handings
<1>4. subject.sn \in Nat /\ p.sn \in DOMAIN events /\ events[p.sn] = p
  BY <1>1 DEF IndInv, Types, DbOK, InPhase, NotOverwriting
<1>5. p.sn = subject.sn + 1 \/ p.sn = subject.sn
  BY <1>1 DEF OneVersionInv, Numbered
<1>6. DOMAIN events = 1 .. p.sn
  BY <1>1, <1>4, <1>5 DEF OneVersionInv, Numbered
<1>7. subject'.sn = p.sn /\ p.sn \in 1 .. p.sn
  BY <1>1, <1>2, <1>4, <1>6
<1>8. OneEvaluation' /\ OneApproval'
  BY <1>1, <1>2, OnlyValidating
<1>9. Numbered'
  BY <1>2, <1>4, <1>6, <1>7 DEF Numbered
<1>10. StoredOnce'
  <2>1. request # None => request = p.req
    BY <1>1 DEF OneVersionInv, Pending
  <2>2. QED
    BY <1>2, <1>3, <1>4, <1>7, <2>1 DEF StoredOnce
<1>11. SubmittedKept'
  <2>1. ASSUME NEW x \in submitted PROVE (x.sn <= p.sn + 1 /\ x.sn # p.sn + 1) \/ p = x
    <3>1. x.sn \in Nat
      BY DEF IndInv, Types, SubmittedOK, Events
    <3>2. x.sn <= subject.sn + 1 /\ (x.sn = subject.sn + 1 => p = x)
      BY DEF OneVersionInv, SubmittedKept
    <3>3. QED
      BY <1>1, <1>4, <1>5, <3>1, <3>2
  <2>2. QED
    BY <1>1, <1>2, <1>7, <2>1 DEF SubmittedKept
<1>12. OneSubmissionPerSn' /\ Pending'
  BY <1>2 DEF OneVersionInv, OneSubmissionPerSn, Pending, AcknowledgedNotLost, Applied
<1>13. QED
  BY <1>8, <1>9, <1>10, <1>11, <1>12 DEF OneVersionInv

(* The ledger stores the one event that was submitted.                     *)
LEMMA OneEventValidated ==
  ASSUME IndInv, OneVersionInv, EventValidated
  PROVE  OneVersionInv'
<1>0. subject \in [sn : Nat, state : States, owned : BOOLEAN, active : BOOLEAN]
  BY DEF IndInv, Types, DbOK
<1>1. CASE StoreFact
  <2> DEFINE s == [subject EXCEPT !.sn = handing.event.sn, !.state = Patched(handing.event)]
  <2>1. InPhase("event") /\ StoreSubject(s)
    BY <1>1 DEF StoreFact, Sourcing
  <2>2. s.sn = handing.event.sn
    BY <1>0
  <2> HIDE DEF s
  <2>3. QED
    BY <2>1, <2>2, OneSubjectStored
<1>2. CASE StoreTransfer
  <2> DEFINE own == handing.event.req \in Own
             s == [subject EXCEPT !.sn = handing.event.sn, !.owned = own]
  <2>1. InPhase("event") /\ StoreSubject(s)
    BY <1>2 DEF StoreTransfer, Sourcing
  <2> HIDE DEF own
  <2>2. s.sn = handing.event.sn
    BY <1>0
  <2> HIDE DEF s
  <2>3. QED
    BY <2>1, <2>2, OneSubjectStored
<1>3. CASE StoreEOL
  <2> DEFINE s == [subject EXCEPT !.sn = handing.event.sn, !.active = FALSE]
  <2>1. InPhase("event") /\ StoreSubject(s)
    BY <1>3 DEF StoreEOL, Sourcing
  <2>2. s.sn = handing.event.sn
    BY <1>0
  <2> HIDE DEF s
  <2>3. QED
    BY <2>1, <2>2, OneSubjectStored
<1>4. CASE RefuseFact
  <2>1. /\ InPhase("ledger") /\ subject.sn # handing.event.sn - 1
        /\ handing' = [handing EXCEPT !.phase = "stored"]
        /\ UNCHANGED <<db, stage, pre, evals, apprReqs, gov, submitted, dropped>>
    BY <1>4 DEF RefuseFact, WrongSnInSubject, LedgerAnswers, db, stops
  <2>2. /\ handing \in Handings /\ AtValidation /\ prevalidated # None
        /\ handing.event = prevalidated /\ handing.event.sn \in Nat
    BY <2>1, WithLedger
  <2>3. handing'.phase = "stored" /\ handing'.event = prevalidated
    BY <2>1, <2>2 DEF Handings
  <2>4. /\ prevalidated.sn = subject.sn
        /\ subject.sn \in DOMAIN events /\ events[subject.sn] = prevalidated
    BY <1>0, <2>1, <2>2 DEF OneVersionInv, Numbered
  <2>5. request # None => request = prevalidated.req
    BY <2>2 DEF OneVersionInv, Pending
  <2>6. StoredOnce'
    BY <2>1, <2>3, <2>4, <2>5 DEF StoredOnce, db
  <2>7. QED
    BY <2>1, <2>2, <2>6, OneAnswerKept DEF AtValidation
<1>5. QED
  BY <1>1, <1>2, <1>3, <1>4, OneEventStored DEF EventValidated

(* The event is forgotten when the ledger has it.                          *)
LEMMA OneDelPrevalidated ==
  ASSUME IndInv, OneVersionInv, DelPrevalidatedEvent
  PROVE  OneVersionInv'
<1>1. /\ InPhase("stored") /\ prevalidated' = None
      /\ handing' = [handing EXCEPT !.phase = "deleted"]
      /\ UNCHANGED <<subject, events, request, known, stage, pre, evals, apprReqs, gov,
                     submitted, dropped>>
  BY DEF DelPrevalidatedEvent, stops
<1>2. /\ handing \in Handings /\ AtValidation /\ handing.event = prevalidated
      /\ handing # None /\ handing.phase = "stored"
  BY <1>1, WithLedger DEF InPhase
<1>3. handing'.phase = "deleted" /\ handing'.event = handing.event
  BY <1>1, <1>2 DEF Handings
<1>4. /\ handing.event.sn = subject.sn
      /\ subject.sn \in DOMAIN events /\ events[subject.sn] = handing.event
      /\ request # None => request = handing.event.req
  BY <1>2 DEF OneVersionInv, StoredOnce
<1>5. OneEvaluation' /\ OneApproval'
  BY <1>1, <1>2, OnlyValidating
<1>6. Numbered' /\ StoredOnce'
  <2>1. subject.sn \in Nat
    BY DEF IndInv, Types, DbOK
  <2>2. DOMAIN events = 1 .. subject.sn
    BY <1>2, <1>4, <2>1 DEF OneVersionInv, Numbered
  <2>3. QED
    BY <1>1, <1>3, <1>4, <2>2 DEF Numbered, StoredOnce
<1>7. SubmittedKept'
  <2>1. subject.sn \in Nat
    BY DEF IndInv, Types, DbOK
  <2>2. \A x \in submitted : x.sn <= subject.sn + 1 /\ x.sn # subject.sn + 1
    BY <1>2, <1>4, <2>1 DEF OneVersionInv, SubmittedKept
  <2>3. QED
    BY <1>1, <2>2 DEF SubmittedKept
<1>8. OneSubmissionPerSn'
  BY <1>1 DEF OneVersionInv, OneSubmissionPerSn
<1>9. Pending'
  <2>1. \A r \in known \ dropped : request = r \/ Applied(r)
    BY <1>2, <1>4 DEF OneVersionInv, Pending, AcknowledgedNotLost, Applied
  <2>2. QED
    BY <1>1, <2>1 DEF Pending, AcknowledgedNotLost, Applied
<1>10. QED
  BY <1>5, <1>6, <1>7, <1>8, <1>9 DEF OneVersionInv

(* The request is forgotten when the ledger has its event.                 *)
LEMMA OneFinishEvent ==
  ASSUME IndInv, OneVersionInv, FinishEvent
  PROVE  OneVersionInv'
<1>1. /\ mode = "up" /\ handing # None /\ handing.phase = "deleted"
      /\ request' = None /\ stage' = None /\ handing' = None
      /\ UNCHANGED <<subject, events, prevalidated, known, pre, evals, apprReqs, gov,
                     submitted, dropped>>
  BY DEF FinishEvent, InPhase, stops
<1>2. AtValidation
  BY <1>1 DEF IndInv, OneValidating
<1>3. request # None => Applied(request)
  BY <1>1 DEF OneVersionInv, StoredOnce, Applied
<1>4. OneEvaluation' /\ OneApproval' /\ StoredOnce'
  BY <1>1, <1>2, OnlyValidating DEF StoredOnce
<1>5. Numbered' /\ SubmittedKept' /\ OneSubmissionPerSn'
  BY <1>1, LogStays
<1>6. Pending'
  <2>1. \A r \in known \ dropped : (prevalidated # None /\ prevalidated.req = r) \/ Applied(r)
    BY <1>3, CompleterAssumption
    DEF OneVersionInv, Pending, AcknowledgedNotLost, IndInv, Types, DbOK
  <2>2. QED
    BY <1>1, <2>1 DEF Pending, AcknowledgedNotLost, Applied
<1>7. QED
  BY <1>4, <1>5, <1>6 DEF OneVersionInv

(* Nothing is in progress, and the database is as it was.                  *)
LEMMA OneIdle ==
  ASSUME OneVersionInv, stage' = None, handing' = None, pre' = {}, evals' = {},
         DOMAIN apprReqs' = {}, UNCHANGED <<db, submitted, dropped>>
  PROVE  OneVersionInv'
<1>1. OneEvaluation' /\ OneApproval' /\ StoredOnce'
  BY DEF OneEvaluation, OneApproval, StoredOnce
<1>2. Numbered' /\ SubmittedKept' /\ OneSubmissionPerSn'
  BY LogStays DEF db
<1>3. Pending'
  BY DEF db, OneVersionInv, Pending, AcknowledgedNotLost, Applied
<1>4. QED
  BY <1>1, <1>2, <1>3 DEF OneVersionInv

(* A node that stops forgets its stage.                                    *)
LEMMA OneDown ==
  ASSUME Down, Numbered', SubmittedKept', OneSubmissionPerSn', Pending'
  PROVE  OneVersionInv'
<1>1. stage' = None /\ handing' = None /\ pre' = {} /\ DOMAIN apprReqs' = {}
  BY DEF Down, NoMap
<1>2. OneEvaluation' /\ OneApproval' /\ StoredOnce'
  BY <1>1 DEF OneEvaluation, OneApproval, StoredOnce
<1>3. QED
  BY <1>2 DEF OneVersionInv

(* A crash after the event is saved and before its request is deleted.     *)
LEMMA OneSaved ==
  ASSUME IndInv, OneVersionInv, NEW ev, ev.req = request, ev.sn = subject.sn + 1, ev # None,
         prevalidated = None, NEW g, CrashSaved(ev, g)
  PROVE  OneVersionInv'
<1>1. /\ prevalidated' = ev /\ submitted' = submitted \cup {ev} /\ Down
      /\ UNCHANGED <<subject, events, request, known, dropped>>
  BY DEF CrashSaved, CrashInside, Down
<1>2. Numbered' /\ SubmittedKept' /\ OneSubmissionPerSn'
  BY <1>1, NextNumberSubmitted
<1>3. Pending'
  BY <1>1 DEF OneVersionInv, Pending, AcknowledgedNotLost, Applied
<1>4. QED
  BY <1>1, <1>2, <1>3, OneDown

(* A crash leaves a database in which nothing is lost but what is dropped. *)
LEMMA OneCrashes ==
  ASSUME MaxGov = 0, IndInv, OneVersionInv, Crashes
  PROVE  OneVersionInv'
<1>1. ASSUME Down, UNCHANGED <<request, prevalidated, submitted>>,
             known' \ dropped' \subseteq known \ dropped
      PROVE  OneVersionInv'
  <2>1. UNCHANGED <<subject, events>>
    BY <1>1 DEF Down
  <2>2. Numbered' /\ SubmittedKept' /\ OneSubmissionPerSn'
    BY <1>1, <2>1, LogStays
  <2>3. Pending'
    BY <1>1, <2>1 DEF OneVersionInv, Pending, AcknowledgedNotLost, Applied
  <2>4. QED
    BY <1>1, <2>2, <2>3, OneDown
<1>2. CASE Crash
  BY <1>1, <1>2 DEF Crash, CrashInside
<1>3. ASSUME NEW r \in Requests, CrashUnstored(r) PROVE OneVersionInv'
  BY <1>1, <1>3 DEF CrashUnstored, CrashInside
<1>4. ASSUME NEW r \in Requests, CrashUnrequested(r) PROVE OneVersionInv'
  <2> DEFINE ev == EventNoEval(r)
  <2>1. /\ prevalidated' = ev /\ request' \in {request, None}
        /\ known' \in {known, known \cup {r}}
        /\ submitted' = submitted \cup {ev} /\ Down
        /\ UNCHANGED <<subject, events, dropped>>
    BY <1>4 DEF CrashUnrequested, CrashInside, Down
  <2>2. ev.sn = subject.sn + 1 /\ ev.req = r /\ ev # None
    BY EventNoEvalType, NoneAssumption DEF IndInv, Types
  <2>3. prevalidated = None /\ (request = None \/ request = r)
    BY <1>4 DEF CrashUnrequested, Accepted, IndInv, StageIsPersisted
  <2> HIDE DEF ev
  <2>4. Numbered' /\ SubmittedKept' /\ OneSubmissionPerSn'
    BY <2>1, <2>2, <2>3, NextNumberSubmitted
  <2>5. Pending'
    <3>1. \A q \in known \ dropped : q = r \/ Applied(q)
      BY <2>3, CompleterAssumption
      DEF OneVersionInv, Pending, AcknowledgedNotLost, IndInv, Types, DbOK
    <3>2. QED
      BY <2>1, <2>2, <2>3, <3>1 DEF Pending, AcknowledgedNotLost, Applied
  <2>6. QED
    BY <2>1, <2>4, <2>5, OneDown
<1>5. ASSUME Ready, stage # None, stage.stage # "validate" PROVE prevalidated = None
  BY <1>5 DEF IndInv, StageIsPersisted
<1>6. ASSUME NEW n \in Nodes, NEW g \in Versions, NEW e \in pre, NEW verdict,
             CrashEvaluated(e, n, verdict, g)
      PROVE  OneVersionInv'
  <2>1. Evaluated(e, n, verdict) /\ CrashSaved(EventOfEvaluation(e, n, verdict), g)
    BY <1>6 DEF CrashEvaluated
  <2>2. QED
    BY <1>5, <2>1, OneEvaluated, OneSaved
<1>7. ASSUME NEW n \in Nodes, NEW g \in Versions, NEW a \in DOMAIN apprReqs,
             NEW accept \in BOOLEAN, CrashApproved(a, n, accept, g)
      PROVE  OneVersionInv'
  <2> DEFINE ev == EventOfApproval(a, n, accept, g)
  <2>1. Approved(a, n, accept) /\ (CrashUnsaved(ev, g) \/ CrashSaved(ev, g))
    BY <1>7 DEF CrashApproved
  <2>2. CASE CrashUnsaved(ev, g)
    BY <1>1, <2>2 DEF CrashUnsaved, CrashInside
  <2>3. CASE CrashSaved(ev, g)
    BY <1>5, <2>1, <2>3, OneApproved, OneSaved
  <2>4. QED
    BY <2>1, <2>2, <2>3
<1>8. QED
  BY <1>2, <1>3, <1>4, <1>6, <1>7 DEF Crashes

(* A request is registered when no other one is in progress.               *)
LEMMA OnePreNewEvent ==
  ASSUME MaxGov = 0, IndInv, OneVersionInv, NEW r \in Requests, PreNewEvent(r)
  PROVE  OneVersionInv'
<1>1. /\ Ready /\ handing = None /\ stage = None /\ NewEvent(r)
      /\ UNCHANGED <<subject, events, evals, apprReqs, handing, gov, dropped>>
  BY DEF PreNewEvent, Accepted, Ready, stops
<1>2. prevalidated = None /\ request = None
  BY <1>1 DEF IndInv, StageIsPersisted
<1>3. CASE Kind[r] = "fact"
  BY <1>1, <1>2, <1>3, OneEvaluationStarts DEF NewEvent
<1>4. CASE Kind[r] # "fact"
  BY <1>1, <1>2, <1>4, OneValidationStarts DEF NewEvent
<1>5. QED
  BY <1>3, <1>4

(* A start goes on with the request or the event it finds.                 *)
LEMMA OneRestart ==
  ASSUME MaxGov = 0, IndInv, OneVersionInv, Restart
  PROVE  OneVersionInv'
<1>0. /\ stage = None /\ handing = None /\ pre = {} /\ evals = {}
      /\ DOMAIN apprReqs = {} /\ Types /\ gov \in Versions
  BY DEF Restart, StartIdle, StartRevalidates, StartRequest, StartFails, Start,
         IndInv, Idle, Types, ControlOK, EvaluationOK
<1>1. CASE StartIdle
  BY <1>0, <1>1, OneIdle DEF StartIdle, Start, db, stops
<1>2. CASE StartRevalidates
  <2>1. /\ prevalidated # None /\ submitted' = submitted \cup {prevalidated}
        /\ stage' = Validate(gov)
        /\ UNCHANGED <<db, pre, evals, apprReqs, handing, dropped>>
    BY <1>2 DEF StartRevalidates, Start, db, stops
  <2>2. submitted' = submitted
    BY <1>0, <2>1 DEF Types, SubmittedOK
  <2>3. stage' \in StageRecords /\ stage' # None /\ stage'.stage = "validate"
    BY <1>0, <2>1, ValidateRecord, NoneAssumption
  <2>4. OneEvaluation' /\ OneApproval' /\ StoredOnce'
    BY <1>0, <2>1, <2>3 DEF OneEvaluation, OneApproval, StoredOnce
  <2>5. Numbered' /\ SubmittedKept' /\ OneSubmissionPerSn'
    BY <2>1, <2>2, LogStays DEF db
  <2>6. Pending'
    BY <2>1 DEF db, OneVersionInv, Pending, AcknowledgedNotLost, Applied
  <2>7. QED
    BY <2>4, <2>5, <2>6 DEF OneVersionInv
<1>3. CASE StartRequest
  <2>1. /\ prevalidated = None /\ request # None /\ NewEvent(request)
        /\ UNCHANGED <<subject, events, evals, apprReqs, handing, gov, dropped>>
    BY <1>3 DEF StartRequest, Start, stops
  <2>2. request \in Requests
    BY <1>0, <2>1 DEF Types, DbOK
  <2>3. CASE Kind[request] = "fact"
    BY <1>0, <2>1, <2>2, <2>3, OneEvaluationStarts DEF NewEvent
  <2>4. CASE Kind[request] # "fact"
    BY <1>0, <2>1, <2>2, <2>4, OneValidationStarts DEF NewEvent
  <2>5. QED
    BY <2>3, <2>4
<1>4. CASE StartFails
  BY <1>0, <1>4, OneIdle DEF StartFails, memory, stops
<1>5. QED
  BY <1>1, <1>2, <1>3, <1>4 DEF Restart

(* Every step keeps the invariant under one version.                       *)
LEMMA NextOneVersion ==
  ASSUME MaxGov = 0
  PROVE  IndInv /\ OneVersionInv /\ [Next]_vars => OneVersionInv'
<1> SUFFICES ASSUME IndInv, OneVersionInv, [Next]_vars PROVE OneVersionInv'
  OBVIOUS
<1>0. gov = 0 /\ notified = 0
  BY OneVersion DEF IndInv
<1>1. CASE UNCHANGED vars
  <2>1. UNCHANGED <<db, stage, pre, evals, apprReqs, handing, gov, submitted, dropped>>
    BY <1>1 DEF vars, memory, stops
  <2>2. OneEvaluation' /\ OneApproval' /\ StoredOnce'
    BY <2>1 DEF db, OneVersionInv, OneEvaluation, OneApproval, StoredOnce,
       EvaluationRequest, ApprovalRequest
  <2>3. Numbered' /\ SubmittedKept' /\ OneSubmissionPerSn'
    BY <2>1, LogStays DEF db
  <2>4. Pending'
    BY <2>1 DEF db, OneVersionInv, Pending, AcknowledgedNotLost, Applied
  <2>5. QED
    BY <2>2, <2>3, <2>4 DEF OneVersionInv
<1>2. ASSUME NEW r \in Requests, PreNewEvent(r) PROVE OneVersionInv'
  BY <1>2, OnePreNewEvent
<1>3. ASSUME NEW n \in Nodes, EvaluatorResponse(n) PROVE OneVersionInv'
  BY <1>3, OneKeepEvaluation, OneEvaluatedEvent, OneRejectEvaluation, OneAskApproval
  DEF EvaluatorResponse
<1>4. ASSUME NEW n \in Nodes, ApproverResponse(n) PROVE OneVersionInv'
  BY <1>4, OneKeepApproval, OneApprovedEvent DEF ApproverResponse
<1>5. ASSUME NEW n \in Nodes, ValidatorResponse(n) PROVE OneVersionInv'
  BY <1>5, OneKeepValidation, OneHandToLedger DEF ValidatorResponse
<1>6. CASE Complete
  BY <1>6, OneEventValidated, OneDelPrevalidated, OneFinishEvent DEF Complete
<1>7. CASE GovernanceAdvances
  BY <1>0, <1>7 DEF GovernanceAdvances
<1>8. CASE NewGovernanceVersion
  BY <1>0, <1>8 DEF NewGovernanceVersion, UpdateNothing, UpdateReevaluates,
     UpdateRevalidates, UpdateDoesBoth, UpdateStops, GovernanceUpdate
<1>9. CASE Crashes
  BY <1>9, OneCrashes
<1>10. CASE Restart
  BY <1>10, OneRestart
<1>11. QED
  BY <1>1, <1>2, <1>3, <1>4, <1>5, <1>6, <1>7, <1>8, <1>9, <1>10 DEF Next

(* Both invariants hold while the governance stays.                        *)
LEMMA OneVersionHolds ==
  ASSUME MaxGov = 0
  PROVE  Spec => [](IndInv /\ OneVersionInv)
<1>1. Init => IndInv /\ OneVersionInv
  BY InitInv, InitOneVersion
<1>2. IndInv /\ OneVersionInv /\ [Next]_vars => (IndInv /\ OneVersionInv)'
  BY NextInv, NextOneVersion
<1>3. QED
  BY <1>1, <1>2, PTL DEF Spec

(* Under one version of the governance, whatever crashes, late answers and *)
(* restarts happen, validators are never asked about two events of one     *)
(* sequence number, one that a crash kept approver_signatures from saving  *)
(* not counted (event_completer.rs evaluator_signatures,                   *)
(* approver_signatures, init).                                             *)
THEOREM OneSubmission ==
  ASSUME MaxGov = 0
  PROVE  Spec => []OneSubmissionPerSn
<1>1. OneVersionInv => OneSubmissionPerSn
  BY DEF OneVersionInv
<1>2. QED
  BY <1>1, OneVersionHolds, PTL

(* Under one version of the governance, a registered request is in the     *)
(* database or its event is in the ledger, also after a crash between the  *)
(* writes of a handler, unless that was new_event registering a fact       *)
(* (event_completer.rs new_event, evaluator_signatures,                    *)
(* approver_signatures, validation_signatures, init).                      *)
THEOREM AcknowledgedKept ==
  ASSUME MaxGov = 0
  PROVE  Spec => []AcknowledgedNotLost
<1>1. OneVersionInv => AcknowledgedNotLost
  BY DEF OneVersionInv, Pending
<1>2. QED
  BY <1>1, OneVersionHolds, PTL

-----------------------------------------------------------------------------
(* Facts only: the log of the subject.                                     *)
FactsOnly == \A r \in Requests : Kind[r] = "fact"

(* A fact is between the ledger's two writes only as the next event.       *)
NextFact ==
  handing # None /\ handing.phase = "event" => handing.event.sn = subject.sn + 1

CurrentInv == CurrentSnIsCache /\ NextFact

(* Wherever the node crashes, it goes down.                                *)
LEMMA CrashGoesDown == Crashes => CrashInside
BY DEF Crashes, Crash, CrashUnstored, CrashUnrequested, CrashEvaluated, CrashApproved,
   CrashSaved, CrashUnsaved

(* With facts only, the ledger counts an event when it is the next one.    *)
LEMMA NextCurrentSn ==
  ASSUME FactsOnly
  PROVE  IndInv /\ CurrentInv /\ [Next]_vars => CurrentInv'
<1> SUFFICES ASSUME IndInv, CurrentInv, [Next]_vars PROVE CurrentInv'
  OBVIOUS
<1>0. ASSUME UNCHANGED <<mode, currentSn, subject>>,
             handing' = handing \/ ~ (handing # None /\ handing.phase = "event")'
      PROVE  CurrentInv'
  BY <1>0 DEF CurrentInv, CurrentSnIsCache, NextFact
<1>1. CASE UNCHANGED vars
  BY <1>0, <1>1 DEF vars, db, memory
<1>2. ASSUME NEW r \in Requests, PreNewEvent(r) PROVE CurrentInv'
  BY <1>0, <1>2 DEF PreNewEvent
<1>3. ASSUME NEW n \in Nodes, EvaluatorResponse(n) PROVE CurrentInv'
  BY <1>0, <1>3 DEF EvaluatorResponse, KeepEvaluation, EvaluatedEvent, RejectEvaluation,
     AskApproval, db
<1>4. ASSUME NEW n \in Nodes, ApproverResponse(n) PROVE CurrentInv'
  BY <1>0, <1>4 DEF ApproverResponse, KeepApproval, ApprovedEvent, db
<1>5. ASSUME NEW n \in Nodes, ValidatorResponse(n) PROVE CurrentInv'
  <2>1. PICK ev \in DOMAIN validating : KeepValidation(ev, n) \/ HandToLedger(ev, n)
    BY <1>5 DEF ValidatorResponse
  <2>2. UNCHANGED <<mode, currentSn, subject>> /\ (handing' = handing \/ handing'.phase = "ledger")
    BY <2>1 DEF KeepValidation, HandToLedger, db
  <2>3. QED
    BY <1>0, <2>2
<1>6. CASE EventValidated
  <2>1. /\ InPhase("ledger") \/ InPhase("event")
    BY <1>6 DEF EventValidated, StoreEvent, RefuseFact, StoreFact, StoreTransfer, StoreEOL,
       Sourcing
  <2>2. /\ mode = "up" /\ handing \in Handings /\ handing.event \in Events
        /\ handing.event.sn \in Nat
        /\ subject \in [sn : Nat, state : States, owned : BOOLEAN, active : BOOLEAN]
    BY <2>1, WithLedger DEF IndInv, Types, DbOK
  <2>3. Kind[handing.event.req] = "fact"
    BY <2>2 DEF FactsOnly, Events
  <2>4. CASE StoreEvent
    <3>1. /\ subject.sn = handing.event.sn - 1 /\ UNCHANGED <<mode, currentSn, subject>>
          /\ handing' = [handing EXCEPT !.phase = "event"]
      BY <2>3, <2>4 DEF StoreEvent, WrongSnInSubject
    <3>2. handing'.event = handing.event
      BY <2>2, <3>1 DEF Handings
    <3>3. QED
      BY <2>2, <3>1, <3>2 DEF CurrentInv, CurrentSnIsCache, NextFact
  <2>5. CASE RefuseFact
    <3>1. /\ UNCHANGED <<mode, currentSn, subject>>
          /\ handing' = [handing EXCEPT !.phase = "stored"]
      BY <2>5 DEF RefuseFact, LedgerAnswers
    <3>2. handing'.phase = "stored"
      BY <2>2, <3>1 DEF Handings
    <3>3. QED
      BY <1>0, <3>1, <3>2
  <2>6. CASE StoreFact
    <3>1. /\ InPhase("event") /\ currentSn' = currentSn + 1 /\ mode' = mode
          /\ subject' = [subject EXCEPT !.sn = handing.event.sn,
                                        !.state = Patched(handing.event)]
          /\ handing' = [handing EXCEPT !.phase = "stored"]
      BY <2>6 DEF StoreFact, Sourcing, StoreSubject, LedgerAnswers
    <3>2. subject'.sn = handing.event.sn /\ handing'.phase = "stored"
      BY <2>2, <3>1 DEF Handings
    <3>3. handing.event.sn = subject.sn + 1
      BY <3>1 DEF InPhase, CurrentInv, NextFact
    <3>4. QED
      BY <2>2, <3>1, <3>2, <3>3 DEF CurrentInv, CurrentSnIsCache, NextFact
  <2>7. QED
    BY <1>6, <2>3, <2>4, <2>5, <2>6 DEF EventValidated, StoreTransfer, StoreEOL, Sourcing
<1>7. CASE DelPrevalidatedEvent
  <2>1. /\ InPhase("stored") /\ handing' = [handing EXCEPT !.phase = "deleted"]
        /\ UNCHANGED <<mode, currentSn, subject>>
    BY <1>7 DEF DelPrevalidatedEvent
  <2>2. handing'.phase = "deleted"
    BY <2>1, WithLedger DEF Handings
  <2>3. QED
    BY <1>0, <2>1, <2>2
<1>8. CASE FinishEvent
  BY <1>0, <1>8 DEF FinishEvent
<1>10. CASE GovernanceAdvances
  BY <1>0, <1>10 DEF GovernanceAdvances, db, memory
<1>11. CASE NewGovernanceVersion
  <2>1. CASE UpdateStops
    BY <2>1 DEF UpdateStops, Down, CurrentInv, CurrentSnIsCache, NextFact
  <2>2. CASE ~ UpdateStops
    BY <1>0, <1>11, <2>2 DEF NewGovernanceVersion, UpdateNothing, UpdateReevaluates,
       UpdateRevalidates, UpdateDoesBoth, Revalidate, db, memory
  <2>3. QED
    BY <2>1, <2>2
<1>12. CASE Crashes
  BY <1>12, CrashGoesDown DEF CrashInside, Down, CurrentInv, CurrentSnIsCache, NextFact
<1>13. CASE Restart
  <2>1. handing = None /\ mode = "down"
    BY <1>13 DEF Restart, StartIdle, StartRevalidates, StartRequest, StartFails, Start,
       IndInv, Idle
  <2>2. handing' = None
    BY <1>13, <2>1 DEF Restart, StartIdle, StartRevalidates, StartRequest, StartFails,
       Start, memory
  <2>3. QED
    BY <1>13, <2>2 DEF Restart, StartIdle, StartRevalidates, StartRequest, StartFails, Start,
       CurrentInv, CurrentSnIsCache, NextFact
<1>14. QED
  BY <1>1, <1>2, <1>3, <1>4, <1>5, <1>6, <1>7, <1>8, <1>10, <1>11, <1>12, <1>13
  DEF Next, Complete

(* As long as all requests are facts, the ledger's cached sequence number  *)
(* is that of the subject, however the governance changes and whenever the *)
(* node stops (ledger.rs event_validated, init).                           *)
THEOREM CurrentSnCached ==
  ASSUME FactsOnly
  PROVE  Spec => []CurrentSnIsCache
<1>1. Init => IndInv /\ CurrentInv
  BY InitInv DEF Init, CurrentInv, CurrentSnIsCache, NextFact
<1>2. IndInv /\ CurrentInv /\ [Next]_vars => (IndInv /\ CurrentInv)'
  BY NextInv, NextCurrentSn
<1>3. CurrentInv => CurrentSnIsCache
  BY DEF CurrentInv
<1>4. QED
  BY <1>1, <1>2, <1>3, PTL DEF Spec

(* The log that the stored events stand for.                               *)
RequestsOf(f) == [n \in DOMAIN f |-> f[n].req]
Stored == RequestsOf(events)

LogNext == \E r \in Requests : Log!Register(r) \/ Log!Apply(r)

(* The requests in the log are those that were applied.                    *)
LEMMA LogDone == \A r : r \in Log!Done <=> Applied(r)
  BY DEF Log!Done, Applied

(* What leaves events and registered requests alone is a stutter.          *)
LEMMA LogStutters ==
  ASSUME UNCHANGED <<events, Kept>>
  PROVE  [LogNext]_<<Kept, Stored>>
  BY DEF Stored

(* One more event of the sequence.                                         *)
LEMMA AppendOne ==
  ASSUME NEW f, NEW k \in Nat, DOMAIN f = 1 .. k, NEW ev
  PROVE  RequestsOf(Put(f, k + 1, ev)) = Append(RequestsOf(f), ev.req)
<1> DEFINE s == RequestsOf(f)
           t == RequestsOf(Put(f, k + 1, ev))
<1>1. /\ DOMAIN Put(f, k + 1, ev) = 1 .. (k + 1) /\ Put(f, k + 1, ev)[k + 1] = ev
      /\ \A n \in 1 .. k : Put(f, k + 1, ev)[n] = f[n]
  BY DEF Put
<1>2. s = [n \in 1 .. k |-> f[n].req]
  BY DEF RequestsOf
<1>3. t = [n \in 1 .. (k + 1) |-> IF n = k + 1 THEN ev.req ELSE s[n]]
  BY <1>1, <1>2 DEF RequestsOf
<1>4. s \in Seq({s[n] : n \in 1 .. k}) /\ Len(s) = k
  BY <1>2
<1> HIDE DEF s, t
<1>5. t = Append(s, ev.req)
  BY <1>3, <1>4
<1>6. QED
  BY <1>5 DEF s, t

(* A request or an event of the database may be gone.                      *)
LEMMA RegisteredKept ==
  ASSUME Registered, UNCHANGED <<events, known, dropped, crashes>>,
         prevalidated' = prevalidated \/ prevalidated' = None,
         \/ request' = None
         \/ /\ request' = request
            /\ Applied(request) => mode' = "up" /\ (prevalidated' # None \/ handing' # None)
  PROVE  Registered' /\ UNCHANGED <<events, Kept>>
  BY DEF Registered, Applied, Kept

(* A handler that leaves the database alone.                               *)
LEMMA RegisteredSame ==
  ASSUME Registered, UNCHANGED <<events, known, dropped, crashes, prevalidated, request, mode>>,
         handing' = handing \/ handing' # None
  PROVE  Registered' /\ UNCHANGED <<events, Kept>>
<1>1. request # None /\ Applied(request) =>
        mode' = "up" /\ (prevalidated' # None \/ handing' # None)
  BY DEF Registered
<1>2. QED
  BY <1>1, RegisteredKept

(* A request that is not yet applied becomes an event.                     *)
LEMMA RegisteredSubmitted ==
  ASSUME Registered, Ready, prevalidated = None, request # None,
         NEW ev, NEW g, SubmitEvent(ev, g),
         ev.req = request, UNCHANGED <<events, known, stops>>
  PROVE  Registered' /\ UNCHANGED <<events, Kept>>
<1>1. prevalidated' = ev /\ request' = None /\ UNCHANGED <<known, dropped, crashes>>
  BY DEF SubmitEvent, stops
<1>2. QED
  BY <1>1 DEF Registered, Applied, Ready, Kept

(* An evaluation that begins is of a request not applied yet.              *)
LEMMA RegisteredStarts ==
  ASSUME Registered, prevalidated = None, NEW r \in Requests \ dropped, ~ Applied(r),
         StartEvaluation(r), UNCHANGED <<subject, events, stops>>
  PROVE  Registered' /\ Kept' = Kept \cup {r} /\ events' = events
<1>1. /\ known' = known \cup {r} /\ request' = r /\ prevalidated' = None
      /\ UNCHANGED <<dropped, crashes>>
  BY DEF StartEvaluation, stops
<1>2. Kept' = Kept \cup {r}
  BY <1>1 DEF Kept
<1>3. QED
  BY <1>1, <1>2 DEF Registered, Applied

(* Handlers before validation find a request that is not applied.          *)
LEMMA NotYetApplied ==
  ASSUME IndInv, Registered, Ready, stage # None, stage.stage # "validate"
  PROVE  prevalidated = None /\ request # None /\ request \in Kept /\ ~ Applied(request)
  BY DEF IndInv, StageIsPersisted, Registered, Ready

(* An answer of an evaluator is a stutter of the log.                      *)
LEMMA EvaluationsLog ==
  ASSUME MaxGov = 0, IndInv, OneVersionInv, Registered,
         NEW n \in Nodes, EvaluatorResponse(n)
  PROVE  Registered' /\ UNCHANGED <<events, Kept>>
<1>1. PICK e \in pre :
        \/ \E verdict \in Verdicts[e.req] :
             \/ KeepEvaluation(e, n, verdict)
             \/ \E g \in Versions : EvaluatedEvent(e, n, verdict, g)
        \/ RejectEvaluation(e, n)
        \/ AskApproval(e, n)
  BY DEF EvaluatorResponse
<1>2. ASSUME NEW verdict, NEW g, EvaluatedEvent(e, n, verdict, g)
      PROVE  Registered' /\ UNCHANGED <<events, Kept>>
  <2> DEFINE ev == EventOfEvaluation(e, n, verdict)
  <2>1. /\ Evaluated(e, n, verdict) /\ SubmitEvent(ev, g)
        /\ UNCHANGED <<events, known, stops>>
    BY <1>2 DEF EvaluatedEvent
  <2>2. ev.req = request /\ Ready /\ stage # None /\ stage.stage = "evaluate"
    BY <2>1, OneEvaluated
  <2> HIDE DEF ev
  <2>3. QED
    BY <2>1, <2>2, NotYetApplied, RegisteredSubmitted
<1>3. ASSUME NEW verdict, KeepEvaluation(e, n, verdict)
      PROVE  Registered' /\ UNCHANGED <<events, Kept>>
  BY <1>3, RegisteredSame DEF KeepEvaluation, db, stops
<1>4. ASSUME RejectEvaluation(e, n) \/ AskApproval(e, n)
      PROVE  Registered' /\ UNCHANGED <<events, Kept>>
  BY <1>4, RegisteredSame DEF RejectEvaluation, AskApproval, db, stops
<1>5. QED
  BY <1>1, <1>2, <1>3, <1>4

(* An answer of an approver is a stutter of the log.                       *)
LEMMA ApprovalsLog ==
  ASSUME MaxGov = 0, IndInv, OneVersionInv, Registered,
         NEW n \in Nodes, ApproverResponse(n)
  PROVE  Registered' /\ UNCHANGED <<events, Kept>>
<1>1. PICK a \in DOMAIN apprReqs : \E accept \in BOOLEAN :
        \/ KeepApproval(a, n, accept)
        \/ \E g \in Versions : ApprovedEvent(a, n, accept, g)
  BY DEF ApproverResponse
<1>2. ASSUME NEW accept \in BOOLEAN, NEW g \in Versions, ApprovedEvent(a, n, accept, g)
      PROVE  Registered' /\ UNCHANGED <<events, Kept>>
  <2> DEFINE ev == EventOfApproval(a, n, accept, g)
  <2>1. /\ Approved(a, n, accept) /\ SubmitEvent(ev, g)
        /\ UNCHANGED <<events, known, stops>>
    BY <1>2 DEF ApprovedEvent
  <2>2. ev.req = request /\ Ready /\ stage # None /\ stage.stage = "approve"
    BY <2>1, OneApproved
  <2> HIDE DEF ev
  <2>3. QED
    BY <2>1, <2>2, NotYetApplied, RegisteredSubmitted
<1>3. ASSUME NEW accept, KeepApproval(a, n, accept)
      PROVE  Registered' /\ UNCHANGED <<events, Kept>>
  BY <1>3, RegisteredSame DEF KeepApproval, db, stops
<1>4. QED
  BY <1>1, <1>2, <1>3

(* An accepted request: all registered before it are done.                 *)
LEMMA RegisterLog ==
  ASSUME FactsOnly, IndInv, OneVersionInv, Registered,
         NEW r \in Requests, PreNewEvent(r)
  PROVE  Registered' /\ LogNext
<1>1. /\ Ready /\ stage = None /\ r \notin known /\ StartEvaluation(r)
      /\ UNCHANGED <<subject, events, stops>>
  BY DEF PreNewEvent, Accepted, NewEvent, FactsOnly
<1>2. prevalidated = None /\ request = None
  BY <1>1 DEF IndInv, StageIsPersisted
<1>3. \A q : q \in Kept <=> Applied(q)
  BY <1>2, CompleterAssumption
  DEF Registered, Kept, Applied, OneVersionInv, Pending, AcknowledgedNotLost, IndInv,
      Types, DbOK
<1>4. r \notin Kept /\ r \notin dropped
  BY <1>1 DEF Kept, Registered
<1>5. Registered' /\ Kept' = Kept \cup {r} /\ events' = events
  BY <1>1, <1>2, <1>3, <1>4, RegisteredStarts
<1>6. Kept = Log!Done
  BY <1>3, LogDone
<1>7. Log!Register(r)
  BY <1>4, <1>5, <1>6 DEF Log!Register, Kept
<1>8. QED
  BY <1>5, <1>7 DEF LogNext

(* A stored event: the next of the log, of a request not yet in it.        *)
LEMMA ApplyLog ==
  ASSUME FactsOnly, IndInv, StoredInv, OneVersionInv, Registered, StoreEvent
  PROVE  Registered' /\ LogNext
<1> DEFINE p == prevalidated
<1>1. /\ InPhase("ledger") /\ ~ WrongSnInSubject(handing.event)
      /\ events' = Put(events, handing.event.sn, handing.event)
      /\ known' = known \cup {handing.event.req}
      /\ UNCHANGED <<request, prevalidated, dropped, crashes, mode>>
  BY DEF StoreEvent, stops
<1>2. /\ handing.event = p /\ p # None /\ p \in Events /\ p.sn \in Nat /\ p.req \in Requests
  BY <1>1, WithLedger DEF Events
<1>3. subject.sn \in Nat /\ p.sn = subject.sn + 1
  BY <1>1, <1>2 DEF IndInv, Types, DbOK, WrongSnInSubject, FactsOnly
<1>4. DOMAIN events = 1 .. subject.sn
  <2>1. IsLastEvent(subject.sn)
    BY <1>1, RunningAtLast DEF InPhase
  <2>2. subject.sn + 1 \notin DOMAIN events
    BY <1>3, <2>1 DEF IsLastEvent
  <2>3. QED
    BY <1>3, <2>2 DEF OneVersionInv, Numbered
<1>5. p.req \in Kept /\ ~ Applied(p.req)
  BY <1>2, <1>3, <1>4 DEF Registered
<1>6. known' = known /\ Kept' = Kept
  BY <1>1, <1>2, <1>5 DEF Kept
<1>7. Registered'
  <2>1. \A n \in DOMAIN events' : events'[n].req \in Kept
    BY <1>1, <1>2, <1>5 DEF Registered, Put
  <2>2. p.sn \in DOMAIN events'
    BY <1>1, <1>2 DEF Put
  <2>3. request # None => request \in Kept /\ crashes > 0 /\ mode = "up"
    BY <1>1, <1>2 DEF Registered, InPhase
  <2>4. QED
    BY <1>1, <1>2, <1>5, <1>6, <2>1, <2>2, <2>3 DEF Registered
<1>8. Stored' = Append(Stored, p.req)
  <2>1. events' = Put(events, subject.sn + 1, p)
    BY <1>1, <1>2, <1>3
  <2>2. RequestsOf(events') = Append(RequestsOf(events), p.req)
    BY <1>3, <1>4, <2>1, AppendOne
  <2>3. QED
    BY <2>2 DEF Stored
<1>9. PICK r \in Requests : r = p.req
  BY <1>2
<1>10. Log!Apply(r)
  BY <1>5, <1>6, <1>8, <1>9, LogDone DEF Log!Apply, Stored, RequestsOf, Kept
<1>11. QED
  BY <1>7, <1>10 DEF LogNext

(* The only crash is a stutter of the log, whatever it interrupts.         *)
LEMMA CrashLog ==
  ASSUME MaxGov = 0, MaxCrashes <= 1, FactsOnly, IndInv, OneVersionInv, Registered, Crashes
  PROVE  Registered' /\ UNCHANGED <<events, Kept>>
<1>0. CrashInside
  BY CrashGoesDown
<1>1. /\ Down /\ events' = events /\ handing' = None /\ mode' = "down"
      /\ crashes = 0 /\ crashes' = 1
  BY <1>0, CompleterAssumption DEF CrashInside, Down, Registered
<1>2. request # None => request \in Kept /\ ~ Applied(request) /\ prevalidated = None
  BY <1>1 DEF Registered
<1>3. ASSUME UNCHANGED <<request, prevalidated>>, known' \ dropped' = Kept, dropped' \subseteq known'
      PROVE  Registered' /\ Kept' = Kept
  BY <1>1, <1>2, <1>3 DEF Registered, Applied, Kept
<1>4. ASSUME NEW ev, NEW g, CrashSaved(ev, g), ev.req = request, request # None
      PROVE  Registered' /\ Kept' = Kept
  <2>1. /\ prevalidated' = ev /\ UNCHANGED <<request, known, dropped>>
    BY <1>4 DEF CrashSaved
  <2>2. Kept' = Kept
    BY <2>1 DEF Kept
  <2>3. ~ Applied(prevalidated.req)' /\ ~ Applied(request)'
    BY <1>1, <1>2, <1>4, <2>1 DEF Applied
  <2>4. QED
    BY <1>1, <1>2, <1>4, <2>1, <2>2, <2>3 DEF Registered
<1>5. CASE Crash
  <2>1. UNCHANGED <<request, prevalidated, known, dropped>>
    BY <1>5 DEF Crash
  <2>2. known' \ dropped' = Kept /\ dropped' \subseteq known'
    BY <2>1 DEF Registered, Kept
  <2>3. QED
    BY <1>1, <1>3, <2>1, <2>2
<1>6. ASSUME NEW r \in Requests, CrashUnstored(r) PROVE Registered' /\ Kept' = Kept
  <2>1. /\ r \notin known /\ known' = known \cup {r} /\ dropped' = dropped \cup {r}
        /\ UNCHANGED <<request, prevalidated>>
    BY <1>6 DEF CrashUnstored, Accepted
  <2>2. QED
    BY <1>3, <2>1 DEF Registered, Kept
<1>7. ASSUME NEW n \in Nodes, NEW g \in Versions, NEW e \in pre, NEW verdict,
             CrashEvaluated(e, n, verdict, g)
      PROVE  Registered' /\ Kept' = Kept
  <2>1. Evaluated(e, n, verdict) /\ CrashSaved(EventOfEvaluation(e, n, verdict), g)
    BY <1>7 DEF CrashEvaluated
  <2>2. QED
    BY <1>4, <2>1, OneEvaluated, NotYetApplied
<1>8. ASSUME NEW n \in Nodes, NEW g \in Versions, NEW a \in DOMAIN apprReqs,
             NEW accept \in BOOLEAN, CrashApproved(a, n, accept, g)
      PROVE  Registered' /\ Kept' = Kept
  <2> DEFINE ev == EventOfApproval(a, n, accept, g)
  <2>1. Approved(a, n, accept) /\ (CrashUnsaved(ev, g) \/ CrashSaved(ev, g))
    BY <1>8 DEF CrashApproved
  <2>2. CASE CrashUnsaved(ev, g)
    BY <1>3, <2>2 DEF CrashUnsaved, Registered, Kept
  <2>3. CASE CrashSaved(ev, g)
    BY <1>4, <2>1, <2>3, OneApproved, NotYetApplied
  <2>4. QED
    BY <2>1, <2>2, <2>3
<1>9. ~ \E r \in Requests : CrashUnrequested(r)
  BY DEF CrashUnrequested, FactsOnly
<1>10. QED
  BY <1>1, <1>5, <1>6, <1>7, <1>8, <1>9 DEF Crashes

(* A start is a stutter of the log.                                        *)
LEMMA RestartLog ==
  ASSUME FactsOnly, IndInv, Registered, Restart
  PROVE  Registered' /\ UNCHANGED <<events, Kept>>
<1>1. mode = "down"
  BY DEF Restart, StartIdle, StartRevalidates, StartRequest, StartFails, Start
<1>2. request # None => ~ Applied(request)
  BY <1>1 DEF Registered
<1>3. CASE StartIdle \/ StartRevalidates \/ StartFails
  <2>1. UNCHANGED <<events, known, dropped, crashes, prevalidated, request>>
    BY <1>3 DEF StartIdle, StartRevalidates, StartFails, Start, db, stops
  <2>2. QED
    BY <1>2, <2>1, RegisteredKept
<1>4. CASE StartRequest
  <2>1. /\ prevalidated = None /\ request # None /\ NewEvent(request)
        /\ UNCHANGED <<subject, events, stops>>
    BY <1>4 DEF StartRequest, Start
  <2>2. request \in Requests \ dropped /\ request \in Kept
    BY <2>1 DEF IndInv, Types, DbOK, Registered, Kept
  <2>3. StartEvaluation(request)
    BY <2>1, <2>2 DEF NewEvent, FactsOnly
  <2>4. QED
    BY <1>2, <2>1, <2>2, <2>3, RegisteredStarts
<1>5. QED
  BY <1>3, <1>4 DEF Restart

(* Every step is a step of the log or a stutter.                           *)
LEMMA NextLog ==
  ASSUME MaxGov = 0, MaxCrashes <= 1, FactsOnly
  PROVE  IndInv /\ StoredInv /\ OneVersionInv /\ Registered /\ [Next]_vars =>
           Registered' /\ [LogNext]_<<Kept, Stored>>
<1> SUFFICES ASSUME IndInv, StoredInv, OneVersionInv, Registered, [Next]_vars
             PROVE  Registered' /\ [LogNext]_<<Kept, Stored>>
  OBVIOUS
<1> DEFINE Same == Registered' /\ UNCHANGED <<events, Kept>>
<1>0. Same => Registered' /\ [LogNext]_<<Kept, Stored>>
  BY LogStutters
<1>a. gov = 0 /\ notified = 0
  BY OneVersion DEF IndInv
<1>1. CASE UNCHANGED vars
  <2>1. Same
    BY <1>1, RegisteredSame DEF vars, db, memory, stops
  <2>2. QED
    BY <1>0, <2>1
<1>2. ASSUME NEW r \in Requests, PreNewEvent(r)
      PROVE  Registered' /\ LogNext
  BY <1>2, RegisterLog
<1>3. ASSUME NEW n \in Nodes, EvaluatorResponse(n) PROVE Same
  BY <1>3, EvaluationsLog
<1>4. ASSUME NEW n \in Nodes, ApproverResponse(n) PROVE Same
  BY <1>4, ApprovalsLog
<1>5. ASSUME NEW n \in Nodes, ValidatorResponse(n) PROVE Same
  <2>1. PICK ev \in DOMAIN validating : KeepValidation(ev, n) \/ HandToLedger(ev, n)
    BY <1>5 DEF ValidatorResponse
  <2>2. CASE KeepValidation(ev, n)
    BY <2>2, RegisteredSame DEF KeepValidation, db, stops
  <2>3. CASE HandToLedger(ev, n)
    <3>1. /\ ev \in Events /\ handing' = [phase |-> "ledger", event |-> ev]
          /\ UNCHANGED <<db, mode, stops>>
      BY <2>1, <2>3 DEF HandToLedger, IndInv, Types, ValidationOK, IsMap
    <3>2. handing' # None
      BY <3>1, NoneAssumption DEF Handings
    <3>3. QED
      BY <3>1, <3>2, RegisteredSame DEF db, stops
  <2>4. QED
    BY <2>1, <2>2, <2>3
<1>6. CASE StoreEvent
  BY <1>6, ApplyLog
<1>7. ASSUME NEW q \in {"stored", "deleted"}, handing # None,
             handing' = [handing EXCEPT !.phase = q]
      PROVE  handing' # None
  BY <1>7, NoneAssumption DEF Handings, IndInv, Types, ControlOK
<1>8. CASE EventValidated /\ ~ StoreEvent
  <2>1. /\ handing # None /\ handing' = [handing EXCEPT !.phase = "stored"]
        /\ UNCHANGED <<events, known, prevalidated, request, mode, stops>>
    BY <1>8 DEF EventValidated, RefuseFact, StoreFact, StoreTransfer, StoreEOL, StoreSubject,
       Sourcing, InPhase, LedgerAnswers
  <2>2. Same
    BY <1>7, <2>1, RegisteredSame DEF stops
  <2>3. QED
    BY <1>0, <2>2
<1>9. CASE DelPrevalidatedEvent
  <2>1. /\ InPhase("stored") /\ handing' = [handing EXCEPT !.phase = "deleted"]
        /\ prevalidated' = None /\ UNCHANGED <<events, known, request, mode, stops>>
    BY <1>9 DEF DelPrevalidatedEvent
  <2>2. Same
    BY <1>7, <2>1, RegisteredKept DEF InPhase, stops
  <2>3. QED
    BY <1>0, <2>2
<1>10. CASE FinishEvent
  <2>1. request' = None /\ UNCHANGED <<events, known, prevalidated, stops>>
    BY <1>10 DEF FinishEvent
  <2>2. Same
    BY <2>1, RegisteredKept DEF stops
  <2>3. QED
    BY <1>0, <2>2
<1>11. ~ GovernanceAdvances /\ ~ NewGovernanceVersion
  BY <1>a DEF GovernanceAdvances, NewGovernanceVersion, UpdateNothing,
     UpdateReevaluates, UpdateRevalidates, UpdateDoesBoth, UpdateStops, GovernanceUpdate
<1>12. CASE Crashes
  <2>1. Same
    BY <1>12, CrashLog
  <2>2. QED
    BY <1>0, <2>1
<1>13. CASE Restart
  <2>1. Same
    BY <1>13, RestartLog
  <2>2. QED
    BY <1>0, <2>1
<1>14. QED
  BY <1>0, <1>1, <1>2, <1>3, <1>4, <1>5, <1>6, <1>8, <1>9, <1>10, <1>11, <1>12, <1>13
  DEF Next, Complete

(* The log is empty initially.                                             *)
LEMMA InitLog == Init => Registered /\ Log!Init
<1> SUFFICES ASSUME Init PROVE Registered /\ Log!Init
  OBVIOUS
<1>1. /\ DOMAIN events = {} /\ known = {} /\ request = None /\ prevalidated = None
      /\ crashes = 0 /\ dropped = {}
  BY DEF Init, NoMap
<1>2. Registered
  BY <1>1 DEF Registered
<1>3. Log!Init
  BY <1>1 DEF Log!Init
<1>4. QED
  BY <1>2, <1>3

(* Under one version of the governance, with facts only and at most one    *)
(* crash, the owner keeps the promise of SubjectLog: requests are taken    *)
(* one at a time and each becomes one event of a list that only grows,     *)
(* wherever the crash happens, and whatever restarts and repeated answers  *)
(* do (event_completer.rs pre_new_event, init; ledger.rs event_validated). *)
(* A second crash can break the promise: if the first leaves the request   *)
(* beside its event, the second may come between the deletions of the two, *)
(* and the applied request is started again.                               *)
THEOREM ImplementsSubjectLog ==
  ASSUME MaxGov = 0, MaxCrashes <= 1, FactsOnly
  PROVE  Spec => ImplementsLog
<1>1. Init => IndInv /\ StoredInv /\ OneVersionInv /\ Registered /\ Log!Init
  BY InitInv, InitStored, InitOneVersion, InitLog
<1>2. IndInv /\ StoredInv /\ OneVersionInv /\ Registered /\ [Next]_vars =>
        /\ (IndInv /\ StoredInv /\ OneVersionInv /\ Registered)'
        /\ [LogNext]_<<Kept, Stored>>
  BY NextInv, NextStored, NextOneVersion, NextLog
<1>3. QED
  BY <1>1, <1>2, PTL DEF Spec, ImplementsLog, Log!Spec, LogNext, Stored, RequestsOf, Kept

-----------------------------------------------------------------------------
(* The evaluators behind an event, over updates of the governance.         *)

(* Version k, from lo to hi, names n as an evaluator.                      *)
Named(n, lo, hi) == \E k \in lo .. hi : n \in Signers["evaluate"][k]

(* The evaluators are asked under version h, no evaluation was requested   *)
(* under a later one, and all that answered were named since.              *)
AskedUnder(h) ==
  /\ stage.signers \subseteq Signers["evaluate"][h]
  /\ stage.q = Quorum["evaluate"][h] /\ stage.nq = Asking("evaluate", h).nq
  /\ \A e \in pre : e.gov <= h
  /\ \A x \in evals : Named(x.by, x.eval.gov, h)

AtEvaluation == stage # None /\ stage.stage = "evaluate"

QuorumInv ==
  /\ \A e \in pre : e.gov <= gov
  /\ \A x \in evals : Named(x.by, x.eval.gov, gov)
  /\ AtEvaluation => \E h \in 0 .. gov : AskedUnder(h)
  /\ \A a \in DOMAIN apprReqs :
       \E h \in apprReqs[a].eval.gov .. gov :
         /\ \A n \in apprReqs[a].by : Named(n, apprReqs[a].eval.gov, h)
         /\ Cardinality(apprReqs[a].by) >= Quorum["evaluate"][h]
  /\ EvaluatedByQuorum

(* More versions name more evaluators.                                     *)
LEMMA NamedLater ==
  ASSUME NEW n, NEW lo \in Int, NEW h \in Int, NEW i \in Int, h <= i, Named(n, lo, h)
  PROVE  Named(n, lo, i)
  BY DEF Named

(* Nobody has been asked initially.                                        *)
LEMMA InitQuorum == Init => QuorumInv
  BY DEF Init, NoMap, QuorumInv, AtEvaluation, EvaluatedByQuorum

(* What a version of the evaluations and of the node is.                   *)
LEMMA VersionTypes ==
  ASSUME IndInv
  PROVE  /\ gov \in Nat /\ \A e \in pre : e.gov \in Nat
         /\ \A x \in evals : x.eval \in pre
         /\ \A a \in DOMAIN apprReqs : apprReqs[a].eval.gov \in Nat
  BY DEF IndInv, Types, ControlOK, Versions, EvaluationOK, ApprovalOK, Evaluations

(* The governance may have advanced; the stage and its answers stay.       *)
LEMMA QuorumStays ==
  ASSUME IndInv, QuorumInv, gov' \in Nat, gov <= gov',
         pre' \subseteq pre, evals' \subseteq evals,
         AtEvaluation' => stage' = stage,
         \A a \in DOMAIN apprReqs' : a \in DOMAIN apprReqs /\ apprReqs'[a] = apprReqs[a],
         EvaluatedByQuorum'
  PROVE  QuorumInv'
<1>1. /\ gov \in Nat /\ \A e \in pre : e.gov \in Nat
      /\ \A x \in evals : x.eval \in pre
      /\ \A a \in DOMAIN apprReqs : apprReqs[a].eval.gov \in Nat
  BY VersionTypes
<1>2. \A e \in pre' : e.gov <= gov'
  BY <1>1 DEF QuorumInv
<1>3. \A x \in evals' : Named(x.by, x.eval.gov, gov')
  BY <1>1, NamedLater DEF QuorumInv
<1>4. ASSUME AtEvaluation' PROVE \E h \in 0 .. gov' : AskedUnder(h)'
  <2>1. PICK h \in 0 .. gov : AskedUnder(h)
    BY <1>4 DEF QuorumInv, AtEvaluation
  <2>2. AskedUnder(h)'
    BY <1>4, <2>1 DEF AskedUnder
  <2>3. h \in 0 .. gov'
    BY <1>1
  <2>4. QED
    BY <2>2, <2>3
<1>5. ASSUME NEW a \in DOMAIN apprReqs'
      PROVE  \E h \in apprReqs'[a].eval.gov .. gov' :
               /\ \A n \in apprReqs'[a].by : Named(n, apprReqs'[a].eval.gov, h)
               /\ Cardinality(apprReqs'[a].by) >= Quorum["evaluate"][h]
  <2>1. PICK h \in apprReqs[a].eval.gov .. gov :
          /\ \A n \in apprReqs[a].by : Named(n, apprReqs[a].eval.gov, h)
          /\ Cardinality(apprReqs[a].by) >= Quorum["evaluate"][h]
    BY DEF QuorumInv
  <2>2. h \in apprReqs[a].eval.gov .. gov'
    BY <1>1
  <2>3. QED
    BY <2>1, <2>2
<1>6. QED
  BY <1>2, <1>3, <1>4, <1>5 DEF QuorumInv

(* The evaluation of a request begins under the version in force.          *)
LEMMA QuorumStarts ==
  ASSUME IndInv, QuorumInv, NEW r \in Requests, StartEvaluation(r),
         UNCHANGED <<evals, apprReqs, gov>>
  PROVE  QuorumInv'
<1>1. /\ pre' = pre \cup {EvaluationRequest(r)} /\ stage' = Asking("evaluate", gov)
      /\ submitted' = submitted
  BY DEF StartEvaluation
<1>2. gov \in Nat /\ gov \in Versions /\ \A e \in pre : e.gov \in Nat
  BY VersionTypes DEF IndInv, Types, ControlOK
<1>3. EvaluationRequest(r).gov = gov
  BY DEF EvaluationRequest
<1>4. \A e \in pre' : e.gov <= gov
  BY <1>1, <1>2, <1>3 DEF QuorumInv
<1>5. /\ stage'.signers = Signers["evaluate"][gov] /\ stage'.q = Quorum["evaluate"][gov]
      /\ stage'.nq = Asking("evaluate", gov).nq
  BY <1>1, <1>2, AskingRecord DEF Stages
<1>6. PICK v \in 0 .. gov : v = gov
  BY <1>2
<1>7. AskedUnder(v)'
  BY <1>4, <1>5, <1>6 DEF AskedUnder, QuorumInv
<1>8. EvaluatedByQuorum'
  BY <1>1 DEF QuorumInv, EvaluatedByQuorum
<1>9. QED
  BY <1>4, <1>6, <1>7, <1>8 DEF QuorumInv

(* An evaluation that arrives is by an evaluator of the stage's version.   *)
LEMMA QuorumArrives ==
  ASSUME IndInv, QuorumInv, NEW e \in pre, NEW n \in Nodes, NEW verdict,
         EvaluationArrives(e, n, verdict)
  PROVE  \E h \in 0 .. gov :
           /\ AskedUnder(h) /\ h \in e.gov .. gov /\ Named(n, e.gov, h)
           /\ \A m \in SameEvaluation(e, n, verdict) : Named(m, e.gov, h)
<1>1. AtEvaluation /\ n \in stage.signers
  BY DEF EvaluationArrives, InStage, AtEvaluation
<1>2. PICK h \in 0 .. gov : AskedUnder(h)
  BY <1>1 DEF QuorumInv
<1>3. h \in e.gov .. gov /\ e.gov \in Nat
  BY <1>2, VersionTypes DEF AskedUnder
<1>4. Named(n, e.gov, h)
  <2>1. n \in Signers["evaluate"][h] /\ h \in e.gov .. h
    BY <1>1, <1>2, <1>3 DEF AskedUnder
  <2>2. QED
    BY <2>1 DEF Named
<1>5. \A m \in SameEvaluation(e, n, verdict) : Named(m, e.gov, h)
  BY <1>2, <1>4 DEF SameEvaluation, AskedUnder
<1>6. QED
  BY <1>2, <1>3, <1>4, <1>5

(* The event of evaluations that make a quorum has enough evaluators.      *)
LEMMA QuorumEvaluated ==
  ASSUME IndInv, QuorumInv, NEW e \in pre, NEW n \in Nodes, NEW verdict,
         Evaluated(e, n, verdict)
  PROVE  EnoughEvaluators(EventOfEvaluation(e, n, verdict))
<1> DEFINE by == SameEvaluation(e, n, verdict)
           ev == EventOfEvaluation(e, n, verdict)
<1>1. /\ verdict \in {"ok", "fail"} /\ EvaluationArrives(e, n, verdict)
      /\ EvaluationQuorum(e, n, verdict)
  BY DEF Evaluated
<1>2. PICK h \in 0 .. gov :
        /\ AskedUnder(h) /\ h \in e.gov .. gov
        /\ \A m \in by : Named(m, e.gov, h)
  BY <1>1, QuorumArrives
<1>3. Cardinality(by) >=
        IF verdict = "fail" THEN Asking("evaluate", h).nq ELSE Quorum["evaluate"][h]
  BY <1>1, <1>2 DEF EvaluationQuorum, Successes, AskedUnder
<1>4. /\ ev.eval = e /\ ev.gov = gov /\ ev.evaluators = by /\ ev.verdict = verdict
  BY DEF EventOfEvaluation
<1> HIDE DEF ev, by
<1>5. EnoughEvaluators(ev)
  BY <1>2, <1>3, <1>4 DEF EnoughEvaluators, Named
<1>6. QED
  BY <1>5 DEF ev

(* The event of a vote takes the evaluators along.                         *)
LEMMA QuorumApproved ==
  ASSUME IndInv, QuorumInv, NEW a \in DOMAIN apprReqs, NEW n, NEW accept,
         NEW g \in Versions, g >= gov
  PROVE  EnoughEvaluators(EventOfApproval(a, n, accept, g))
<1> DEFINE ev == EventOfApproval(a, n, accept, g)
<1>1. PICK h \in apprReqs[a].eval.gov .. gov :
        /\ \A m \in apprReqs[a].by : Named(m, apprReqs[a].eval.gov, h)
        /\ Cardinality(apprReqs[a].by) >= Quorum["evaluate"][h]
  BY DEF QuorumInv
<1>2. h \in apprReqs[a].eval.gov .. g
  BY VersionTypes, CompleterAssumption DEF Versions
<1>3. /\ ev.eval = apprReqs[a].eval /\ ev.gov = g /\ ev.evaluators = apprReqs[a].by
      /\ ev.verdict = "approve"
  BY DEF EventOfApproval
<1> HIDE DEF ev
<1>4. EnoughEvaluators(ev)
  BY <1>1, <1>2, <1>3 DEF EnoughEvaluators, Named
<1>5. QED
  BY <1>4 DEF ev

(* An evaluation is added to those that are kept.                          *)
LEMMA QuorumKept ==
  ASSUME IndInv, QuorumInv, NEW e \in pre, NEW n \in Nodes, NEW verdict,
         EvaluationArrives(e, n, verdict),
         evals' = evals \cup {[eval |-> e, by |-> n, verdict |-> verdict]},
         stage' # None, stage'.signers \subseteq stage.signers,
         stage'.q = stage.q, stage'.nq = stage.nq,
         UNCHANGED <<pre, apprReqs, gov, submitted>>
  PROVE  QuorumInv'
<1>1. PICK h \in 0 .. gov :
        AskedUnder(h) /\ h \in e.gov .. gov /\ Named(n, e.gov, h)
  BY QuorumArrives
<1>2. AskedUnder(h)'
  BY <1>1 DEF AskedUnder
<1>3. gov \in Nat /\ e.gov \in Nat
  BY VersionTypes
<1>4. \A x \in evals' : Named(x.by, x.eval.gov, gov)
  BY <1>1, <1>3, NamedLater DEF QuorumInv
<1>5. EvaluatedByQuorum'
  BY DEF QuorumInv, EvaluatedByQuorum
<1>6. QED
  BY <1>2, <1>4, <1>5 DEF QuorumInv

(* The answers of evaluators.                                              *)
LEMMA QuorumEvaluations ==
  ASSUME IndInv, QuorumInv, NEW n \in Nodes, EvaluatorResponse(n)
  PROVE  QuorumInv'
<1>1. PICK e \in pre :
        \/ \E verdict \in Verdicts[e.req] :
             \/ KeepEvaluation(e, n, verdict)
             \/ \E g \in Versions : EvaluatedEvent(e, n, verdict, g)
        \/ RejectEvaluation(e, n)
        \/ AskApproval(e, n)
  BY DEF EvaluatorResponse
<1>2. gov \in Nat /\ e.gov \in Nat /\ gov \in Versions
  BY VersionTypes DEF IndInv, Types, ControlOK
<1>3. ASSUME NEW verdict, EvaluationArrives(e, n, verdict)
      PROVE  stage # None /\ stage \in StageRecords
  BY <1>3 DEF EvaluationArrives, InStage, IndInv, Types, ControlOK
<1>4. ASSUME NEW verdict, KeepEvaluation(e, n, verdict) PROVE QuorumInv'
  <2>1. /\ EvaluationArrives(e, n, verdict)
        /\ evals' = evals \cup {[eval |-> e, by |-> n, verdict |-> verdict]}
        /\ stage' = [stage EXCEPT !.signers = @ \ {n}]
        /\ UNCHANGED <<pre, apprReqs, gov, submitted>>
    BY <1>4 DEF KeepEvaluation
  <2>2. /\ stage' \in StageRecords /\ stage'.signers \subseteq stage.signers
        /\ stage'.q = stage.q /\ stage'.nq = stage.nq
    BY <1>3, <2>1, FewerSigners
  <2>3. QED
    BY <2>1, <2>2, QuorumKept, NoneAssumption
<1>5. CASE RejectEvaluation(e, n)
  <2>1. /\ EvaluationArrives(e, n, "failapprove")
        /\ evals' = evals \cup {[eval |-> e, by |-> n, verdict |-> "failapprove"]}
        /\ UNCHANGED <<stage, pre, apprReqs, gov, submitted>>
    BY <1>5 DEF RejectEvaluation
  <2>2. QED
    BY <1>3, <2>1, QuorumKept
<1>6. ASSUME CleanEvaluation(e) PROVE pre' \subseteq pre /\ evals' \subseteq evals
  BY <1>6 DEF CleanEvaluation
<1>7. ASSUME NEW verdict, NEW g \in Versions, EvaluatedEvent(e, n, verdict, g)
      PROVE  QuorumInv'
  <2> DEFINE ev == EventOfEvaluation(e, n, verdict)
  <2>1. /\ Evaluated(e, n, verdict)
        /\ SubmitEvent(ev, g) /\ CleanEvaluation(e) /\ stage' = Asking("validate", gov)
        /\ UNCHANGED apprReqs
    BY <1>7 DEF EvaluatedEvent
  <2>2. EnoughEvaluators(ev)
    BY <2>1, QuorumEvaluated
  <2> HIDE DEF ev
  <2>3. submitted' = submitted \cup {ev} /\ gov' = g /\ g >= gov
    BY <2>1 DEF SubmitEvent
  <2>4. EvaluatedByQuorum'
    BY <2>2, <2>3 DEF QuorumInv, EvaluatedByQuorum
  <2>5. ~ AtEvaluation'
    BY <1>2, <2>1, AskingRecord DEF AtEvaluation, Stages
  <2>6. gov' \in Nat /\ gov <= gov'
    BY <1>2, <2>3, CompleterAssumption DEF Versions
  <2>7. QED
    BY <1>6, <2>1, <2>4, <2>5, <2>6, QuorumStays
<1>8. CASE AskApproval(e, n)
  <2> DEFINE by == SameEvaluation(e, n, "approve")
             a == ApprovalRequest(e)
  <2>1. /\ EvaluationArrives(e, n, "approve") /\ EvaluationQuorum(e, n, "approve")
        /\ apprReqs' = Put(apprReqs, a, [eval |-> e, by |-> by])
        /\ CleanEvaluation(e) /\ stage' = Asking("approve", gov)
        /\ UNCHANGED <<gov, submitted>>
    BY <1>8 DEF AskApproval
  <2>2. PICK h \in 0 .. gov :
          /\ AskedUnder(h) /\ h \in e.gov .. gov
          /\ \A m \in by : Named(m, e.gov, h)
    BY <2>1, QuorumArrives
  <2>3. Cardinality(by) >= Quorum["evaluate"][h]
    BY <2>1, <2>2 DEF EvaluationQuorum, Successes, AskedUnder
  <2> HIDE DEF a, by
  <2>4. /\ DOMAIN apprReqs' = DOMAIN apprReqs \cup {a}
        /\ apprReqs'[a].eval = e /\ apprReqs'[a].by = by
        /\ \A b \in DOMAIN apprReqs : b # a => apprReqs'[b] = apprReqs[b]
    BY <2>1 DEF Put
  <2>5. ~ AtEvaluation'
    BY <1>2, <2>1, AskingRecord DEF AtEvaluation, Stages
  <2>6. \A b \in DOMAIN apprReqs' :
          \E i \in apprReqs'[b].eval.gov .. gov :
            /\ \A m \in apprReqs'[b].by : Named(m, apprReqs'[b].eval.gov, i)
            /\ Cardinality(apprReqs'[b].by) >= Quorum["evaluate"][i]
    BY <2>2, <2>3, <2>4 DEF QuorumInv
  <2>7. EvaluatedByQuorum' /\ pre' \subseteq pre /\ evals' \subseteq evals
    BY <1>6, <2>1 DEF QuorumInv, EvaluatedByQuorum
  <2>8. QED
    BY <2>1, <2>5, <2>6, <2>7 DEF QuorumInv
<1>9. QED
  BY <1>1, <1>4, <1>5, <1>7, <1>8

(* The answers of approvers: the event takes the evaluators along.         *)
LEMMA QuorumApprovals ==
  ASSUME IndInv, QuorumInv, NEW n \in Nodes, ApproverResponse(n)
  PROVE  QuorumInv'
<1>1. PICK a \in DOMAIN apprReqs, accept \in BOOLEAN :
        \/ KeepApproval(a, n, accept)
        \/ \E g \in Versions : ApprovedEvent(a, n, accept, g)
  BY DEF ApproverResponse
<1>2. gov \in Nat /\ gov \in Versions /\ apprReqs[a].eval.gov \in Nat
  BY VersionTypes DEF IndInv, Types, ControlOK
<1>3. CASE KeepApproval(a, n, accept)
  <2>1. /\ stage' = [stage EXCEPT !.signers = @ \ {n}] /\ stage # None
        /\ stage.stage = "approve" /\ stage \in StageRecords
        /\ UNCHANGED <<pre, evals, apprReqs, gov, submitted>>
    BY <1>3 DEF KeepApproval, ApprovalArrives, InStage, IndInv, Types, ControlOK
  <2>2. ~ AtEvaluation'
    BY <2>1, FewerSigners DEF AtEvaluation
  <2>3. EvaluatedByQuorum'
    BY <2>1 DEF QuorumInv, EvaluatedByQuorum
  <2>4. QED
    BY <1>2, <2>1, <2>2, <2>3, QuorumStays
<1>4. ASSUME NEW g \in Versions, ApprovedEvent(a, n, accept, g) PROVE QuorumInv'
  <2> DEFINE ev == EventOfApproval(a, n, accept, g)
  <2>1. /\ SubmitEvent(ev, g) /\ stage' = Validate(gov)
        /\ apprReqs' = Drop(apprReqs, a)
        /\ UNCHANGED <<pre, evals>>
    BY <1>4 DEF ApprovedEvent
  <2>2. submitted' = submitted \cup {ev} /\ gov' = g /\ g >= gov
    BY <2>1 DEF SubmitEvent
  <2>3. EnoughEvaluators(ev)
    BY <2>2, QuorumApproved
  <2> HIDE DEF ev
  <2>4. EvaluatedByQuorum'
    BY <2>2, <2>3 DEF QuorumInv, EvaluatedByQuorum
  <2>5. ~ AtEvaluation'
    BY <1>2, <2>1, ValidateRecord DEF AtEvaluation
  <2>6. \A b \in DOMAIN apprReqs' : b \in DOMAIN apprReqs /\ apprReqs'[b] = apprReqs[b]
    BY <2>1 DEF Drop
  <2>7. gov' \in Nat /\ gov <= gov'
    BY <1>2, <2>2, CompleterAssumption DEF Versions
  <2>8. QED
    BY <2>1, <2>4, <2>5, <2>6, <2>7, QuorumStays
<1>5. QED
  BY <1>1, <1>3, <1>4

(* The event of a transfer or an end of life has no evaluators.            *)
LEMMA QuorumNoEvaluation ==
  ASSUME IndInv, QuorumInv, NEW r \in Requests, Kind[r] # "fact", StartValidation(r),
         UNCHANGED <<evals, apprReqs, gov>>
  PROVE  QuorumInv'
<1>1. /\ submitted' = submitted \cup {EventNoEval(r)} /\ stage' = Validate(gov)
      /\ UNCHANGED pre
  BY DEF StartValidation
<1>2. gov \in Nat /\ gov \in Versions
  BY VersionTypes DEF IndInv, Types, ControlOK
<1>3. ~ AtEvaluation'
  BY <1>1, <1>2, ValidateRecord DEF AtEvaluation
<1>4. EventNoEval(r).req = r
  BY DEF EventNoEval
<1>5. EvaluatedByQuorum'
  BY <1>1, <1>4 DEF QuorumInv, EvaluatedByQuorum
<1>6. QED
  BY <1>1, <1>2, <1>3, <1>5, QuorumStays

(* A node that goes down forgets who was asked.                            *)
LEMMA QuorumDown ==
  ASSUME IndInv, QuorumInv, Down, gov' \in Versions, gov' >= gov, EvaluatedByQuorum'
  PROVE  QuorumInv'
<1>1. pre' = {} /\ evals' = {} /\ DOMAIN apprReqs' = {} /\ ~ AtEvaluation'
  BY DEF Down, NoMap, AtEvaluation
<1>2. gov \in Nat /\ gov' \in Nat /\ gov <= gov'
  BY VersionTypes, CompleterAssumption DEF Versions
<1>3. QED
  BY <1>1, <1>2, QuorumStays

(* Wherever it crashes, an event that was saved has enough evaluators.     *)
LEMMA QuorumCrashes ==
  ASSUME IndInv, QuorumInv, Crashes
  PROVE  QuorumInv'
<1>1. Down /\ gov \in Versions /\ gov >= gov
  BY CrashGoesDown, CompleterAssumption DEF CrashInside, IndInv, Types, ControlOK, Versions
<1>2. ASSUME submitted' = submitted, gov' \in Versions, gov' >= gov PROVE QuorumInv'
  <2>1. EvaluatedByQuorum'
    BY <1>2 DEF QuorumInv, EvaluatedByQuorum
  <2>2. QED
    BY <1>1, <1>2, <2>1, QuorumDown
<1>3. ASSUME NEW ev, submitted' = submitted \cup {ev}, gov' \in Versions, gov' >= gov,
             Kind[ev.req] = "fact" => EnoughEvaluators(ev)
      PROVE  QuorumInv'
  <2>1. EvaluatedByQuorum'
    BY <1>3 DEF QuorumInv, EvaluatedByQuorum
  <2>2. QED
    BY <1>1, <1>3, <2>1, QuorumDown
<1>4. CASE Crash
  BY <1>1, <1>2, <1>4 DEF Crash
<1>5. ASSUME NEW r \in Requests, CrashUnstored(r) PROVE QuorumInv'
  BY <1>1, <1>2, <1>5 DEF CrashUnstored
<1>6. ASSUME NEW r \in Requests, CrashUnrequested(r) PROVE QuorumInv'
  <2>1. Kind[EventNoEval(r).req] # "fact"
    BY <1>6 DEF CrashUnrequested, EventNoEval
  <2>2. submitted' = submitted \cup {EventNoEval(r)} /\ gov' = gov
    BY <1>6 DEF CrashUnrequested
  <2>3. QED
    BY <1>1, <1>3, <2>1, <2>2
<1>7. ASSUME NEW n \in Nodes, NEW g \in Versions, NEW e \in pre, NEW verdict,
             CrashEvaluated(e, n, verdict, g)
      PROVE  QuorumInv'
  <2> DEFINE ev == EventOfEvaluation(e, n, verdict)
  <2>1. Evaluated(e, n, verdict) /\ submitted' = submitted \cup {ev} /\ gov' = g /\ g >= gov
    BY <1>7 DEF CrashEvaluated, CrashSaved
  <2>2. EnoughEvaluators(ev)
    BY <2>1, QuorumEvaluated
  <2> HIDE DEF ev
  <2>3. QED
    BY <1>3, <2>1, <2>2
<1>8. ASSUME NEW n \in Nodes, NEW g \in Versions, NEW a \in DOMAIN apprReqs, NEW accept,
             CrashApproved(a, n, accept, g)
      PROVE  QuorumInv'
  <2> DEFINE ev == EventOfApproval(a, n, accept, g)
  <2>1. /\ gov' = g /\ g >= gov
        /\ submitted' = submitted \/ submitted' = submitted \cup {ev}
    BY <1>8 DEF CrashApproved, CrashSaved, CrashUnsaved
  <2>2. EnoughEvaluators(ev)
    BY <2>1, QuorumApproved
  <2> HIDE DEF ev
  <2>3. QED
    BY <1>2, <1>3, <2>1, <2>2
<1>9. QED
  BY <1>4, <1>5, <1>6, <1>7, <1>8 DEF Crashes

(* Every step keeps track of who evaluated.                                *)
LEMMA NextQuorum == IndInv /\ QuorumInv /\ [Next]_vars => QuorumInv'
<1> SUFFICES ASSUME IndInv, QuorumInv, [Next]_vars PROVE QuorumInv'
  OBVIOUS
<1>0. gov \in Nat /\ gov \in Versions
  BY VersionTypes DEF IndInv, Types, ControlOK
<1>1. ASSUME pre' \subseteq pre, evals' \subseteq evals, gov' = gov \/ gov' = gov + 1,
             AtEvaluation' => stage' = stage, apprReqs' = apprReqs \/ DOMAIN apprReqs' = {},
             submitted' = submitted
      PROVE  QuorumInv'
  <2>1. EvaluatedByQuorum'
    BY <1>1 DEF QuorumInv, EvaluatedByQuorum
  <2>2. gov' \in Nat /\ gov <= gov'
    BY <1>0, <1>1
  <2>3. QED
    BY <1>1, <2>1, <2>2, QuorumStays
<1>2. CASE UNCHANGED vars
  BY <1>1, <1>2 DEF vars, memory
<1>3. ASSUME NEW r \in Requests, NewEvent(r), UNCHANGED <<evals, apprReqs, gov>>
      PROVE  QuorumInv'
  BY <1>3, QuorumStarts, QuorumNoEvaluation DEF NewEvent
<1>4. ASSUME NEW r \in Requests, PreNewEvent(r) PROVE QuorumInv'
  BY <1>3, <1>4 DEF PreNewEvent
<1>5. ASSUME NEW n \in Nodes, ValidatorResponse(n) PROVE QuorumInv'
  <2>1. PICK ev \in DOMAIN validating : KeepValidation(ev, n) \/ HandToLedger(ev, n)
    BY <1>5 DEF ValidatorResponse
  <2>2. /\ stage # None /\ stage.stage = "validate" /\ stage \in StageRecords
        /\ UNCHANGED <<pre, evals, apprReqs, gov, submitted>>
        /\ stage' = stage \/ stage' = [stage EXCEPT !.signers = @ \ {n}]
    BY <2>1 DEF KeepValidation, HandToLedger, ValidationArrives, InStage, IndInv, Types,
       ControlOK
  <2>3. ~ AtEvaluation'
    BY <2>2, FewerSigners DEF AtEvaluation
  <2>4. QED
    BY <1>1, <2>2, <2>3
<1>6. CASE Complete
  <2>1. /\ UNCHANGED <<pre, evals, apprReqs, gov, submitted>>
        /\ stage' = stage \/ stage' = None
    BY <1>6 DEF Complete, EventValidated, StoreEvent, RefuseFact, StoreFact, StoreTransfer,
       StoreEOL, StoreSubject, LedgerAnswers, DelPrevalidatedEvent, FinishEvent
  <2>2. QED
    BY <1>1, <2>1 DEF AtEvaluation
<1>7. CASE GovernanceAdvances \/ UpdateNothing
  BY <1>1, <1>7 DEF GovernanceAdvances, UpdateNothing, memory
<1>8. CASE UpdateReevaluates
  <2>1. /\ request \in Requests /\ StartEvaluation(request)
        /\ UNCHANGED <<evals, apprReqs, gov>>
    BY <1>8 DEF UpdateReevaluates, IndInv, Types, DbOK
  <2>2. QED
    BY <2>1, QuorumStarts
<1>9. CASE UpdateRevalidates \/ UpdateDoesBoth
  <2>1. /\ stage' = Validate(notified') /\ UNCHANGED <<evals, apprReqs, gov, submitted>>
        /\ pre' = pre \/ pre' = pre \cup {EvaluationRequest(request)}
        /\ notified' \in Versions
    BY <1>0, <1>9, CompleterAssumption
    DEF UpdateRevalidates, UpdateDoesBoth, Revalidate, GovernanceUpdate, IndInv, Types,
        ControlOK, Versions
  <2>2. PICK v \in Versions : v = notified'
    BY <2>1
  <2>3. stage' = Validate(v)
    BY <2>1, <2>2
  <2>4. ~ AtEvaluation'
    BY <2>3, ValidateRecord DEF AtEvaluation
  <2>5. EvaluationRequest(request).gov = gov
    BY DEF EvaluationRequest
  <2>6. \A e \in pre' : e.gov <= gov'
    BY <1>0, <2>1, <2>5 DEF QuorumInv
  <2>7. EvaluatedByQuorum'
    BY <2>1 DEF QuorumInv, EvaluatedByQuorum
  <2>8. QED
    BY <2>1, <2>4, <2>6, <2>7 DEF QuorumInv
<1>10. CASE UpdateStops \/ Crashes
  <2>1. CASE UpdateStops
    BY <1>1, <2>1 DEF UpdateStops, Down, NoMap, AtEvaluation
  <2>2. QED
    BY <1>10, <2>1, QuorumCrashes
<1>11. CASE StartIdle \/ StartFails
  BY <1>1, <1>11 DEF StartIdle, StartFails, Start, memory
<1>12. CASE StartRequest
  <2>1. request \in Requests /\ NewEvent(request) /\ UNCHANGED <<evals, apprReqs, gov>>
    BY <1>12 DEF StartRequest, Start, IndInv, Types, DbOK
  <2>2. QED
    BY <1>3, <2>1
<1>13. CASE StartRevalidates
  <2>1. /\ prevalidated # None /\ submitted' = submitted \cup {prevalidated}
        /\ stage' = Validate(gov) /\ UNCHANGED <<pre, evals, apprReqs, gov>>
    BY <1>13 DEF StartRevalidates, Start
  <2>2. submitted' = submitted
    BY <2>1 DEF IndInv, Types, SubmittedOK
  <2>3. ~ AtEvaluation'
    BY <1>0, <2>1, ValidateRecord DEF AtEvaluation
  <2>4. QED
    BY <1>1, <2>1, <2>2, <2>3
<1>14. QED
  BY <1>2, <1>4, <1>5, <1>6, <1>7, <1>8, <1>9, <1>10, <1>11, <1>12, <1>13,
     QuorumEvaluations, QuorumApprovals
  DEF Next, NewGovernanceVersion, Restart

(* However the governance changes and whenever the node stops, a fact      *)
(* event carries the evaluators that some version of the governance asked  *)
(* for since its evaluation was requested, all of them named since then    *)
(* (event_completer.rs evaluator_signatures, new_governance_version,       *)
(* approver_signatures).                                                   *)
THEOREM EnoughEvaluated == Spec => []EvaluatedByQuorum
<1>1. QuorumInv => EvaluatedByQuorum
  BY DEF QuorumInv
<1>2. QED
  BY <1>1, InitInv, NextInv, InitQuorum, NextQuorum, PTL DEF Spec
===============================================================================
