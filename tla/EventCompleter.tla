---------------------------- MODULE EventCompleter ----------------------------
(***************************************************************************)
(* The EventCompleter of the node that owns a subject (core/src/event)     *)
(* together with the part of its Ledger that stores the node's own events. *)
(*                                                                         *)
(* A request is turned into an event in stages: a fact is evaluated,       *)
(* approved if its contract says so, and validated; a transfer or an end   *)
(* of life is validated at once.  The stage lives in memory; the database  *)
(* remembers the request until the event is built, and the built event     *)
(* until the ledger has stored it.  All handlers run in one task, so a     *)
(* handler is atomic except where it awaits the governance module or the   *)
(* ledger, which run beside it; the node may also crash between any two    *)
(* writes of a handler.                                                    *)
(*                                                                         *)
(* The other nodes answer what they were asked, late, repeatedly or never, *)
(* and evaluators and approvers answer as they like.  Of the validators it *)
(* is assumed what module Validation proves: they do not certify a second  *)
(* event for a sequence number.                                            *)
(*                                                                         *)
(* Abstractions.  All maps are keyed by the subject or by the hash of what *)
(* belongs to it, so one subject is modelled, which exists already and is  *)
(* not a governance.  A hash is the content it is the hash of.  The state  *)
(* of the subject is one value, which a patch overwrites.                  *)
(***************************************************************************)
EXTENDS Integers, FiniteSets

CONSTANTS
  Requests,    \* event requests, each with its own identifier
  Kind,        \* Kind[r]: "fact", "transfer" or "eol"
  Own,         \* the requests this node signed itself
  Effect,      \* Effect[r]: state that a successful evaluation of r leads to
  FirstState,  \* state of the subject at sequence number 0
  Verdicts,    \* Verdicts[r]: the evaluations evaluators may return for r
  MaxGov,      \* bound on the version the governance reaches
  Permitted,   \* Permitted[g]: facts of others that version g lets them invoke
  Nodes,       \* evaluators, approvers and validators
  Signers,     \* Signers[stage][g]: the nodes version g names for a stage
  Quorum,      \* Quorum[stage][g]: how many of them must agree
  MaxCrashes,  \* bound on the crashes of the node
  None

Versions == 0 .. MaxGov
Stages == {"evaluate", "approve", "validate"}
Successes == {"ok", "approve"}
States == {FirstState} \cup {Effect[r] : r \in Requests}

ASSUME CompleterAssumption ==
  /\ MaxGov \in Nat /\ MaxCrashes \in Nat
  /\ IsFiniteSet(Nodes)
  /\ Kind \in [Requests -> {"fact", "transfer", "eol"}]
  /\ Own \subseteq Requests
  /\ Verdicts \in [Requests -> SUBSET {"ok", "approve", "fail", "failapprove"}]
  /\ Permitted \in [Versions -> SUBSET Requests]
  /\ Signers \in [Stages -> [Versions -> SUBSET Nodes]]
  /\ Quorum \in [Stages -> [Versions -> Nat \ {0}]]
  /\ None \notin Requests

VARIABLES
  subject,       \* database: the subject's sn, state, keys and life
  events,        \* database: sequence number -> event, from 1 on
  request,       \* database: the request whose event is being built
  prevalidated,  \* database: the event being validated
  known,         \* database: the requests registered in the system
  stage,         \* subjects_completing_event
  pre,           \* event_pre_evaluations
  evals,         \* event_evaluations
  apprReqs,      \* approval_requests and approval_eval_signatures
  approvals,     \* event_approvations
  validating,    \* events_to_validate -> version of event_validation_events
  vals,          \* event_validations
  tracked,       \* is the subject listed in subjects_by_governance?
  handing,       \* how far validation_signatures is with a complete event
  currentSn,     \* current_sn of the subject in ledger_state
  gov,           \* version of the governance in the node's ledger
  notified,      \* version of the last governance update handled
  mode,          \* "up", "down", or "failed": init returns an error
  crashes,
  dropped,       \* history: requests that were registered and not stored
  unsaved,       \* history: numbers of events the node asked validators about
                 \*   and did not live to save
  submitted      \* history: all other events validators were asked about

db == <<subject, events, request, prevalidated, known>>
memory == <<stage, pre, evals, apprReqs, approvals, validating, vals, tracked,
            handing, currentSn>>
stops == <<crashes, dropped, unsaved>>
vars == <<db, memory, gov, notified, mode, stops, submitted>>

NoMap == [x \in {} |-> 0]

\* A map with one more or one replaced entry.
Put(f, x, y) == [z \in DOMAIN f \cup {x} |-> IF z = x THEN y ELSE f[z]]
Drop(f, x) == [z \in DOMAIN f \ {x} |-> f[z]]

(* EvaluationRequest and what an event says of its own evaluation.         *)
EvaluationRequest(r) ==
  [req |-> r, sn |-> subject.sn + 1, gov |-> gov, state |-> subject.state]

(* The handlers run one at a time, and only in a running node.             *)
Ready == mode = "up" /\ handing = None
InStage(s) == Ready /\ stage # None /\ stage.stage = s

(* An entry of subjects_completing_event under version g.                  *)
Asking(s, g) ==
  [stage |-> s, signers |-> Signers[s][g], q |-> Quorum[s][g],
   nq |-> Cardinality(Signers[s][g]) - Quorum[s][g] + 1]
Validate(g) == [Asking("validate", g) EXCEPT !.nq = 0]

(* hash_match_after_patch: an evaluation made in another state passes when *)
(* its patch still leads to the state it announces.                        *)
HashMatchAfterPatch(e, verdict) ==
  IF verdict \in Successes
  THEN e.state # Effect[e.req] \/ subject.state = Effect[e.req]
  ELSE subject.state = e.state

(* The node stops, and forgets all that is in memory.                      *)
Down ==
  /\ mode' = "down"
  /\ stage' = None /\ pre' = {} /\ evals' = {} /\ apprReqs' = NoMap
  /\ approvals' = {} /\ validating' = NoMap /\ vals' = {}
  /\ tracked' = FALSE /\ handing' = None /\ currentSn' = 0
  /\ UNCHANGED <<subject, events, notified>>

(* It crashes, here in the middle of a handler.                            *)
CrashInside ==
  /\ crashes < MaxCrashes
  /\ crashes' = crashes + 1
  /\ Down

-----------------------------------------------------------------------------
Init ==
  /\ subject = [sn |-> 0, state |-> FirstState, owned |-> TRUE, active |-> TRUE]
  /\ events = NoMap
  /\ request = None /\ prevalidated = None /\ known = {}
  /\ stage = None /\ pre = {} /\ evals = {} /\ apprReqs = NoMap
  /\ approvals = {} /\ validating = NoMap /\ vals = {}
  /\ tracked = TRUE /\ handing = None /\ currentSn = 0
  /\ gov = 0 /\ notified = 0 /\ mode = "up" /\ crashes = 0
  /\ dropped = {} /\ unsaved = {} /\ submitted = {}

(* The checks of new_event: the subject is alive and ours, and the signer  *)
(* of the request is entitled to it.                                       *)
MayStart(r) ==
  /\ subject.active
  /\ subject.owned
  /\ Kind[r] = "fact" => r \in Own \cup Permitted[gov]
  /\ Kind[r] = "eol" => r \in Own

(* new_event for a fact: remember what is evaluated, ask the evaluators,   *)
(* and register the request.                                               *)
StartEvaluation(r) ==
  /\ pre' = pre \cup {EvaluationRequest(r)}
  /\ stage' = Asking("evaluate", gov)
  /\ known' = known \cup {r}
  /\ request' = r
  /\ UNCHANGED <<prevalidated, validating, submitted>>

(* The event built from a request that is not evaluated.                   *)
EventNoEval(r) ==
  [req |-> r, sn |-> subject.sn + 1, prev |-> subject.sn, gov |-> gov,
   verdict |-> "ok", approved |-> TRUE, eval |-> None,
   evaluators |-> {}, approvers |-> {}]

(* new_event for a transfer or an end of life: the event goes straight to  *)
(* validation.  create_event_prevalidated_no_eval deletes the request,     *)
(* and the end of new_event stores it again.                               *)
StartValidation(r) ==
  /\ prevalidated' = EventNoEval(r)
  /\ validating' = Put(validating, EventNoEval(r), gov)
  /\ submitted' = submitted \cup {EventNoEval(r)}
  /\ stage' = Validate(gov)
  /\ known' = known \cup {r}
  /\ request' = r
  /\ UNCHANGED pre

NewEvent(r) ==
  IF Kind[r] = "fact" THEN StartEvaluation(r) ELSE StartValidation(r)

\* Mutant: a known request is accepted again.
PreNewEventKnown(r) ==
  /\ Ready
  /\ stage = None
  /\ MayStart(r)
  /\ NewEvent(r)
  /\ UNCHANGED <<subject, events, evals, apprReqs, approvals, vals, tracked,
                 handing, currentSn, gov, notified, mode, stops>>

(* pre_new_event: a request comes in from the node's user or from another  *)
(* node; one that is known, or that finds an event in progress, is refused. *)
Accepted(r) == Ready /\ r \notin known /\ stage = None /\ MayStart(r)

PreNewEvent(r) ==
  /\ Accepted(r)
  /\ NewEvent(r)
  /\ UNCHANGED <<subject, events, evals, apprReqs, approvals, vals, tracked,
                 handing, currentSn, gov, notified, mode, stops>>

(* new_event crashes between set_taple_request, which registers a fact,    *)
(* and set_request.                                                        *)
CrashUnstored(r) ==
  /\ Kind[r] = "fact" /\ Accepted(r)
  /\ known' = known \cup {r}
  /\ dropped' = dropped \cup {r}
  /\ CrashInside
  /\ UNCHANGED <<request, prevalidated, gov, unsaved, submitted>>

-----------------------------------------------------------------------------
(* The evaluations of e with the same content as the one that just came.   *)
SameEvaluation(e, n, verdict) ==
  {n} \cup {x.by : x \in {y \in evals : y.eval = e /\ y.verdict = verdict}}

\* Mutant: one evaluation short.
EvaluationQuorumOneShort(e, n, verdict) ==
  Cardinality(SameEvaluation(e, n, verdict)) + 1
    >= IF verdict \in Successes THEN stage.q ELSE stage.nq

(* The answer completes the quorum, or for a failure the negative quorum.  *)
EvaluationQuorum(e, n, verdict) ==
  Cardinality(SameEvaluation(e, n, verdict))
    >= IF verdict \in Successes THEN stage.q ELSE stage.nq

(* What evaluator_signatures requires of every answer.  The version of the *)
(* evaluation is not among it.                                             *)
EvaluationArrives(e, n, verdict) ==
  /\ InStage("evaluate")
  /\ e \in pre
  /\ n \in stage.signers
  /\ verdict \in Verdicts[e.req]
  /\ HashMatchAfterPatch(e, verdict)

(* evaluator_signatures short of a quorum: the answer is kept, its signer  *)
(* is not asked again.                                                     *)
KeepEvaluation(e, n, verdict) ==
  /\ EvaluationArrives(e, n, verdict)
  /\ ~ EvaluationQuorum(e, n, verdict)
  /\ evals' = evals \cup {[eval |-> e, by |-> n, verdict |-> verdict]}
  /\ stage' = [stage EXCEPT !.signers = @ \ {n}]
  /\ UNCHANGED <<db, pre, apprReqs, approvals, validating, vals, tracked,
                 handing, currentSn, gov, notified, mode, stops, submitted>>

(* evaluator_signatures reaches a quorum for a failure that asks for       *)
(* approval: an error, after the answer was kept.                          *)
RejectEvaluation(e, n) ==
  /\ EvaluationArrives(e, n, "failapprove")
  /\ EvaluationQuorum(e, n, "failapprove")
  /\ evals' = evals \cup {[eval |-> e, by |-> n, verdict |-> "failapprove"]}
  /\ UNCHANGED <<db, stage, pre, apprReqs, approvals, validating, vals, tracked,
                 handing, currentSn, gov, notified, mode, stops, submitted>>

\* Mutant: the evaluations are not removed.
KeepEvaluations(e) ==
  /\ pre' = pre \ {e}
  /\ UNCHANGED evals

(* "Clean HashMaps" of evaluator_signatures.                               *)
CleanEvaluation(e) ==
  /\ evals' = {x \in evals : x.eval # e}
  /\ pre' = pre \ {e}

(* The approval request that evaluator_signatures makes of an evaluation.  *)
ApprovalRequest(e) ==
  [req |-> e.req, sn |-> e.sn, gov |-> gov, prev |-> subject.sn,
   patch |-> e.state # Effect[e.req]]

(* evaluator_signatures reaches a quorum and the contract asks for         *)
(* approval.                                                               *)
AskApproval(e, n) ==
  /\ EvaluationArrives(e, n, "approve")
  /\ EvaluationQuorum(e, n, "approve")
  /\ apprReqs' = Put(apprReqs, ApprovalRequest(e),
                     [eval |-> e, by |-> SameEvaluation(e, n, "approve")])
  /\ CleanEvaluation(e)
  /\ stage' = Asking("approve", gov)
  /\ UNCHANGED <<db, approvals, validating, vals, tracked, handing, currentSn,
                 gov, notified, mode, stops, submitted>>

\* Mutant: the event is not saved, the request still is.
SubmitUnsaved(ev, g) ==
  /\ g >= gov
  /\ gov' = g
  /\ validating' = Put(validating, ev, g)
  /\ submitted' = submitted \cup {ev}
  /\ UNCHANGED <<prevalidated, request>>

\* Mutant: the request is deleted, the event not saved.
SubmitLost(ev, g) ==
  /\ g >= gov
  /\ gov' = g
  /\ request' = None
  /\ validating' = Put(validating, ev, g)
  /\ submitted' = submitted \cup {ev}
  /\ UNCHANGED prevalidated

(* An event has been built: set_prevalidated_event, del_request, and the   *)
(* validators are asked.  The version of the proof is read after the       *)
(* version that names the validators; in between the ledger may store      *)
(* further events of the governance, up to version g.                      *)
SubmitEvent(ev, g) ==
  /\ g >= gov
  /\ gov' = g
  /\ prevalidated' = ev
  /\ request' = None
  /\ validating' = Put(validating, ev, g)
  /\ submitted' = submitted \cup {ev}

(* The node crashes between set_prevalidated_event and del_request; the    *)
(* validators are asked now or at the next start.                          *)
CrashSaved(ev, g) ==
  /\ g >= gov
  /\ gov' = g
  /\ prevalidated' = ev
  /\ submitted' = submitted \cup {ev}
  /\ CrashInside
  /\ UNCHANGED <<request, known, dropped, unsaved>>

(* evaluator_signatures reaches a quorum and no approval is needed.        *)
Evaluated(e, n, verdict) ==
  /\ verdict \in {"ok", "fail"}
  /\ EvaluationArrives(e, n, verdict)
  /\ EvaluationQuorum(e, n, verdict)

EventOfEvaluation(e, n, verdict) ==
  [req |-> e.req, sn |-> e.sn, prev |-> subject.sn, gov |-> gov,
   verdict |-> verdict, approved |-> TRUE, eval |-> e,
   evaluators |-> SameEvaluation(e, n, verdict), approvers |-> {}]

CrashEvaluated(e, n, verdict, g) ==
  /\ Evaluated(e, n, verdict)
  /\ CrashSaved(EventOfEvaluation(e, n, verdict), g)

EvaluatedEvent(e, n, verdict, g) ==
  /\ Evaluated(e, n, verdict)
  /\ SubmitEvent(EventOfEvaluation(e, n, verdict), g)
  /\ CleanEvaluation(e)
  /\ stage' = Asking("validate", gov)
  /\ UNCHANGED <<subject, events, known, apprReqs, approvals, vals, tracked,
                 handing, currentSn, notified, mode, stops>>

-----------------------------------------------------------------------------
(* The approvals of a with n's answer, which replaces an earlier one.      *)
WithApproval(a, n, accept) ==
  {x \in approvals : ~ (x.appr = a /\ x.by = n)}
    \cup {[appr |-> a, by |-> n, accept |-> accept]}

SameApproval(a, n, accept) ==
  {x.by : x \in {y \in WithApproval(a, n, accept) :
                   y.appr = a /\ y.accept = accept}}

\* Mutant: approvers that are against the event do not count.
ApprovalQuorumFor(a, n, accept) ==
  accept /\ Cardinality(SameApproval(a, n, accept)) >= stage.q

ApprovalQuorum(a, n, accept) ==
  Cardinality(SameApproval(a, n, accept))
    >= IF accept THEN stage.q ELSE stage.nq

ApprovalArrives(a, n) ==
  /\ InStage("approve")
  /\ a \in DOMAIN apprReqs
  /\ n \in stage.signers

(* approver_signatures short of a quorum.                                  *)
KeepApproval(a, n, accept) ==
  /\ ApprovalArrives(a, n)
  /\ ~ ApprovalQuorum(a, n, accept)
  /\ approvals' = WithApproval(a, n, accept)
  /\ stage' = [stage EXCEPT !.signers = @ \ {n}]
  /\ UNCHANGED <<db, pre, evals, apprReqs, validating, vals, tracked, handing,
                 currentSn, gov, notified, mode, stops, submitted>>

(* approver_signatures reaches a quorum, for the event or against it.      *)
Approved(a, n, accept) == ApprovalArrives(a, n) /\ ApprovalQuorum(a, n, accept)

EventOfApproval(a, n, accept, g) ==
  [req |-> a.req, sn |-> a.sn, prev |-> a.prev, gov |-> g,
   verdict |-> "approve", approved |-> accept,
   eval |-> apprReqs[a].eval, evaluators |-> apprReqs[a].by,
   approvers |-> SameApproval(a, n, accept)]

(* Unlike evaluator_signatures it asks the validators first and saves the  *)
(* event then: the node crashes before that, and will start the request    *)
(* again, ...                                                              *)
CrashUnsaved(ev, g) ==
  /\ g >= gov
  /\ gov' = g
  /\ unsaved' = unsaved \cup {ev.sn}
  /\ CrashInside
  /\ UNCHANGED <<request, prevalidated, known, dropped, submitted>>

(* ... or before the request is deleted.                                   *)
CrashApproved(a, n, accept, g) ==
  /\ Approved(a, n, accept)
  /\ \/ CrashUnsaved(EventOfApproval(a, n, accept, g), g)
     \/ CrashSaved(EventOfApproval(a, n, accept, g), g)

ApprovedEvent(a, n, accept, g) ==
  /\ Approved(a, n, accept)
  /\ SubmitEvent(EventOfApproval(a, n, accept, g), g)
  /\ apprReqs' = Drop(apprReqs, a)
  /\ approvals' = {x \in approvals : x.appr # a}
  /\ stage' = Validate(gov)
  /\ UNCHANGED <<subject, events, known, pre, evals, vals, tracked, handing,
                 currentSn, notified, mode, stops>>

-----------------------------------------------------------------------------
(* External: validators sign no event that is not the next one or the one  *)
(* already certified (module Validation, NoFork and CertifiedChain).       *)
ValidatorsAccept(ev) ==
  IF ev.sn \in DOMAIN events THEN events[ev.sn] = ev ELSE ev.prev + 1 = ev.sn

(* What validation_signatures requires: our version, the right stage, a    *)
(* validator still asked, and a signature of the proof we wait for.        *)
ValidationArrives(ev, n) ==
  /\ InStage("validate")
  /\ ev \in DOMAIN validating
  /\ validating[ev] = gov
  /\ n \in stage.signers
  /\ ValidatorsAccept(ev)

Validated(ev, n) == {n} \cup {x.by : x \in {y \in vals : y.event = ev}}

(* validation_signatures short of a quorum.                                *)
KeepValidation(ev, n) ==
  /\ ValidationArrives(ev, n)
  /\ Cardinality(Validated(ev, n)) < stage.q
  /\ vals' = vals \cup {[event |-> ev, by |-> n]}
  /\ stage' = [stage EXCEPT !.signers = @ \ {n}]
  /\ UNCHANGED <<db, pre, evals, apprReqs, approvals, validating, tracked,
                 handing, currentSn, gov, notified, mode, stops, submitted>>

(* validation_signatures reaches a quorum: it asks the ledger to store the *)
(* event and awaits the answer.                                            *)
HandToLedger(ev, n) ==
  /\ ValidationArrives(ev, n)
  /\ Cardinality(Validated(ev, n)) >= stage.q
  /\ handing' = [phase |-> "ledger", event |-> ev]
  /\ vals' = vals \cup {[event |-> ev, by |-> n]}
  /\ UNCHANGED <<db, stage, pre, evals, apprReqs, approvals, validating, tracked,
                 currentSn, gov, notified, mode, stops, submitted>>

InPhase(p) == mode = "up" /\ handing # None /\ handing.phase = p

(* The state after an approved fact: its patch is empty if the evaluation  *)
(* failed or found nothing to change.                                      *)
Patched(ev) ==
  IF ev.approved /\ ev.verdict \in Successes /\ ev.eval.state # Effect[ev.req]
  THEN Effect[ev.req] ELSE subject.state

\* Mutant: a fact is stored whatever the sequence number of the subject.
StoreAnySn(ev) == FALSE

(* A fact must be the next event of the stored subject.                    *)
WrongSnInSubject(ev) == Kind[ev.req] = "fact" /\ subject.sn # ev.sn - 1

\* Mutant: the subject is stored before its event.
StoreSubjectFirst ==
  /\ InPhase("ledger")
  /\ ~ WrongSnInSubject(handing.event)
  /\ subject' = [subject EXCEPT !.sn = handing.event.sn]
  /\ handing' = [handing EXCEPT !.phase = "event"]
  /\ UNCHANGED <<events, request, prevalidated, known, stage, pre, evals, apprReqs,
                 approvals, validating, vals, tracked, currentSn, gov, notified,
                 mode, stops, submitted>>

(* event_validated stores the event and registers its request as finished, *)
(* and awaits the notification of it ...                                   *)
StoreEvent ==
  /\ InPhase("ledger")
  /\ ~ WrongSnInSubject(handing.event)
  /\ events' = Put(events, handing.event.sn, handing.event)
  /\ known' = known \cup {handing.event.req}
  /\ handing' = [handing EXCEPT !.phase = "event"]
  /\ UNCHANGED <<subject, request, prevalidated, stage, pre, evals, apprReqs,
                 approvals, validating, vals, tracked, currentSn, gov, notified,
                 mode, stops, submitted>>

(* event_validated answers, with an error or without; validation_signatures *)
(* goes on in either case.                                                  *)
LedgerAnswers ==
  /\ handing' = [handing EXCEPT !.phase = "stored"]
  /\ UNCHANGED <<events, request, prevalidated, known, stage, pre, evals, apprReqs,
                 approvals, validating, vals, tracked, gov, notified, mode,
                 stops, submitted>>

(* The event is stored and of the given kind.                              *)
Sourcing(kind) == InPhase("event") /\ Kind[handing.event.req] = kind

(* ... then the subject as the event leaves it, and counts the event in    *)
(* ledger_state.                                                           *)
StoreSubject(sourced) ==
  /\ subject' = sourced
  /\ currentSn' = currentSn + 1
  /\ LedgerAnswers

StoreFact ==
  /\ Sourcing("fact")
  /\ StoreSubject([subject EXCEPT !.sn = handing.event.sn,
                                  !.state = Patched(handing.event)])

RefuseFact ==
  /\ InPhase("ledger")
  /\ WrongSnInSubject(handing.event)
  /\ LedgerAnswers
  /\ UNCHANGED <<subject, currentSn>>

(* The signer of a transfer is the new owner; its keys are kept only when  *)
(* that is this node.                                                      *)
StoreTransfer ==
  /\ Sourcing("transfer")
  /\ StoreSubject([subject EXCEPT !.sn = handing.event.sn,
                                  !.owned = handing.event.req \in Own])

StoreEOL ==
  /\ Sourcing("eol")
  /\ StoreSubject([subject EXCEPT !.sn = handing.event.sn, !.active = FALSE])

(* Back in validation_signatures: del_prevalidated_event ...               *)
DelPrevalidatedEvent ==
  /\ InPhase("stored")
  /\ prevalidated' = None
  /\ handing' = [handing EXCEPT !.phase = "deleted"]
  /\ UNCHANGED <<subject, events, request, known, stage, pre, evals, apprReqs,
                 approvals, validating, vals, tracked, currentSn, gov, notified,
                 mode, stops, submitted>>

\* Mutant: the request stays in the database.
FinishKeepsRequest ==
  /\ InPhase("deleted")
  /\ validating' = Drop(validating, handing.event)
  /\ vals' = {x \in vals : x.event # handing.event}
  /\ stage' = None
  /\ handing' = None
  /\ UNCHANGED <<db, pre, evals, apprReqs, approvals, tracked, currentSn, gov,
                 notified, mode, stops, submitted>>

(* ... then del_request, and the event is forgotten.                       *)
FinishEvent ==
  /\ InPhase("deleted")
  /\ request' = None
  /\ validating' = Drop(validating, handing.event)
  /\ vals' = {x \in vals : x.event # handing.event}
  /\ stage' = None
  /\ handing' = None
  /\ UNCHANGED <<subject, events, prevalidated, known, pre, evals, apprReqs,
                 approvals, tracked, currentSn, gov, notified, mode, stops,
                 submitted>>

-----------------------------------------------------------------------------
(* The ledger stores the next event of the governance; a notification is   *)
(* on its way to the EventCompleter.                                       *)
GovernanceAdvances ==
  /\ mode = "up"
  /\ gov < MaxGov
  /\ gov' = gov + 1
  /\ UNCHANGED <<db, memory, notified, mode, stops, submitted>>

GovernanceUpdate == Ready /\ notified < gov /\ notified' = notified + 1

(* new_governance_version finds nothing to do for the subject.             *)
UpdateNothing ==
  /\ GovernanceUpdate
  /\ tracked => request = None /\ prevalidated = None
  /\ UNCHANGED <<db, memory, gov, mode, stops, submitted>>

(* new_governance_version finds a fact request: new_event again, under the *)
(* version in force.                                                       *)
UpdateReevaluates ==
  /\ GovernanceUpdate
  /\ tracked /\ request # None /\ prevalidated = None
  /\ Kind[request] = "fact" /\ MayStart(request)
  /\ StartEvaluation(request)
  /\ UNCHANGED <<subject, events, evals, apprReqs, approvals, vals, tracked,
                 handing, currentSn, gov, mode, stops>>

(* new_governance_version finds an event: a new proof of the new version,  *)
(* and all its validators are asked.                                       *)
Revalidate ==
  /\ validating' = Put(validating, prevalidated, notified')
  /\ stage' = Validate(notified')
  /\ UNCHANGED <<subject, events, request, prevalidated, evals, apprReqs, approvals,
                 vals, tracked, handing, currentSn, gov, mode, stops, submitted>>

UpdateRevalidates ==
  /\ GovernanceUpdate
  /\ tracked /\ request = None /\ prevalidated # None
  /\ subject.owned
  /\ Revalidate
  /\ UNCHANGED <<known, pre>>

(* It finds both, after a crash between the two writes: new_event first,   *)
(* whose stage the new proof then replaces.                                *)
UpdateDoesBoth ==
  /\ GovernanceUpdate
  /\ tracked /\ request # None /\ prevalidated # None
  /\ Kind[request] = "fact" /\ MayStart(request)
  /\ pre' = pre \cup {EvaluationRequest(request)}
  /\ known' = known \cup {request}
  /\ Revalidate

(* new_governance_version returns an error: the request is not a fact, or  *)
(* new_event refuses it now, or the event cannot be signed.  The loop of   *)
(* EventManager::run ends and the node stops.                              *)
UpdateStops ==
  /\ Ready /\ notified < gov
  /\ tracked
  /\ IF request # None
     THEN Kind[request] # "fact" \/ ~ MayStart(request)
     ELSE prevalidated # None /\ ~ subject.owned
  /\ Down
  /\ UNCHANGED <<request, prevalidated, known, gov, stops, submitted>>

(* A crash between two handlers, or between the writes that end an event.  *)
Crash ==
  /\ mode = "up"
  /\ CrashInside
  /\ UNCHANGED <<request, prevalidated, known, gov, dropped, unsaved, submitted>>

(* The last stored event has the given number.  The genesis, number 0, is  *)
(* always stored, and the node's own events leave no gap.                  *)
IsLastEvent(sn) ==
  sn \in DOMAIN events \cup {0} /\ \A k \in DOMAIN events : k <= sn

(* The node starts.  Ledger::init finds the subject at its last event,     *)
(* whose number is the current one; EventCompleter::init lists the subject *)
(* under its governance ...                                                *)
Start ==
  /\ mode = "down"
  /\ IsLastEvent(subject.sn)
  /\ mode' = "up"
  /\ tracked' = TRUE
  /\ currentSn' = subject.sn
  /\ notified' = gov
  /\ UNCHANGED <<subject, events, evals, apprReqs, approvals, vals, handing,
                 gov, stops>>

(* ... and finds no unfinished work, *)
StartIdle ==
  /\ Start
  /\ prevalidated = None /\ request = None
  /\ UNCHANGED <<request, prevalidated, known, stage, pre, validating, submitted>>

(* ... or an event that was being validated, whose validators it asks      *)
(* under the version in force,                                             *)
StartRevalidates ==
  /\ Start
  /\ prevalidated # None /\ subject.owned
  /\ validating' = Put(validating, prevalidated, gov)
  /\ submitted' = submitted \cup {prevalidated}
  /\ stage' = Validate(gov)
  /\ UNCHANGED <<request, prevalidated, known, pre>>

(* ... or a request, which it starts from the beginning.                   *)
StartRequest ==
  /\ Start
  /\ prevalidated = None /\ request # None
  /\ MayStart(request)
  /\ NewEvent(request)

(* new_event for a transfer or an end of life, called by pre_new_event or  *)
(* by init, crashes after the event is saved: before the request, if any,  *)
(* is deleted, before it is registered, or before it is stored again.      *)
CrashUnrequested(r) ==
  /\ Kind[r] # "fact" /\ MayStart(r)
  /\ \/ Accepted(r)
     \/ mode = "down" /\ IsLastEvent(subject.sn) /\ prevalidated = None /\ request = r
  /\ prevalidated' = EventNoEval(r)
  /\ request' \in {request, None}
  /\ known' \in {known, known \cup {r}}
  /\ submitted' = submitted \cup {EventNoEval(r)}
  /\ CrashInside
  /\ UNCHANGED <<gov, dropped, unsaved>>

(* init returns an error: the ledger's because the last event is not the   *)
(* subject's (WrongSnInSubject), the completer's because the event cannot  *)
(* be signed without the keys of the subject or new_event refuses the      *)
(* request.  The node stops; it finds the same database at every further   *)
(* start.                                                                  *)
StartFails ==
  /\ mode = "down"
  /\ \/ ~ IsLastEvent(subject.sn)
     \/ prevalidated # None /\ ~ subject.owned
     \/ prevalidated = None /\ request # None /\ ~ MayStart(request)
  /\ mode' = "failed"
  /\ UNCHANGED <<db, memory, gov, notified, stops, submitted>>

-----------------------------------------------------------------------------
EvaluatorResponse(n) ==
  \E e \in pre :
    \/ \E verdict \in Verdicts[e.req] :
         \/ KeepEvaluation(e, n, verdict)
         \/ \E g \in Versions : EvaluatedEvent(e, n, verdict, g)
    \/ RejectEvaluation(e, n)
    \/ AskApproval(e, n)

ApproverResponse(n) ==
  \E a \in DOMAIN apprReqs, accept \in BOOLEAN :
    \/ KeepApproval(a, n, accept)
    \/ \E g \in Versions : ApprovedEvent(a, n, accept, g)

ValidatorResponse(n) ==
  \E ev \in DOMAIN validating : KeepValidation(ev, n) \/ HandToLedger(ev, n)

EventValidated ==
  StoreEvent \/ RefuseFact \/ StoreFact \/ StoreTransfer \/ StoreEOL

Complete == EventValidated \/ DelPrevalidatedEvent \/ FinishEvent

NewGovernanceVersion ==
  \/ UpdateNothing \/ UpdateReevaluates \/ UpdateRevalidates \/ UpdateDoesBoth
  \/ UpdateStops

Crashes ==
  \/ Crash
  \/ \E r \in Requests : CrashUnstored(r) \/ CrashUnrequested(r)
  \/ \E n \in Nodes, g \in Versions :
       \/ \E e \in pre, verdict \in {"ok", "fail"} : CrashEvaluated(e, n, verdict, g)
       \/ \E a \in DOMAIN apprReqs, accept \in BOOLEAN : CrashApproved(a, n, accept, g)

Restart == StartIdle \/ StartRevalidates \/ StartRequest \/ StartFails

Next ==
  \/ \E r \in Requests : PreNewEvent(r)
  \/ \E n \in Nodes :
       EvaluatorResponse(n) \/ ApproverResponse(n) \/ ValidatorResponse(n)
  \/ Complete
  \/ GovernanceAdvances
  \/ NewGovernanceVersion
  \/ Crashes
  \/ Restart

Spec == Init /\ [][Next]_vars

(* The message task resends a request until it is answered, so every node  *)
(* that is still asked answers in the end; handlers finish; a node that    *)
(* stopped is started again.                                               *)
Fairness ==
  /\ \A n \in Nodes :
       /\ WF_vars(EvaluatorResponse(n))
       /\ WF_vars(ApproverResponse(n))
       /\ WF_vars(ValidatorResponse(n))
  /\ WF_vars(Complete)
  /\ WF_vars(NewGovernanceVersion)
  /\ WF_vars(Restart)

LiveSpec == Spec /\ Fairness

-----------------------------------------------------------------------------
Evaluations == [req : Requests, sn : Nat, gov : Versions, state : States]
Events ==
  [req : Requests, sn : Nat, prev : Nat, gov : Versions,
   verdict : {"ok", "approve", "fail"}, approved : BOOLEAN,
   eval : Evaluations \cup {None},
   evaluators : SUBSET Nodes, approvers : SUBSET Nodes]
StageRecords == [stage : Stages, signers : SUBSET Nodes, q : Nat, nq : Int]
Handings == [phase : {"ledger", "event", "stored", "deleted"}, event : Events]

ASSUME NoneAssumption ==
  /\ None \notin Evaluations /\ None \notin Events
  /\ None \notin StageRecords /\ None \notin Handings

IsMap(f, S, T) == DOMAIN f \subseteq S /\ \A x \in DOMAIN f : f[x] \in T

(* Types; an event that was not evaluated is of a kind that never is.      *)
TypeOK ==
  /\ subject \in [sn : Nat, state : States, owned : BOOLEAN, active : BOOLEAN]
  /\ IsMap(events, Nat, Events)
  /\ request \in Requests \cup {None}
  /\ prevalidated \in Events \cup {None}
  /\ known \subseteq Requests
  /\ stage \in StageRecords \cup {None}
  /\ pre \subseteq Evaluations
  /\ \A x \in evals : x.eval \in pre /\ x.by \in Nodes
  /\ \A a \in DOMAIN apprReqs : apprReqs[a].eval \in Evaluations
  /\ \A x \in approvals : x.appr \in DOMAIN apprReqs /\ x.by \in Nodes
  /\ IsMap(validating, Events, Versions)
  /\ \A x \in vals : x.event \in DOMAIN validating /\ x.by \in Nodes
  /\ \A ev \in submitted : ev \in Events /\ (ev.eval = None <=> Kind[ev.req] # "fact")
  /\ handing \in Handings \cup {None}
  /\ currentSn \in Nat
  /\ gov \in Versions /\ notified \in 0 .. gov
  /\ mode \in {"up", "down", "failed"} /\ tracked \in BOOLEAN

(* The owner never asks the validators about two different events of one   *)
(* sequence number, whatever crashes and late answers do to it: validators *)
(* that registered one refuse the other, and the subject is blocked.  Only *)
(* an event that a crash in approver_signatures kept from being saved is   *)
(* not counted, since it may be built anew (event_completer.rs             *)
(* evaluator_signatures, approver_signatures, init).                       *)
OneSubmissionPerSn ==
  \A x, y \in submitted : x.sn = y.sn => x = y

(* The signers of the evaluation in an event are enough of them for one    *)
(* version h of the governance, and each was an evaluator of some version  *)
(* from the one the evaluation was asked under up to h.                    *)
EnoughEvaluators(ev) ==
  \E h \in ev.eval.gov .. ev.gov :
    /\ \A n \in ev.evaluators :
         \E k \in ev.eval.gov .. h : n \in Signers["evaluate"][k]
    /\ Cardinality(ev.evaluators)
         >= IF ev.verdict = "fail" THEN Asking("evaluate", h).nq ELSE Quorum["evaluate"][h]

(* A fact event carries enough evaluators, of the versions in force since  *)
(* it was asked for: signatures kept over a governance update do not make  *)
(* up a quorum that no version ever asked for, and a failure needs the     *)
(* negative quorum (event_completer.rs evaluator_signatures,               *)
(* new_governance_version, approver_signatures).                           *)
EvaluatedByQuorum ==
  \A ev \in submitted : Kind[ev.req] = "fact" => EnoughEvaluators(ev)

Applied(r) == \E s \in DOMAIN events : events[s].req = r

(* A request that was registered, and so is refused when it is sent again, *)
(* is not forgotten: until the ledger holds its event, the database holds  *)
(* the request or the event being validated.  Only a crash in new_event,   *)
(* between registering a fact and storing it, loses one                    *)
(* (event_completer.rs new_event, evaluator_signatures,                    *)
(* approver_signatures, validation_signatures).                            *)
AcknowledgedNotLost ==
  \A r \in known \ dropped :
    \/ request = r
    \/ prevalidated # None /\ prevalidated.req = r
    \/ Applied(r)

(* The owner keeps the promise of SubjectLog: one request at a time, one   *)
(* event for each although the work on it is started again after a crash,  *)
(* and a list of events that only grows (event_completer.rs pre_new_event, *)
(* init; ledger.rs event_validated).                                       *)
Log == INSTANCE SubjectLog WITH registered <- known \ dropped,
                                log <- [n \in DOMAIN events |-> events[n].req]
ImplementsLog == Log!Spec

(* The ledger's cached sequence number is that of the stored subject, also *)
(* when an event is stored a second time after a crash (ledger.rs          *)
(* event_validated, init).                                                 *)
CurrentSnIsCache == mode = "up" => currentSn = subject.sn

(* Between two handlers of a running node the stage agrees with the        *)
(* database from which a restart or a governance update resumes it: a      *)
(* request and no event before validation, the event during validation.    *)
(* Before validation the subject is ours and alive, so that the keys that  *)
(* the answers of evaluators and approvers are handled with are there      *)
(* (event_completer.rs init, new_governance_version, evaluator_signatures: *)
(* "Llegados a aqui tenemos que ser owner").                               *)
StageIsPersisted ==
  Ready =>
    /\ stage = None => prevalidated = None /\ request = None
    /\ stage # None /\ stage.stage # "validate" =>
         /\ prevalidated = None
         /\ request # None /\ Kind[request] = "fact"
         /\ subject.owned /\ subject.active
    /\ stage # None /\ stage.stage = "validate" =>
         prevalidated # None /\ prevalidated \in DOMAIN validating

(* A node that can never be started again has stopped between the ledger   *)
(* storing an event and the completer forgetting it (before the subject    *)
(* was stored too, or after a transfer to another node or an end of life), *)
(* or with the request of a fact whose signer has lost the permission      *)
(* since.  Nothing else that a crash leaves in the database makes an init  *)
(* fail (ledger.rs init, event_validated; event_completer.rs init,         *)
(* validation_signatures; event/manager.rs run).                           *)
FailsOnlyAfterStoring ==
  mode = "failed" =>
    IF prevalidated # None THEN Applied(prevalidated.req)
    ELSE Applied(request) \/ request \notin Own \cup Permitted[gov]

(* The evaluators have answered without a quorum for any outcome, or with  *)
(* one for a failure that asks for approval: the completer has nobody left *)
(* to ask, or refuses what they agree on.                                  *)
Undecided ==
  /\ InStage("evaluate")
  /\ \/ stage.signers = {}
     \/ \E e \in pre :
          Cardinality({x \in evals : x.eval = e /\ x.verdict = "failapprove"}) >= stage.nq

(* Every registered request becomes an event of the ledger in the end,     *)
(* although the node crashes on the way and approvers disagree, unless the *)
(* evaluators leave it undecided, or a crash let the validators see an     *)
(* event that was not saved and may make them refuse the next one: no      *)
(* other stage is left without a quorum it can reach (event_completer.rs   *)
(* evaluator_signatures, approver_signatures, validation_signatures,       *)
(* init).                                                                  *)
EventuallyApplied ==
  <>[](\A r \in known \ dropped : Applied(r) \/ Undecided \/ unsaved # {})
=============================================================================
