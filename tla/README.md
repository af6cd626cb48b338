# TLA+ models of TAPLE core

TAPLE is a ledger of *subjects*. Each subject has one owner, a chain of events
linked by hashes, and a governance (itself a subject) whose current version
names who evaluates, approves, validates and witnesses its events. Every node
runs the same components as tasks that exchange messages over channels; nodes
talk to each other over an unreliable network. The models here cover what
happens to an event from the request to the ledgers of other nodes. Paths below
are relative to `src/core/src`.

## 1. Inventory

### Components

**EventCompleter** (`event/`, one task). In memory: for each subject the stage
of the event being built (`subjects_completing_event`: evaluate, approve or
validate, the signers still asked, the quorums), the pre-evaluations, approval
requests and events that answers refer to, the answers so far, and an index of
subjects by governance. In the database: the request until its event is built,
the prevalidated event until the ledger has it, the identifiers of known
requests. Operations: `pre_new_event`/`new_event`, `evaluator_signatures`,
`approver_signatures`, `validation_signatures`, `new_governance_version`,
`higher_governance_expected`, `init`. Correct if: an event carries enough
evaluators of the versions since it was asked for; at most one event of each sequence number is shown to
validators; an acknowledged request is neither lost nor applied twice; it ends
in the ledger.

**Validation** (`validation/`, one task). In the database: one register per
subject, the last proof accepted. Operation: `validation_event`. Correct if: no
validator signs two events of one sequence number; certified events form one
chain; a validator that is asked again answers again.

**Ledger** (`ledger/`, one task). In memory: `ledger_state` (`current_sn` and
`head`, the sequence number of an event beyond a gap). In the database:
subjects, events, validation signatures, the proof of the head, the keys made
for incoming transfers. Operations: `genesis`, `event_validated` (own events),
`external_event`, `external_intermediate_event` (events of others), `get_event`,
`get_lce`, `get_next_gov`, `init`. Correct if: an up-to-date node holds exactly
the certified events and the subject they make; stored history is not
rewritten; a gap is closed in the end.

**Distribution** (`distribution/`, one task). In the database: the witness
signatures of the last event of each subject. Operations: `start_distribution`,
`provide_signatures`, `signatures_received`, `governance_updated`, `init`.
Correct if: every witness obtains the event, and asking stops when all have.

**Approval** (`approval/`). In the database: approval requests with a state
(pending, responded, obsolete), indexed by subject and by governance.
Operations: `process_approval_request`, `generate_vote`,
`new_governance_version`; the ledger makes requests obsolete. Correct if: a vote
stands once it is signed, what the governance has left behind does not stay
pending, an abandoned request does not block the next, and a lost answer is
given again.

**Evaluator** (`evaluator/`, two tasks). In the database: one compiled contract
per schema with its source and version. The compiler reads the announced
governance versions (`update_contracts`), the runner executes facts
(`execute_contract`). Correct if: a fact runs with the contract and the schema of
the version that the evaluation names, and contracts follow the governance.

**Governance** (`governance/`). Answers for signers, quorums, schemas, contracts
and permissions per version, rebuilding earlier versions from events, and
broadcasts updates. Correct if: a version never changes, and its quorums can be
met and intersect.

**Message task manager** (`message/`). Resends a message until its task is
replaced or cancelled. **Network** (`network/`): lookups of addresses, dialling,
connections, and a queue of outgoing messages for each of them. Both are correct
if: a message that is sent again and again arrives. **Protocol message manager** (`protocol/`): hands a message
to the channel of its component. **Authorized subjects**
(`authorized_subjecs/`): preauthorised subjects, asked for periodically.
**API** (`api/`), **database layers** (`database/`), **node** (`node.rs`: start
of all tasks and shutdown when one ends), **cryptography and identifiers**
(`commons/`).

### Interactions

    user --- API --> EventCompleter --- ask --> Evaluators / Approvers / Validators
                        |      ^----- answers (message task resends the question)
               own event|      ^----- broadcast: governance updated
                        v      |
                      Ledger --+--> Governance (versions, signers, quorums)
                        |  ^--- LCE, intermediate and governance events of others
                        v  |
                   Distribution <--> Distribution of the witnesses

Calls between components are questions over a channel with an awaited answer. A
component is one task: its handlers run one after the other, but what it awaits
runs beside it, so a governance can move on in the middle of a handler.

### What is hard

- Owner, evaluators, approvers and validators learn of a governance version at
  different times, and answers belong to the version they were asked under.
- Answers are late, repeated, lost, and outlive the stage that wanted them.
- The stage is in memory and its trace in two database entries that change in
  several writes; a restart rebuilds one from the other.
- A validator promises with one register entry; gaps are accepted on evidence.
- A witness stores events before it can know that they are the certified ones.
- The error of one handler can end its task, and with it the node.

`PROJECT.json` lists the hazards at their lines, with the properties for each.

## 2. Modules

| Module | Models | Builds on |
| --- | --- | --- |
| `Validation` | all validators of one subject, an equivocating owner | |
| `ValidationProofs` | theorems about `Validation` | `Validation` |
| `ValidationRound` | an honest owner in the validating stage, with the validators, over a network that loses answers | `Validation` |
| `EventCompleter` | the owner: all stages, its own part of the ledger, crashes and restarts | `SubjectLog` |
| `SubjectLog` | what the owner promises: one event for each request, in the order of registration | |
| `Ledger` | a node that follows a subject or a governance of others | |
| `Governance` | the document of a governance, its versions, signers, quorums and permissions | |
| `Evaluator` | compiler and runner of a node, next to its governance | `Governance` |
| `Distribution` | witnesses that spread events and signatures, preauthorised subjects | |
| `Approval` | the approver of a subject and of its governance, next to its ledger | |
| `Delivery` | message tasks, lookups, dials and connections down to libp2p | |
| `MC...` | instances for TLC | |
| `ValidationRoundProofs` | theorems about the round of owner and validators | `ValidationRound`, `ValidationProofs` |
| `EventCompleterProofs` | theorems about the owner, and its refinement of `SubjectLog` | `EventCompleter` |
| `LedgerProofs` | theorems about a node that follows a subject | `Ledger` |
| `EvaluatorProofs` | theorems about governances and the evaluator | `Evaluator` |
| `DistributionProofs`, `ApprovalProofs`, `DeliveryProofs` | theorems about these modules | each its module |

The parts rest on each other by assumption and guarantee. `Validation` proves
that certified events of one sequence number are the same and are linked.
`EventCompleter` uses the first (validators do not certify a second event of a
sequence number), `Ledger` uses both (`chain` is *the* certified chain). What
`EventCompleter` submits is what `Validation` takes as a request, and the pair
is composed in `ValidationRound`. `MajorityIntersects` of `Governance` is the
hypothesis of the fork theorem, for the default policy and within a version.
`Distribution` keeps of the ledger what decides whether an event is taken, and
`Delivery` shows what the other modules assume: what is sent again and again
arrives in the end.

### Validation

`register[v]` is the database entry, `signed[v]` the signatures that exist,
`task[v]` how far `validation_event` is (it awaits the governance between
reading the version and checking the proof, and writes the register before it
signs), `gov[v]` the version in the ledger of `v`. `RegisterProof` accepts by
`CheckProofs`, one operator for each branch of `check_proofs`. The owner is
adversarial: a request is any proof, any claimed previous proof, any signer, and
any signatures that exist. `Restart(v)` loses `task[v]`.

### ValidationRound

The genesis event is certified, event 1 is being validated. `current`,
`remaining` and `validations` are the entries of the owner's maps;
`AcceptResponse`/`IgnoreResponse` are the paths of `validation_signatures`,
`NewGovernanceVersion` and `OwnerRestart` the handlers that replace the proof.
`asked` holds every proof ever sent, since a message task may still deliver it.
`HandedOverSigned` asks for a quorum of signatures of similar proofs, each by a
validator that the version it signed for names.
`HigherGovernanceExpected` makes the owner ask for a governance event; that it
then learns of it is the fairness of `OwnerLearnsGovernance`.

### EventCompleter

Each map of the code is a variable, database entries apart from memory.
`PreNewEvent` is `pre_new_event` with `new_event`; the disjuncts of
`EvaluatorResponse`, `ApproverResponse` and `ValidatorResponse` are the paths of
the three `*_signatures` handlers. `StoreEvent` (`set_event` of
`event_validated`), `StoreFact`/`StoreTransfer`/`StoreEOL` (`set_subject`, after
the notification is awaited), `DelPrevalidatedEvent` and `FinishEvent` are the
steps of the last one, between which the node may stop;
`Update...` are the paths of `new_governance_version`, `Start...` those of
`init`. The version an event takes (`\E g \in Versions` in `EvaluatedEvent` and
`ApprovedEvent`) is read by an await of its own, so it may be later than the one
the handler began with. An error that ends `EventManager::run` is
`mode' = "down"`; an error of `init`, of the ledger (the last event is not the
subject's, `WrongSnInSubject`) or of the completer, is `mode' = "failed"`, which
is final, because the next start finds the same database.

A handler that writes twice is one step when it ends, and for each place where
the node may stop between its writes there is a second action: `CrashUnstored`
and `CrashUnrequested` in `new_event` (for a fact, and for a transfer or an end of
life), `CrashSaved` between `set_prevalidated_event` and `del_request`,
`CrashUnsaved` in `approver_signatures`, which asks the validators before it saves
the event. `Crash` is the one between two handlers, or between the steps of the
last one. `dropped` and `unsaved` remember what such a crash kept from being
saved; the properties name it as their exception. A start that finds request and
event looks at the event; a governance update looks at both (`UpdateDoesBoth`).

### Ledger

`ledger` is `ledger_state`; `asked` and `announced` stand for the messages to
other nodes and to the distribution. `NextX`, `LceX` and `FirstLceX` are the
three branches of `external_event` for requests of kind X: the next event
(stored by `StoreNext`, or by `StopsInNext` as far as the node came before it
stopped), an event ahead of a known subject, an event of an unknown subject.
`Intermediate...` are the paths of `external_intermediate_event`, `Start...`
those of `init`. `Replayed` is the reference: what the certified events make of
the subject. Honest nodes (`honest`) send certified events, external ones with
their proof (`get_lce` and `get_next_gov` read both from the sender's database).
The others send any event (`Sent`), a rival first event of the subject among
them, and an external event with the certified proof of another (`ProofsWith`),
which the branches for a head do not compare with the event. Crashes come with
either. `refused` (history) says that the event below the head was stored and
applied and the head then refused, `overwritten` that a head was lost to an event
of its own number.

Two things the code does that a reader may not expect, and that the model has:
the evaluation of a fact that becomes the head is compared with the *present*
state of the witness, so a fact beyond a fact that changed the state is refused
as a head; and an end of life must be signed by the creator when a witness
knows the subject, while the owner's node asks for the owner, so the end of
life of a transferred subject only arrives at nodes that did not know it.

### Governance and Evaluator

A document has members, roles, policies and schemas, in the order in which the
code reads them; a patch replaces some of the four. `PatchAssumption` is what
the JSON schema of governances says of a patch: the four are lists, and a quorum
is a majority, a fixed number or a share of at most the whole. `CheckGovernanceState` is the
built-in contract of governances, `GetSigners`, `GetQuorum` and
`IssueCreateInfo` the answers of `InnerGovernance`. `chain` holds the stored
events, `gov` the subject the ledger keeps, `was` (history) what it was at each
version; `Replay` is the way older versions are rebuilt, with the creator as the
owner. `VersionsAreFinalUnlessRejected` compares the document and the signers of
every schema and stage. In `Evaluator` every
stored event is announced on a bounded channel; `StartUpdate`, `UpdateContract`,
`CompilationFails` and `EndUpdate` are the steps of `update_contracts`,
`CompilerEnds` the end of the compiler's task when it lags. `StartEvaluation`,
`ReadContract` and `Answer` are the three reads of `execute_contract`. A contract
is its source, which compiles or not, and an execution succeeds or not.

### Distribution

`entry` is the database entry of witness signatures, `task` the message task
that asks (replaced by every `SendSignatureRequest`), `needed` and `notices` the
two channels. `Tick(n, m)` is one message of the task of `n` that reaches `m`,
with the answer of `provide_signatures`: signatures, or the question for the last
event, which `AskLce` answers. An answer may be late (`late`), and is then
delivered at any time or never. `AskForAll` is the timer of the preauthorised
subjects. `Restart` is `init`. The subject is not a governance: of one, a node
that is asked for signatures it cannot give asks for the event after its own
(`distribution/inner_manager.rs:386`), which is not modelled.

### Approval

`approvals` and its two indices are the database, `handling` a request whose
governance version has been read and is awaited, `marking` an approval the ledger
has read and will write as obsolete. `owned` says whether the node owns subject
and governance. If not, `EventDecided` and `GovernanceDecided` are the rest of
the network, which is ahead, and `StoreEvent` and `StoreGovernance` store what
it decided: the next event, a head, or an event below it, which make the pending
request of the event obsolete. `StoreFirst` (the first event of an unknown
subject, before `StoreGenesis`), `OwnEvent` and `OwnGovernance`
(`event_validated`) do not look for it; `unmarked` (history) says that one passed
by a pending request, `late` that a request was saved after its event. `Sent` are
all requests that an owner may have sent so far, in any order and any number of
times. `votation` is the setting `pass_votation`.

### Delivery

From the top: `Tick` (a task), `SendMessage` (address known, or lookup and
`pendings`), `TellSend` (connection known, or dial and `outbonds`), `handlers`
(what a connection has to write), `received`. `query` is the mark in
`active_get_querys`, `lookups` the queries that really run: the end of one takes
the mark of a later one. `retries` and `timer` are the retry of the bootstrap
nodes. libp2p is the environment: it numbers connections, and its failures
(a lookup that ends without the address, a dial, a connection with messages to
write, a substream that times out) are counted by `MaxFailures`.

## 3. Runs

| Run | Result | States | What it shows |
| --- | --- | --- | --- |
| `validators` | pass | 317,750 | No double vote, no fork, one chain; the inductive invariant of the proofs |
| `round_update_live` | pass | 36,640 | Validation ends despite loss, restart and update; a quorum signed what the ledger gets |
| `completer_live` | pass | 246,355 | With a crash anywhere, also inside a handler, the completer implements `SubjectLog`; every acknowledged request is applied unless the evaluators cannot agree or the crash kept it from being saved |
| `completer_mixed` | pass | 360,402 | All kinds of requests, an update that revokes a permission and drops an evaluator, a crash anywhere: enough evaluators, and starts fail for the known reasons only |
| `ledger_follows` | pass | 302,054 | Certified and uncertified events, rival geneses and proofs of other events in any order, with two crashes |
| `evaluator` | pass | 205,404 | Quorums can be met and intersect, versions are final, evaluations use their version's contract and schema, contracts follow |
| `distribution` | pass | 252,318 | Signatures belong to their event; every witness gets the last event and all signatures |
| `approval` | pass | 511,715 | Votes stand, old requests do not stay pending, the queue's limit stops a node in the named cases only, answers arrive |
| `delivery` | pass | 128,931 | The message of a task arrives, bootstrap nodes are reached, messages go to open connections |
| `completer_two_events` | violation | | Finding 1 |
| `governance_versions` | violation | | Finding 2 |
| `distribution_not_found` | violation | | Finding 3 |

`ImplementsLog` is a refinement: with the known requests that are not `dropped` as
`registered` and the requests of the stored events as `log`, every behaviour of
`EventCompleter` (under a governance that stays, with one crash anywhere) is one of
`SubjectLog`.
A request that is registered twice, taken up while another is worked on, lost, or
applied twice would break it.

### Bounds

- `validators`: three validators, quorum two, versions 0 and 1. The proofs are
  two rival events of sequence number 1 (one a transfer) and a successor of one
  of them: enough for a fork, for a gap and for a proof that changes its version
  only. The theorems hold without these bounds.
- `round_update_live`: two validators that must both sign, so that every lost
  answer matters; one loss, one restart (of owner or validator), one update.
- `completer_live`: two facts (the second event is where late answers of the
  first bite), three nodes in every role with majority quorums, any answers, one
  crash. `completer_mixed`: two facts, a transfer and an end of life, two nodes,
  one update after which one of the two evaluates alone, one crash. Both facts
  lead to the same state, so that a fact without effect happens too.
- `ledger_follows`: four chains of up to four events (accepted and rejected
  facts, transfers to another node and to this one, ends of life) as a plain
  subject and as a governance; a rival first event and four more uncertified ones
  that share requests, predecessors or sequence numbers with certified ones; two
  crashes (the second one after a restart that misread the first). `honest` only
  tells the scenarios apart: `HeadIsKept` says more of honest senders, and
  `SubjectIsReplay` excepts a refused head (`refused`) only where they are not.
  `HeadIsKept` is about at most one crash: a head that was abandoned by one
  restart can be found again by the next, when its proof has been deleted.
- `evaluator`: three events after the genesis, so that a version can be replayed
  with an event before and after it; two members, named by identifier, by name
  and as all members; two schemas whose order matters when one does not compile;
  a channel of two announcements (the code has 1000), so that it overflows.
- `distribution`: an owner and two others; two events, or one with a change of
  the witnesses; one late answer, one crash.
- `approval`: a node that owns both subject and governance, or none of them; one
  event and one version of the governance, and the requests for the next ones;
  one lost answer or one crash. Requests under both versions and for both events
  are enough for the queue to overflow, also with requests of own events that
  stay pending.
- `delivery`: one peer with two connections, one bootstrap node, one task and one
  message that is sent once, two pending messages (the code has 100), two
  failures. The run with two tasks, one after the other, and one pending message
  passes too (782,913 states), and is left out for its time.

Only `validators`, `round_update_live`, `ledger_follows` and the two runs of
`Evaluator` check deadlock: elsewhere a system with nothing left to do waits, and
a failed start is final.

### Fairness

- Questions to evaluators, approvers and validators are message tasks that are
  resent until replaced or cancelled (`message_task_manager/manager.rs`), so a
  node that is still asked answers in the end: weak fairness of the answers,
  and strong fairness of a validator's handling of the *current* proof, since
  its queue also holds older ones.
- Tasks serve their queues and handlers finish: weak fairness of the steps of a
  handler and of `NewGovernanceVersion`.
- A stopped node is started again: weak fairness of `Restart` in `LiveSpec`.
- Losses, crashes and updates are finitely many, and nothing is assumed of when.
- `EventuallyApplied` is about a governance that stays. Evaluators may answer
  anything: a disagreeing one takes its place out of those still asked, and with
  the places used up the code has no way out of the stage (`Undecided`).
- `Distribution`: every tick of a task draws its targets at random, so each is
  asked again and again; weak fairness of `Tick` with an answer that is not late,
  of `AskForAll` (a timer) and of the loop of the manager. Late answers, restarts
  and new events need not come.
- `Approval`: the owner's task repeats its current request, and one among other
  messages in the queue is served: strong fairness of `ReceiveRequest(Current)`,
  `AnswerAgain(Current)` and `NewGovernanceVersion`. Nobody has to vote.
- `Delivery`: timers fire; lookups, dials and substreams that do not fail end.
- `Evaluator`: the compiler's task is scheduled.

## 4. Proofs

`ValidationProofs` proves, for every finite set of validators, every set of
proofs, every assignment of signers and quorums to versions:

- `TypeCorrect`: `Spec => []TypeOK`.
- `IndInvHolds`: `Spec => []IndInv`.
- `OneEventPerSnHolds`: no validator signs two events of one sequence number.
- `NoForkHolds` and `CertifiedChainHolds`: if quorums intersect
  (`QuorumsIntersect`), two certified events of one sequence number are the
  same, and a certified event points at the certified event before it.

*Argument.* `OneEventPerSn` is not inductive: a validator that signed an event
and whose register had fallen behind would sign a rival. `IndInv` adds what
rules it out: the register is written before the signature is made, so it is
never behind a signature; what a validator is bound by (its signatures and its
register, `Votes`) agrees on each sequence number and is linked by hashes. A new
vote has the registered sequence number (then it is similar), the next (then it
is linked to the register), or one that skips (then no vote is next to it). The
safety of a single validator so rests on its register alone, and on nothing that
other nodes do; certification adds the intersection of quorums.

*Assumptions.* `ConstantsAssumption` (types, finiteness). `QuorumsIntersect` is
a hypothesis of the last two theorems, and a real one: it holds for MAJORITY
with unchanged validators, and fails for a FIXED quorum below a majority or when
a version replaces most validators. `OneEventPerSnHolds` does not need it.

`MajorityNoFork` discharges the hypothesis for the policy a governance starts
with: MAJORITY over validators that stay, for any number of them
(`LargeQuorumsIntersect` is the general form, also for validators that change).

### The other modules

Every safety invariant and action property of the passing runs is a theorem; the
constants are arbitrary within the assumptions named below. Each module of
proofs has an inductive invariant with one lemma per action, and TLC has
checked these invariants on the instances of the runs.

| Theorem | Property | What the invariant adds |
| --- | --- | --- |
| `ValidationRoundProofs!HandedOverSignedHolds` | `HandedOverSigned` | responses and collected signatures were really made (`ResponsesInv`, `CollectedInv`), all proofs of the owner are similar |
| `ValidationRoundProofs!RoundOneEventPerSn` | `OneEventPerSn` | every step of the round is one of `Validation` or leaves the validators alone |
| `EventCompleterProofs!StagePersisted`, `FailsAfterStoring` | `StageIsPersisted`, `FailsOnlyAfterStoring` | exactly one event is validated, the one in the database (`OneValidating`); an unfinished request lost its subject only by its own event (`Unfinished`); the last event is ahead of the subject only while it is being stored |
| `EventCompleterProofs!EnoughEvaluated` | `EvaluatedByQuorum` | evaluations kept in memory and in approval requests are of evaluators of a version since they were asked for |
| `EventCompleterProofs!OneSubmission`, `AcknowledgedKept` | `OneSubmissionPerSn`, `AcknowledgedNotLost` | events are numbered without gaps, what was submitted is in the database until it is stored, all evaluations are of the request in the database (`OneVersionInv`) |
| `EventCompleterProofs!CurrentSnCached` | `CurrentSnIsCache` | |
| `EventCompleterProofs!ImplementsSubjectLog` | `ImplementsLog` | `Registered`: what is registered and not applied is the request or the event of the database |
| `LedgerProofs!UpToDateHoldsCertified`, `OwnerCanSign`, `HistoryIsKept` | `UpToDateIsCertified`, `OwnerHasKeys`, `HistoryKept` | `CoreInv`: below a certified event there are certified events only (`Chained`, by the hash chain), what an up-to-date node holds ends in a certified event or is a first event alone (`UpCertified`), how `ledger_state`, subject and events agree (`Stored`, `Position`, `HeadAbove`); `IndInv` adds what a restart finds (`Resumable`) |
| `LedgerProofs!GapCanBeClosed` | `HeadIsKept` | the stored proof is that of the head until a restart (`HeadProof`) |
| `LedgerProofs!SubjectIsWhatEventsMake` | `SubjectIsReplay` | a subject whose last event is certified is what the certified events make, or one number behind after an end of life (`ReplayInv`) |
| `EvaluatorProofs!QuorumsCanBeMet`, `MajorityQuorumsIntersect` | `QuorumCanBeMet`, `MajorityIntersects` | every version passed the contract of governances (`History`) |
| `EvaluatorProofs!VersionsFinal` | `VersionsAreFinalUnlessRejected` | each approved version is the patched one before it, and the replay's owner is the creator |
| `EvaluatorProofs!EvaluatedWithItsVersion` | `EvaluatedByItsVersion` | the update in progress, the stored contracts and the request in progress hold sources of the version they name (`EvalInv`) |
| `DistributionProofs!SignaturesOfEventHolds` | `SignaturesOfEvent` | late answers carry signatures of an event the sender had (`LateAnswers`) |
| `ApprovalProofs!NoStalePending`, `UpToDateNodeRuns`, `VotesStand` | `PendingIsCurrent`, `StopsOnlyBehind`, `VoteStands` | pending requests are indexed, the one being saved is current or its obsolescence is still to come; the pending request of a stored event is being marked, unless it came late or was passed by (`StoredIsMarked`) |
| `DeliveryProofs!HandedToOpenConnection` | `ConnectionIsOpen` | messages are of tasks that exist, the queue is within its limit |
| `TypeCorrect` of each but `ValidationRoundProofs` | `TypeOK` | |

*Hypotheses.* Two theorems about the owner, and the refinement, assume that
the governance stays (`MaxGov = 0`). It is needed: with one update TLC refutes
`OneSubmissionPerSn` (Finding 1), and `AcknowledgedNotLost` as well, for the same
late answers to a superseded evaluation. `EnoughEvaluated`, `StagePersisted` and
`FailsAfterStoring` hold with any updates. `CurrentSnCached` and the refinement assume facts only
(`FactsOnly`): a transfer or an end of life that is stored again after a crash
moves `current_sn` on, or is started a second time (see Known deviations). The
refinement also assumes `MaxCrashes <= 1`: two crashes at the wrong places apply a
fact twice (Known deviations, line 1484). Otherwise the number of crashes is
arbitrary, and number of nodes, requests, quorums and answers are in all of them.

*Assumptions on constants.* They are named in the modules and evaluated by TLC in
every run: `CompleterAssumption`, `LedgerAssumption` (chains are numbered and
linked by hashes, a hash names one event, the subject was created by another
node, transfers and ends of life are approved, as `ledger.rs` checks before it
stores; there may be any uncertified events, first events included), `PatchAssumption` and `CreatorAssumption`, `BufferAssumption`,
`DistributionAssumption`, `ApprovalAssumption`, `DeliveryAssumption`,
`RoundAssumption` (the proofs of the owner's event differ in the version only),
and `NoneAssumption` where "nothing" has to differ from a value.

*Induction over data.* What the events make of a subject (`Replayed`) and what a
replay makes of a governance (`Replay`) are recursive functions. Facts about
them for chains of any length are proved by the least number for which they
would fail (`LeastNumber`), not by an induction schema.

*Only model-checked.* Liveness: `EventuallyValidated`, `EventuallyApplied`,
`ContractsFollowGovernance`, `Distributed`, `AnswerArrives`, `BootstrapsReached`
and `TaskArrives`. They rest on fairness, which is out of the prover's reach, as
is `ENABLED`.

## 5. Findings

1. `event/event_completer.rs:775`: answers to a pre-evaluation that a governance
   update superseded, arriving while the next request is evaluated, lead to a
   second event of a past sequence number. Line 777 says that the stage is there
   "to not complete two at the same time for the same subject".
2. `governance/inner_governance.rs:502`: older versions of a governance are
   rebuilt with the patches of events that the approvers rejected, which the
   ledger does not apply. Signers and quorums of such a version differ from what
   they were when it was the last one.
3. `distribution/inner_manager.rs:84`: a governance update that is read before the
   request to distribute a new subject, or after the signatures were deleted
   because the node was no witness, stops the node with the error "Not Found"
   that the change log lists as fixed.

### Known deviations

The models contain these too; a property states the part that does hold, and
no run is kept for the part that does not.

- `event/event_completer.rs:366`: a governance update replaces the proof of an
  event in validation and keeps the signatures of the old proof, which count
  towards the quorum of the new one, also those of validators that the new
  version no longer names (`HandedOverSigned` asks for a quorum of signatures of
  similar proofs, each by a validator of the version it signed for).
- `validation/validation.rs:171`: a validator that registered a transfer expects
  the new owner's key when it is asked again, and refuses the old owner's
  signature: if its answer was lost, the transfer is never validated
  (`EventuallyValidated` is checked for a fact).
- `event/event_completer.rs:803`: a transfer or end of life in validation has its
  request in the database again; a governance update takes it for an unfinished
  one, fails, and the node stops (`UpdateStops`).
- `event/event_completer.rs:860`: an event that is evaluated under one version may
  name a later one, and its evaluators may be of both (`EvaluatedByQuorum` asks
  for enough of them for one version since the question, each named by one of
  these versions). After an update the request of a superseded evaluation can take the place of another
  one (Finding 1), so `AcknowledgedNotLost` is checked without updates too.
- `ledger/ledger.rs:458`: an own end of life that is stored a second time after a
  crash moves `current_sn` past the subject (`CurrentSnIsCache` is checked with
  facts).
- `event/event_completer.rs:1484`: a crash between the two deletions starts a
  completed transfer to the own node a second time. With facts it takes two
  crashes: the first between `set_prevalidated_event` and `del_request` (lines
  1072-1077, 1288-1293) leaves the request beside its event, the second between the
  two deletions leaves the request alone, and `init` starts the applied fact again
  (`ImplementsLog` is checked and proved with one crash).
- `event/event_completer.rs:1282`: `approver_signatures` asks the validators and saves
  the event afterwards (1288), the other way round than `evaluator_signatures`. After
  a crash in between, the request is evaluated anew and may become another event of
  the same number (`OneSubmissionPerSn` does not count the one that was not saved,
  and `EventuallyApplied` is about behaviours without one, `unsaved`).
- `event/event_completer.rs:801`: `new_event` registers a request before it stores it
  (804). A fact that a crash finds in between is refused when it is sent again, and
  nothing takes it up (`dropped` in `AcknowledgedNotLost` and `EventuallyApplied`).
- `event/event_completer.rs:291`: an update that finds a request and an event starts
  the request again and the validation of the event too, in one round of the loop;
  the stage is that of the validation, and the evaluation stays known.
- `event/event_completer.rs:196`: a node that stops after it stored a transfer to
  another node or an end of life, and before it forgot the event, cannot start
  again. `ledger/ledger.rs:349`: nor can one that stops after it stored any own
  event and before it stored the subject (line 365), because `Ledger::init` finds
  a last event that is not the subject's. `FailsOnlyAfterStoring`: for no other
  reason, but a request whose signer has lost the permission.
- `ledger/ledger.rs:2627`: for a first event `check_genesis` ignores the validation
  signatures, and the identifier it is compared with (`generate_subject_id`,
  `commons/models/state.rs:230`) hashes neither signer nor name: a node may hold
  another first event than the certified one, until an event that follows the
  certified one is refused (the exception for `current = 0` in
  `UpToDateIsCertified`).
- `ledger/ledger.rs:884` (1002, 1447 and their like): an event that becomes the head
  is not compared with the proof it came with. A head with the proof of another
  event is never applied, but takes the place of a real one.
- `ledger/ledger.rs:908` (1478, 1933): a head of the number of the one before is stored and
  then deleted with it; an intermediate event of the head's number overwrites it.
  After a restart nothing tells that there was a head, and what is below passes
  for the last word (`HeadForgotten`).
- `ledger/ledger.rs:2682`: `event_sourcing_eol` does not advance the sequence number:
  a subject whose end of life came as a head is one behind (`OneBehind` in
  `SubjectIsReplay`), and its next start fails.
- `ledger/ledger.rs:2227`: the event below the head is stored and applied before
  the head is tested against its proof. If it was not the certified one, the head
  is refused and the uncertified event stays applied to the subject; the
  certified event that replaces it later is applied on top (`SubjectIsReplay`
  excepts nodes that met uncertified events and refused a head, `refused`).
- `ledger/ledger.rs:924`: a node that learns of a head beyond a gap asks for event
  0, which it has, and not for the event after `current_sn` (`Distributed`
  excepts nodes that are more than one event behind).
- `governance/inner_governance.rs:494`: a replay starts from the first event and
  applies patches alone, so its owner is the creator, also after a transfer of the
  governance. Where the roles name nobody, the signer of an older version (line
  227) is then another than when it was the last one (the exception in
  `VersionsAreFinalUnlessRejected`).
- `evaluator/compiler/manager.rs:57`: a compiler that lags ends and leaves the
  node running without it (`missed` in `ContractsFollowGovernance`); a crash or a
  contract that does not compile has the same effect for one version.
- `approval/inner_manager.rs:238`: two pending requests of a subject make the next
  one an error that stops the node (`StopsOnlyBehind` says when). One case is no
  matter of being late: `event_validated` (`ledger/ledger.rs:303`) and the first
  event of an unknown subject (line 1534) leave pending requests as they are, so an
  owner that is an approver and does not vote is stopped by its third request.
- `ledger/ledger.rs:1510`: a vote given between the ledger's read and write of an
  approval is overwritten (the exception in `VoteStands`).
- A `FIXED` quorum may exceed the number of signers: nothing compares the two,
  and `event/event_completer.rs:778` subtracts one from the other.

## 6. Not modelled

- Creation of subjects (`new_event` for a create request, `genesis`): it differs
  from the other requests in the checks before validation only.
- A crash between two writes of one handler outside `EventCompleter`, except in the
  next event of `Ledger` and between register and signature of `Validation`.
- The distribution of a governance, and several bootstrap nodes at once.
- In `Approval`, heads that are replaced; module `Ledger` has them.
- Errors of the database, and of channels other than a stopped node.
- WASM execution and compilation, JSON schemas and patches (a state is one value,
  or a document of four parts, that a patch overwrites), serialisation,
  cryptography (a hash is its content, signatures cannot be forged), the libp2p
  transport. These are libraries, or pure functions whose inputs are too large
  for TLC.
- The protocol message manager, the API and the database layers forward calls
  and keep no state of their own that a property could be about.

## 7. Plan

1. An abstract `SubjectChain` (a chain that only grows, each event once) that
   `Validation`, by its certified events, implements.
2. The creation of subjects in `EventCompleter`, and the invariants of its proofs
   with transfers after a crash.
3. What survives a governance update: a form of `AcknowledgedNotLost` with the
   answers of Finding 1 as its only exception, and a theorem for it.
