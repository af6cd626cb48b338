------------------------------- MODULE Approval -------------------------------
(* The approval manager of a node, next to its ledger and its governance.   *)
(* Requests to approve an event come again and again until they are         *)
(* answered, late and in any order; users vote; the ledger stores events    *)
(* of other owners and makes their requests obsolete; each version of the   *)
(* governance is announced on a channel of its own.                         *)
(*                                                                          *)
(* There is one subject with its governance.  If the node does not own      *)
(* them, they are ahead in the network of what it has stored.  An owner may *)
(* be an approver too, and sends its requests to itself as well.  A request *)
(* names the event and the version of the governance it was evaluated under.*)
EXTENDS Integers, Sequences

CONSTANTS
  MaxSn,       \* bound: events of the subject
  MaxGov,      \* bound: versions of the governance after the first
  Ownerships,  \* what the node may own of the two
  MaxFailures, \* bound: answers that do not arrive and crashes of the node
  None

ASSUME ApprovalAssumption ==
  /\ {MaxSn, MaxGov, MaxFailures} \subseteq Nat
  /\ Ownerships \subseteq SUBSET {"subject", "governance"}
  /\ None \notin [subject : {"subject", "governance"}, sn : Nat, version : Nat]

VARIABLES
  owned,       \* what the node owns
  netGov,      \* network: last version of the governance, at its owner
  decided,     \* network: the version of each event that the owner stored
  gov,         \* database: version of the governance here
  genesis,     \* database: whether the first event of the subject is here
  stored,      \* database: the later events of the subject that are here
  marking,     \* the approval the ledger has read to make it obsolete, or None
  approvals,   \* database: request -> state of the approval
  bySubject,   \* database: the index of requests by subject
  byGov,       \* database: the index of requests by governance
  notices,     \* channel: announced versions not yet read
  handling,    \* the request whose governance version has been read, or None
  running,     \* whether the node runs
  votation,    \* setting: pass_votation
  answered,    \* network: whether the owner has our vote to its current request
  late,        \* history: a request was saved after its event
  unmarked,    \* history: an event passed by its pending request
  lost, crashes

network == <<owned, netGov, decided>>
ledger == <<gov, genesis, stored, marking>>
manager == <<approvals, bySubject, byGov, notices, handling, running>>
history == <<answered, late, unmarked, lost>>
vars == <<network, ledger, manager, votation, history, crashes>>

\* The version of the governance that the owner of the subject has.
OwnerVersion == IF "subject" \in owned THEN gov ELSE netGov

\* The requests that have been sent: the owner of the subject asks under the
\* version it has until the event is approved.  The governance approves its events
\* under the version before, and they name no governance.
Request(subject, s, v) == [subject |-> subject, sn |-> s, version |-> v]
VersionsAsked(s) ==
  (IF s = 1 THEN 0 ELSE decided[s - 1]) .. (IF s > Len(decided) THEN OwnerVersion ELSE decided[s])
Sent ==
  {r \in {Request("subject", s, v) : s \in 1 .. Len(decided) + 1, v \in 0 .. netGov} :
     r.version \in VersionsAsked(r.sn)}
    \cup {Request("governance", v + 1, v) : v \in 0 .. netGov}
Current == Request("subject", Len(decided) + 1, OwnerVersion)

Stored(r) == IF r.subject = "governance" THEN r.sn <= gov ELSE r.sn \in stored

Known(r) == r \in DOMAIN approvals
Pending(r) == Known(r) /\ approvals[r] = "pending"
Responded(r) == Known(r) /\ approvals[r] \in {"accepted", "rejected"}
Put(f, x, y) == [z \in DOMAIN f \cup {x} |-> IF z = x THEN y ELSE f[z]]

-----------------------------------------------------------------------------
(* The network and the ledger.                                              *)

EventDecided ==
  /\ "subject" \notin owned
  /\ Len(decided) < MaxSn
  /\ decided' = Append(decided, netGov)
  /\ answered' = FALSE
  /\ UNCHANGED <<owned, netGov, ledger, manager, votation, late, unmarked, lost, crashes>>

GovernanceDecided ==
  /\ "governance" \notin owned
  /\ netGov < MaxGov
  /\ netGov' = netGov + 1
  /\ answered' = (answered /\ "subject" \in owned)
  /\ UNCHANGED <<owned, decided, ledger, manager, votation, late, unmarked, lost, crashes>>

\* event_validated stores an event of our own and looks for no approval.
OwnEvent ==
  /\ running /\ marking = None
  /\ "subject" \in owned /\ Len(decided) < MaxSn
  /\ decided' = Append(decided, gov)
  /\ stored' = stored \cup {Len(decided')}
  /\ unmarked' = (unmarked \/ Pending(Request("subject", Len(decided'), gov)))
  /\ answered' = FALSE
  /\ UNCHANGED <<owned, netGov, gov, genesis, marking, manager, votation, late, lost, crashes>>

OwnGovernance ==
  /\ running /\ marking = None
  /\ "governance" \in owned /\ netGov < MaxGov
  /\ netGov' = netGov + 1
  /\ gov' = netGov'
  /\ notices' = notices + 1
  /\ unmarked' = (unmarked \/ Pending(Request("governance", gov', gov)))
  /\ answered' = FALSE
  /\ UNCHANGED <<owned, decided, genesis, stored, marking, approvals, bySubject, byGov,
                 handling, running, votation, late, lost, crashes>>

\* The ledger reads the approval of the event it has stored.
ReadApproval(r) == marking' = IF Pending(r) THEN r ELSE None

\* An event of another owner: the next one, one further ahead, which becomes the
\* head, or one below the head.
StoreEvent(n) ==
  /\ running /\ marking = None
  /\ "subject" \notin owned /\ genesis
  /\ n \notin stored /\ decided[n] <= gov
  /\ \A m \in stored : m < n => 1 .. m \subseteq stored
  /\ stored' = stored \cup {n}
  /\ ReadApproval(Request("subject", n, decided[n]))
  /\ UNCHANGED <<network, gov, genesis, manager, votation, history, crashes>>

\* Of a subject that is not known any event becomes the head, and no approval is
\* looked for.
StoreFirst(n) ==
  /\ running /\ marking = None
  /\ "subject" \notin owned /\ ~genesis
  /\ stored = {} /\ decided[n] <= gov
  /\ stored' = {n}
  /\ unmarked' = (unmarked \/ Pending(Request("subject", n, decided[n])))
  /\ UNCHANGED <<network, gov, genesis, marking, manager, votation, answered, late, lost,
                 crashes>>

StoreGenesis ==
  /\ running /\ marking = None
  /\ ~genesis
  /\ genesis' = TRUE
  /\ UNCHANGED <<network, gov, stored, marking, manager, votation, history, crashes>>

StoreGovernance ==
  /\ running /\ marking = None
  /\ gov < netGov
  /\ gov' = gov + 1
  /\ notices' = notices + 1
  /\ ReadApproval(Request("governance", gov + 1, gov))
  /\ answered' = (answered /\ "subject" \notin owned)
  /\ UNCHANGED <<network, genesis, stored, approvals, bySubject, byGov, handling, running,
                 votation, late, unmarked, lost, crashes>>

\* It writes what it read, with another state.
MarkObsolete ==
  /\ running /\ marking # None
  /\ approvals' = Put(approvals, marking, "obsolete")
  /\ marking' = None
  /\ UNCHANGED <<network, gov, genesis, stored, bySubject, byGov, notices, handling, running,
                 votation, history, crashes>>

LedgerStep ==
  \/ EventDecided \/ GovernanceDecided \/ OwnEvent \/ OwnGovernance
  \/ \E n \in 1 .. Len(decided) : StoreEvent(n) \/ StoreFirst(n)
  \/ StoreGenesis \/ StoreGovernance \/ MarkObsolete

-----------------------------------------------------------------------------
(* The approval manager.                                                    *)

\* The answer is sent once.
Respond(r) ==
  \/ answered' = (answered \/ r = Current) /\ UNCHANGED lost
  \/ r = Current /\ lost + crashes < MaxFailures /\ lost' = lost + 1 /\ UNCHANGED answered

GenerateVoteAgain(r, vote) ==  \* a mutant: an answered request is voted again
  /\ Known(r)
  /\ approvals' = Put(approvals, r, vote)
  /\ bySubject' = bySubject \ {r}
  /\ byGov' = byGov \ {r}
  /\ Respond(r)

\* Obsolete requests can be voted as well.
GenerateVote(r, vote) ==
  /\ Known(r) /\ ~Responded(r)
  /\ approvals' = Put(approvals, r, vote)
  /\ bySubject' = bySubject \ {r}
  /\ byGov' = byGov \ {r}
  /\ Respond(r)

EmitVote(r, vote) ==
  /\ running /\ handling = None
  /\ GenerateVote(r, vote)
  /\ UNCHANGED <<network, ledger, notices, handling, running, votation, late, unmarked,
                 crashes>>

GetIndexedBySubject(r) ==  \* a mutant: requests that are not pending count too
  {q \in bySubject : q.subject = r.subject /\ Known(q)}

GetApprovalsBySubject(r) ==
  {q \in bySubject : q.subject = r.subject /\ Pending(q)}

\* The requests that a new version of the governance takes back.
GetApprovalsByGovernance == {r \in byGov : Pending(r)}

AnswerOnce(r) ==  \* a mutant: an answered request is known, and that is all
  /\ running /\ handling = None
  /\ Responded(r)
  /\ UNCHANGED vars

\* process_approval_request for a request that was answered.
AnswerAgain(r) ==
  /\ running /\ handling = None
  /\ Responded(r)
  /\ Respond(r)
  /\ UNCHANGED <<network, ledger, manager, votation, late, unmarked, crashes>>

\* For a request that is new, up to the await of the governance version.  The
\* lookup drops index entries of requests that are not pending.
ReceiveRequest(r) ==
  /\ running /\ handling = None
  /\ ~Known(r)
  /\ LET queue == GetApprovalsBySubject(r)
     IN  /\ bySubject' = {q \in bySubject : q.subject = r.subject => q \in queue}
         /\ \/ /\ queue = {} \/ \E q \in queue : queue = {q} /\ r.sn > q.sn
               /\ handling' = [request |-> r, version |-> gov]
               /\ UNCHANGED <<notices, running>>
            \/ /\ \E q, p \in queue : p # q
               /\ running' = FALSE
               /\ UNCHANGED <<notices, handling>>
  /\ UNCHANGED <<network, ledger, approvals, byGov, votation, history, crashes>>

SaveRequestUnindexed(r) ==  \* a mutant: the governance index is not written
  /\ approvals' = Put(approvals, r, "pending")
  /\ bySubject' = bySubject \cup {r}
  /\ UNCHANGED byGov

SaveRequest(r) ==
  /\ approvals' = Put(approvals, r, "pending")
  /\ bySubject' = bySubject \cup {r}
  /\ byGov' = IF r.subject = "governance" THEN byGov ELSE byGov \cup {r}

\* After the await: another version than ours is refused.
HandleRequest ==
  /\ running /\ handling # None
  /\ LET r == handling.request
     IN  \/ /\ handling.version # r.version
            /\ UNCHANGED <<approvals, bySubject, byGov, answered, late, lost>>
         \/ /\ handling.version = r.version
            /\ votation = "normal"
            /\ SaveRequest(r)
            /\ late' = (late \/ Stored(r))
            /\ UNCHANGED <<answered, lost>>
         \/ /\ handling.version = r.version
            /\ votation # "normal"
            /\ approvals' = Put(approvals, r, votation)
            /\ Respond(r)
            /\ UNCHANGED <<bySubject, byGov, late>>
  /\ handling' = None
  /\ UNCHANGED <<network, ledger, notices, running, votation, unmarked, crashes>>

NewGovernanceVersionIndexed ==  \* a mutant: the subject index is not cleared
  /\ running /\ handling = None
  /\ notices > 0
  /\ notices' = notices - 1
  /\ approvals' = [r \in DOMAIN approvals \ GetApprovalsByGovernance |-> approvals[r]]
  /\ byGov' = {}
  /\ UNCHANGED <<network, ledger, bySubject, handling, running, votation, history, crashes>>

\* Only pending requests are deleted; the lookup drops the index entries of the
\* others.
NewGovernanceVersion ==
  /\ running /\ handling = None
  /\ notices > 0
  /\ notices' = notices - 1
  /\ approvals' = [r \in DOMAIN approvals \ GetApprovalsByGovernance |-> approvals[r]]
  /\ bySubject' = bySubject \ GetApprovalsByGovernance
  /\ byGov' = {}
  /\ UNCHANGED <<network, ledger, handling, running, votation, history, crashes>>

ManagerStep ==
  \/ \E r \in Sent : AnswerAgain(r) \/ ReceiveRequest(r)
  \/ \E r \in DOMAIN approvals, vote \in {"accepted", "rejected"} : EmitVote(r, vote)
  \/ HandleRequest
  \/ NewGovernanceVersion

-----------------------------------------------------------------------------
\* The manager has no init: what was announced or read before is lost.
Crash ==
  /\ lost + crashes < MaxFailures
  /\ crashes' = crashes + 1
  /\ running' = TRUE
  /\ handling' = None
  /\ marking' = None
  /\ notices' = 0
  /\ UNCHANGED <<network, gov, genesis, stored, approvals, bySubject, byGov, votation, history>>

Init ==
  /\ owned \in Ownerships /\ netGov = 0 /\ decided = <<>>
  /\ gov = 0 /\ genesis = ("subject" \in owned) /\ stored = {} /\ marking = None
  /\ approvals = [r \in {} |-> None]
  /\ bySubject = {} /\ byGov = {}
  /\ notices = 0 /\ handling = None /\ running = TRUE
  /\ votation \in {"normal", "accepted", "rejected"}
  /\ answered = FALSE /\ late = FALSE /\ unmarked = FALSE /\ lost = 0 /\ crashes = 0

Next == LedgerStep \/ ManagerStep \/ Crash

\* The owner's task asks again and again, and what waits in the channels of the
\* manager is handled in spite of what else comes; the ledger goes on.  Nobody
\* has to vote.
Spec ==
  /\ Init /\ [][Next]_vars
  /\ SF_vars(ReceiveRequest(Current)) /\ SF_vars(AnswerAgain(Current))
  /\ WF_vars(HandleRequest) /\ SF_vars(NewGovernanceVersion)
  /\ WF_vars(StoreGovernance) /\ WF_vars(MarkObsolete)

-----------------------------------------------------------------------------
(* Properties.                                                              *)

TypeOK ==
  /\ gov \in 0 .. netGov /\ stored \subseteq 1 .. Len(decided)
  /\ DOMAIN approvals \subseteq Sent
  /\ \A r \in DOMAIN approvals :
       approvals[r] \in {"pending", "obsolete", "accepted", "rejected"}
  /\ answered \in BOOLEAN
  /\ bySubject \cup byGov \subseteq DOMAIN approvals

\* A vote that was signed stands: generate_vote signs no other one, and no version
\* of the governance takes it away.  Only the ledger can, when it makes obsolete a
\* request that was voted after it read it.
VoteStands ==
  [][\A r \in DOMAIN approvals :
       Responded(r) => \/ r \in DOMAIN approvals' /\ approvals'[r] = approvals[r]
                       \/ marking = r]_vars

\* A request under an older version than the node has is not left pending once
\* the node has read the announcements, unless they went with a crash.
PendingIsCurrent ==
  \A r \in DOMAIN approvals :
    approvals[r] = "pending" /\ r.subject = "subject" /\ r.version < gov =>
      notices > 0 \/ crashes > 0

\* MoreRequestThanMaxAllowed stops the node only when it is behind (events were
\* decided that it has not stored, or its ledger or the announcements are late),
\* when a request was saved after its event, or after a crash; and the two cases
\* in which the ledger does not make the pending request of an event obsolete: an
\* owner that has not voted on its own event, and the first event stored of a
\* subject that was not known.
StopsOnlyBehind ==
  ~running => \/ crashes > 0 \/ late \/ unmarked
              \/ stored # 1 .. Len(decided) \/ notices > 0 \/ marking # None

\* The request that the owner repeats comes to be known to a node that is up to
\* date, and if there is a vote, the vote arrives, whatever was lost.
AnswerArrives ==
  <>[](running /\ gov = netGov /\ crashes = 0 =>
         Known(Current) /\ (Responded(Current) => answered))
=============================================================================
