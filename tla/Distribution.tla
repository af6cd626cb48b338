----------------------------- MODULE Distribution -----------------------------
(* The distribution of the events of a subject to its witnesses: every node *)
(* that stores an event signs it and asks the other witnesses and the owner *)
(* for their signatures until it has them all.  A node that is asked for an *)
(* event it does not have asks back for the last event (LCE) of the sender. *)
(*                                                                          *)
(* Two channels feed the distribution of a node, the events its ledger      *)
(* hands over and the versions of the governance, and nothing orders one    *)
(* against the other.  The ledger is reduced to what decides whether a node *)
(* stores an event it was sent (module Ledger has the rest), and the        *)
(* preauthorised subjects are the other way by which events are asked for.  *)
(*                                                                          *)
(* The subject is not a governance: of a governance, provide_signatures     *)
(* asks for the event after its own instead of for the last one.            *)
(*                                                                          *)
(* A request and its answer are delivered when they are sent, except that   *)
(* MaxLate of the answers are late: they come at any later time or never.   *)
(* A request that is lost is sent again at the next tick.                   *)
EXTENDS Integers, Sequences, FiniteSets

CONSTANTS
  Nodes,
  Owner,
  Scenarios,    \* witnesses of the subject in each version of the governance,
                \* nodes that each node is told to ask for the subject, and, as
                \* a bound, the last event
  MaxLate,      \* bound: answers that are late or lost
  MaxCrashes,   \* bound: crashes of nodes
  None

ASSUME DistributionAssumption ==
  /\ Owner \in Nodes
  /\ \A s \in Scenarios :
       /\ s.providers \in [Nodes -> SUBSET Nodes]
       /\ DOMAIN s.witnesses = 0 .. Cardinality(DOMAIN s.witnesses) - 1
       /\ 0 \in DOMAIN s.witnesses
       /\ \A v \in DOMAIN s.witnesses : s.witnesses[v] \subseteq Nodes
  /\ {MaxLate, MaxCrashes} \subseteq Nat

VARIABLES
  sn,          \* database: last event of the subject, -1 while it is unknown
  head,        \* an event the ledger keeps until it has those before it, or -1
  gov,         \* version of the governance the node has
  entry,       \* database: witness signatures, of one event
  authorised,  \* database: nodes with the subject preauthorised
  needed,      \* channel: events the ledger wants to be distributed
  notices,     \* channel: announcements of the governance not yet read
  task,        \* the message task WITNESS/subject
  up,          \* whether the node runs
  late,        \* network: answers on their way
  delays, crashes,
  scenario

node == <<sn, head, gov, entry, authorised, needed, notices, task, up>>
network == <<late, delays>>
vars == <<node, network, crashes, scenario>>

GetSigners(n) == scenario.witnesses[gov[n]]
Sig(n, s) == [by |-> n, sn |-> s]
Signers(sigs) == {s.by : s \in sigs}
GetTargets(n) == GetSigners(n) \cup {Owner}

Delay(m) ==
  /\ delays < MaxLate
  /\ delays' = delays + 1
  /\ late' = late \cup {m}

SendSwapped(n, s, targets, requested) ==  \* a mutant: the sets are swapped
  task' = [task EXCEPT ![n] = [sn |-> s, to |-> requested, want |-> targets]]

SendSignatureRequest(n, s, targets, requested) ==
  task' = [task EXCEPT ![n] = [sn |-> s, to |-> targets, want |-> requested]]

-----------------------------------------------------------------------------
(* The ledger.                                                              *)

Store(n, s) ==
  /\ sn' = [sn EXCEPT ![n] = s]
  /\ needed' = [needed EXCEPT ![n] = Append(@, s)]

OwnEvent ==
  /\ up[Owner]
  /\ sn[Owner] < scenario.last
  /\ Store(Owner, sn[Owner] + 1)
  /\ UNCHANGED <<head, gov, entry, authorised, notices, task, up, network, crashes>>

GovernanceUpdate(n) ==
  /\ up[n]
  /\ gov[n] + 1 \in DOMAIN scenario.witnesses
  /\ gov' = [gov EXCEPT ![n] = @ + 1]
  /\ notices' = [notices EXCEPT ![n] = @ + 1]
  /\ UNCHANGED <<sn, head, entry, authorised, needed, task, up, network, crashes>>

\* The event after the last one is stored, a later one is kept as the head; a
\* node that is no witness and did not preauthorise the subject takes none.
ExternalEvent(n, s) ==
  /\ LET takes == /\ up[n] /\ head[n] = None /\ s > sn[n]
                  /\ n \in GetSigners(n) \/ n \in authorised
     IN  \/ takes /\ s = sn[n] + 1 /\ Store(n, s) /\ UNCHANGED head
         \/ /\ takes /\ s > sn[n] + 1
            /\ head' = [head EXCEPT ![n] = s]
            /\ UNCHANGED <<sn, needed>>
         \/ ~takes /\ UNCHANGED <<sn, head, needed>>
  /\ UNCHANGED <<gov, entry, authorised, notices, task, up, crashes>>

\* Node n asks p for the last event, and get_lce answers.  It needs the signatures
\* of the event: those of a first event are only with its creator.
AskLce(n, p) ==
  /\ up[p]
  /\ sn[p] >= (IF p = Owner THEN 0 ELSE 1)
  /\ \/ ExternalEvent(n, sn[p]) /\ UNCHANGED network
     \/ Delay([to |-> n, sn |-> sn[p]]) /\ UNCHANGED <<node, crashes>>

\* A node that had nothing gets the events before the head, from the first one.
CatchUp(n) ==
  /\ up[n]
  /\ sn[n] = -1
  /\ head[n] # None /\ head[n] # -1
  /\ Store(n, head[n])
  /\ head' = [head EXCEPT ![n] = None]
  /\ UNCHANGED <<gov, entry, authorised, notices, task, up, network, crashes>>

LedgerStep ==
  \/ OwnEvent
  \/ \E n \in Nodes : GovernanceUpdate(n) \/ CatchUp(n)

-----------------------------------------------------------------------------
(* Preauthorised subjects.                                                  *)

\* The question of new_authorized_subject is that of the next tick.
NewAuthorizedSubject(n) ==
  /\ up[n]
  /\ n \notin authorised
  /\ scenario.providers[n] # {}
  /\ authorised' = authorised \cup {n}
  /\ UNCHANGED <<sn, head, gov, entry, needed, notices, task, up, network, crashes>>

\* ask_for_all, at every tick of the timer; the answer of one provider.
AskForAll(n) ==
  /\ up[n]
  /\ n \in authorised
  /\ \E p \in scenario.providers[n] : AskLce(n, p)

AuthorizedSubjectsStep == \E n \in Nodes : NewAuthorizedSubject(n) \/ AskForAll(n)

-----------------------------------------------------------------------------
(* The distribution.                                                        *)

StartDistribution(n) ==
  /\ up[n]
  /\ needed[n] # <<>>
  /\ LET s == Head(needed[n])
         targets == GetTargets(n) \ {n}
     IN  /\ entry' = [entry EXCEPT ![n] = [sn |-> s, sigs |-> {Sig(n, s)}]]
         /\ IF targets = {} THEN UNCHANGED task
            ELSE SendSignatureRequest(n, s, targets, targets)
  /\ needed' = [needed EXCEPT ![n] = Tail(@)]
  /\ UNCHANGED <<sn, head, gov, authorised, notices, up, network, crashes>>

SignaturesReceivedLate(n, s, sigs) ==  \* a mutant: the event is not compared
  /\ LET targets == GetTargets(n)
         all == entry[n].sigs \cup sigs
         remaining == (targets \ {n}) \ Signers(all)
     IN  IF up[n] /\ entry[n] # None /\ Signers(sigs) \subseteq targets
         THEN /\ entry' = [entry EXCEPT ![n].sigs = all]
              /\ IF remaining = {} THEN task' = [task EXCEPT ![n] = None]
                 ELSE SendSignatureRequest(n, s, (targets \ {n}) \cup {Owner}, remaining)
         ELSE UNCHANGED <<entry, task>>
  /\ UNCHANGED <<sn, head, gov, authorised, needed, notices, up, crashes>>

\* One signer that is not a witness for us refuses all the signatures.
SignaturesReceived(n, s, sigs) ==
  /\ LET targets == GetTargets(n)
         all == entry[n].sigs \cup sigs
         remaining == (targets \ {n}) \ Signers(all)
     IN  IF /\ up[n] /\ entry[n] # None /\ entry[n].sn = s
            /\ Signers(sigs) \subseteq targets
            /\ \A x \in sigs : x.sn = s
         THEN /\ entry' = [entry EXCEPT ![n] = [sn |-> s, sigs |-> all]]
              /\ IF remaining = {} THEN task' = [task EXCEPT ![n] = None]
                 ELSE SendSignatureRequest(n, s, (targets \ {n}) \cup {Owner}, remaining)
         ELSE UNCHANGED <<entry, task>>
  /\ UNCHANGED <<sn, head, gov, authorised, needed, notices, up, crashes>>

\* A node that was asked answers with the signatures it has, or asks back for the
\* event when it does not have it.
GiveSignatures(n, m) ==
  LET sigs == {s \in entry[m].sigs : s.by \in task[n].want}
  IN  /\ entry[m] # None /\ entry[m].sn = task[n].sn
      /\ \/ SignaturesReceived(n, task[n].sn, sigs) /\ UNCHANGED network
         \/ /\ Delay([to |-> n, sn |-> task[n].sn, sigs |-> sigs])
            /\ UNCHANGED <<node, crashes>>

ProvideSignaturesOnly(n, m) ==  \* a mutant: the last event is not asked for
  GiveSignatures(n, m)

ProvideSignatures(n, m) ==
  \/ GiveSignatures(n, m)
  \/ /\ entry[m] # None => task[n].sn > entry[m].sn
     /\ AskLce(m, n)

\* The task of n asks m.
Tick(n, m) ==
  /\ up[n] /\ up[m]
  /\ task[n] # None
  /\ m \in task[n].to
  /\ ProvideSignatures(n, m)

LateAnswer(m) ==
  /\ late' = late \ {m}
  /\ UNCHANGED delays
  /\ IF "sigs" \in DOMAIN m THEN SignaturesReceived(m.to, m.sn, m.sigs)
     ELSE ExternalEvent(m.to, m.sn)

\* The tasks and the channels go with the process; the message tasks and
\* restart_distribution make new ones.
Stop(n) ==
  /\ up' = [up EXCEPT ![n] = FALSE]
  /\ task' = [task EXCEPT ![n] = None]
  /\ needed' = [needed EXCEPT ![n] = <<>>]

\* A subject that the ledger knows and that has no signatures yet is an error,
\* which stops the node.
GovernanceUpdated(n) ==
  /\ up[n]
  /\ notices[n] > 0
  /\ LET targets == GetTargets(n)
         remaining == targets \ Signers(entry[n].sigs)
     IN  \/ /\ sn[n] = -1 \/ n \notin targets
            /\ entry' = [entry EXCEPT ![n] = None]
            /\ notices' = [notices EXCEPT ![n] = @ - 1]
            /\ UNCHANGED <<needed, task, up>>
         \/ /\ sn[n] # -1 /\ n \in targets /\ entry[n] # None
            /\ IF remaining = {} THEN UNCHANGED task
               ELSE SendSignatureRequest(n, sn[n], targets, remaining)
            /\ notices' = [notices EXCEPT ![n] = @ - 1]
            /\ UNCHANGED <<entry, needed, up>>
         \/ /\ sn[n] # -1 /\ n \in targets /\ entry[n] = None
            /\ Stop(n)
            /\ notices' = [notices EXCEPT ![n] = 0]
            /\ UNCHANGED entry
  /\ UNCHANGED <<sn, head, gov, authorised, network, crashes>>

DistributionStep ==
  \/ \E n \in Nodes : StartDistribution(n) \/ GovernanceUpdated(n)
  \/ \E n, m \in Nodes : Tick(n, m)
  \/ \E m \in late : LateAnswer(m)

-----------------------------------------------------------------------------
(* Faults.                                                                  *)

\* A head without any event before it is not found again.
Crash(n) ==
  /\ up[n]
  /\ crashes < MaxCrashes
  /\ crashes' = crashes + 1
  /\ Stop(n)
  /\ notices' = [notices EXCEPT ![n] = 0]
  /\ head' = [head EXCEPT ![n] = IF sn[n] = -1 /\ @ # None THEN -1 ELSE @]
  /\ UNCHANGED <<sn, gov, entry, authorised, network>>

\* init: only the signatures of the last event are taken up again.
Restart(n) ==
  /\ ~up[n]
  /\ up' = [up EXCEPT ![n] = TRUE]
  /\ LET targets == GetTargets(n)
         remaining == (targets \ {n}) \ Signers(entry[n].sigs)
     IN  IF entry[n] = None \/ entry[n].sn # sn[n] THEN UNCHANGED <<entry, task>>
         ELSE IF n \notin targets
              THEN entry' = [entry EXCEPT ![n] = None] /\ UNCHANGED task
         ELSE /\ UNCHANGED entry
              /\ IF remaining = {} THEN UNCHANGED task
                 ELSE SendSignatureRequest(n, sn[n], targets \ {n}, remaining)
  /\ UNCHANGED <<sn, head, gov, authorised, needed, notices, network, crashes>>

FaultStep == \E n \in Nodes : Crash(n) \/ Restart(n)

-----------------------------------------------------------------------------
Init ==
  /\ sn = [n \in Nodes |-> -1]
  /\ head = [n \in Nodes |-> None]
  /\ gov = [n \in Nodes |-> 0]
  /\ entry = [n \in Nodes |-> None]
  /\ authorised = {}
  /\ needed = [n \in Nodes |-> <<>>]
  /\ notices = [n \in Nodes |-> 0]
  /\ task = [n \in Nodes |-> None]
  /\ up = [n \in Nodes |-> TRUE]
  /\ late = {} /\ delays = 0 /\ crashes = 0
  /\ scenario \in Scenarios

Next ==
  /\ LedgerStep \/ AuthorizedSubjectsStep \/ DistributionStep \/ FaultStep
  /\ UNCHANGED scenario

\* Every tick of a task draws its targets at random, so that each one is asked
\* again and again; the loops of the managers go on.  Nothing makes a late answer
\* arrive, a node restart or an event come.
Fairness ==
  /\ \A n \in Nodes :
       /\ WF_vars(StartDistribution(n) /\ UNCHANGED scenario)
       /\ WF_vars(GovernanceUpdated(n) /\ UNCHANGED scenario)
       /\ WF_vars(AskForAll(n) /\ UNCHANGED <<network, scenario>>)
  /\ \A n, m \in Nodes : WF_vars(Tick(n, m) /\ UNCHANGED <<network, scenario>>)

Spec == Init /\ [][Next]_vars /\ Fairness

-----------------------------------------------------------------------------
(* Properties.                                                              *)

TypeOK ==
  \A n \in Nodes :
    /\ sn[n] \in -1 .. sn[Owner]
    /\ entry[n] # None => entry[n].sn \in 0 .. sn[n]
    /\ task[n] # None => /\ up[n] /\ task[n].sn \in 0 .. sn[n]
                         /\ task[n].want \subseteq task[n].to /\ task[n].to \subseteq Nodes

\* The signatures that set_witness_signatures keeps for an event are signatures
\* of this event, by nodes that have it, whatever answers come late.
SignaturesOfEvent ==
  \A n \in Nodes : entry[n] # None =>
    \A s \in entry[n].sigs : s.sn = entry[n].sn /\ sn[s.by] >= s.sn

\* A node with the last event whose distribution is not under way and will not
\* be: the event was handed over to a process that stopped, or the signatures
\* were deleted while the node was no witness.
Stranded(n) ==
  /\ sn[n] = sn[Owner]
  /\ needed[n] = <<>>
  /\ entry[n] = None \/ entry[n].sn # sn[n]

AllReady ==
  /\ sn[Owner] >= 0
  /\ \A n \in Nodes : up[n] /\ head[n] = None /\ gov[n] = gov[Owner]
  /\ \A n \in GetTargets(Owner) : ~Stranded(n)

AllSigned ==
  /\ \A n \in authorised : sn[n] = sn[Owner]
  /\ \A n \in GetTargets(Owner) :
       /\ sn[n] = sn[Owner]
       /\ entry[n] # None /\ Signers(entry[n].sigs) = GetTargets(Owner)
       /\ task[n] = None

\* Once the nodes stay up with one version of the governance, send_signature_request
\* brings the last event and the signatures of all to every witness, and the
\* asking stops, whatever answers were lost.  Nodes more than one event behind
\* and stranded nodes are excepted.
Distributed == <>[](AllReady => AllSigned)

\* The error "Not Found" of governance_updated does not stop a node.
NodesKeepRunning == \A n \in Nodes : ~up[n] => crashes > 0
=============================================================================
