-------------------------------- MODULE Ledger --------------------------------
(***************************************************************************)
(* The Ledger of a node that does not own a subject and follows it         *)
(* (core/src/ledger: external_event, external_intermediate_event, init).   *)
(*                                                                         *)
(* Events come with a validation proof signed by the validators ("external *)
(* events") or alone ("intermediate events").  An external event that is   *)
(* next is applied.  One further ahead is kept as the head (LCE, last      *)
(* confirmed event) and the gap below it is filled with intermediate       *)
(* events, which only the chain of hashes up to the proof of the head      *)
(* vouches for.  The events of a governance are applied one by one.        *)
(*                                                                         *)
(* The network delivers in any order and any number of times.  Module      *)
(* Validation proves that there is one certified event for each sequence   *)
(* number: chain is what was certified, and its proofs are the only ones   *)
(* with enough signatures.  Honest senders send these events, an external  *)
(* one with its own proof (get_lce and get_next_gov read both from the     *)
(* database).  Other senders send any event, also another first one of the *)
(* same subject, and an external event with the proof of another.  A       *)
(* message that is refused without a trace is no step.                     *)
(*                                                                         *)
(* Abstractions.  All state is kept per subject; one subject is modelled.  *)
(* A hash is an identifier of its own.  The identifier of the subject      *)
(* fixes the key of its first event, not the event: generate_subject_id    *)
(* hashes neither its signer nor its name.  The state of the subject is    *)
(* one value, which the patch of a fact overwrites.  The node may stop     *)
(* between two writes of the next event; other handlers run to their end.  *)
(***************************************************************************)
EXTENDS Integers, FiniteSets

CONSTANTS
  Chains,      \* sequences of certified events, from sequence number 0 on
  Others,      \* events that are not certified in any of them
  Us,          \* the node
  Invokers,    \* signers the governance lets invoke facts
  States,      \* states of the subject
  FirstState,  \* the initial state of its schema
  OurKeys,     \* public keys the node generated to receive the subject
  MaxCrashes,  \* bound on the crashes of the node
  None

Last(c) == Cardinality(DOMAIN c) - 1
Certified == UNION {{c[n] : n \in DOMAIN c} : c \in Chains}
Events == Certified \cup Others
Kinds == {"create", "fact", "transfer", "eol"}

ASSUME LedgerAssumption ==
  /\ MaxCrashes \in Nat
  /\ \A c \in Chains :
       /\ Last(c) \in Nat /\ DOMAIN c = 0 .. Last(c)
       /\ c[0].signer # Us
       /\ \A n \in DOMAIN c :
            /\ c[n].sn = n
            /\ n = 0 <=> c[n].kind = "create"
            /\ n > 0 => c[n].prev = c[n - 1].id
            /\ c[n].kind \in {"create", "transfer", "eol"} => c[n].approved
  /\ \A e \in Others :
       /\ e.sn \in Nat /\ e.kind \in Kinds
       /\ e.kind = "create" <=> e.sn = 0
       /\ e.kind = "create" => e.signer # Us
  /\ \A e \in Others : e.kind \in {"transfer", "eol"} => e.approved
  /\ \A e, f \in Events : e.id = f.id => e = f
  /\ \A e \in Events : e.kind \in Kinds /\ (e.kind = "fact" /\ e.approved => e.new \in States)
  /\ FirstState \in States

VARIABLES
  subject,   \* database: the subject, None while its genesis is unknown
  events,    \* database: sequence number -> event
  sigs,      \* database: sequence numbers with validation signatures
  lceProof,  \* database: the validation proof of the head
  known,     \* database: finished requests
  keys,      \* database: our keys that wait for a transfer
  pending,   \* database: events whose approval request is pending here
  refused,   \* history: was a head refused, with the subject saved before?
  overwritten, \* history: was a head lost to an event of its own number?
  ledger,    \* ledger_state: None, or current_sn and head
  asked,     \* sequence number last asked for
  announced, \* sequence number last handed to the distribution
  mode,      \* "up", "down", or "failed": init returns an error
  crashes,
  chain,     \* the certified events of the subject
  isGov,     \* is the subject a governance?
  honest,    \* do the other nodes send certified events only?
  allowed    \* is the node a witness, or has it preauthorised the subject?

db == <<subject, events, sigs, lceProof, known, keys, pending, refused, overwritten>>
memory == <<ledger, asked, announced>>
scenario == <<chain, isGov, honest>>
vars == <<db, memory, mode, crashes, scenario, allowed>>

Put(f, x, y) == [z \in DOMAIN f \cup {x} |-> IF z = x THEN y ELSE f[z]]
Drop(f, x) == [z \in DOMAIN f \ {x} |-> f[z]]

-----------------------------------------------------------------------------
(* Subject::from_genesis_event.                                            *)
FromGenesisEvent(e) ==
  [sn |-> 0, owner |-> e.signer, creator |-> e.signer, key |-> e.key,
   hasKeys |-> FALSE, state |-> FirstState, active |-> TRUE]

(* Subject::update_subject, transfer_subject and eol_event.                *)
UpdateSubject(s, e) == [s EXCEPT !.sn = e.sn, !.state = e.new]
TransferSubject(s, e) ==
  [s EXCEPT !.sn = e.sn, !.owner = e.signer, !.key = e.key,
            !.hasKeys = (e.signer = Us)]
EolEvent(s) == [s EXCEPT !.active = FALSE]

(* What the subject is after the certified events up to n.                 *)
Replay(before, e) ==
  LET s == [before EXCEPT !.sn = e.sn]
  IN IF ~ e.approved THEN s
     ELSE IF e.kind = "fact" THEN [s EXCEPT !.state = e.new]
     ELSE IF e.kind = "eol" THEN [s EXCEPT !.active = FALSE]
     ELSE [s EXCEPT !.owner = e.signer, !.key = e.key, !.hasKeys = (e.signer = Us)]
Replayed(c) ==
  LET after[n \in DOMAIN c] ==
        IF n = 0 THEN FromGenesisEvent(c[0]) ELSE Replay(after[n - 1], c[n])
  IN after

(* The proofs that enough validators signed.                               *)
ProofOf(c, n) ==
  [sn |-> n, prev |-> c[n].prev, event |-> c[n].id, key |-> Replayed(c)[n].key]
Proofs == {ProofOf(chain, n) : n \in 1 .. Last(chain)}

(* The values that are stored, and None, which is none of them.            *)
Subjects ==
  [sn : Nat, owner : {e.signer : e \in Events}, key : {e.key : e \in Events},
   creator : {e.signer : e \in Events}, hasKeys : BOOLEAN, state : States,
   active : BOOLEAN]
LedgerStates == [current : Nat \cup {None}, head : Nat \cup {None}]

ASSUME NoneAssumption ==
  /\ None \notin Nat /\ None \notin Subjects /\ None \notin LedgerStates
  /\ \A c \in Chains : \A n \in 1 .. Last(c) : ProofOf(c, n) # None

(* check_validation_proof for the event e after subject s.                 *)
CheckValidationProof(p, s, evs, e) ==
  /\ p.sn = s.sn + 1
  /\ s.sn \in DOMAIN evs /\ p.prev = evs[s.sn].id
  /\ p.event = e.id
  /\ p.key = IF e.kind = "transfer" THEN e.key ELSE s.key

(* check_event: the evaluations are of this subject in its present state.  *)
CheckEvent(e, s) ==
  e.kind = "fact" => e.on = s.state /\ e.byOwner = (e.signer = s.owner)

\* Mutant: a transfer to us is taken without a key for it.
TransferUnexpected(e) == TRUE

(* A transfer to us is only taken with a key that we generated for it,     *)
(* which then moves into the subject.                                      *)
Expected(e) == e.signer = Us => e.key \in keys
KeysAfter(e) ==
  IF e.kind = "transfer" /\ e.signer = Us THEN keys \ {e.key} ELSE keys

\* Mutant: an event is sourced whatever event it follows.
SourceAnyHash(e, s, prev) ==
  /\ ~ e.approved => e.sn = s.sn + 1
  /\ e.approved /\ e.kind = "transfer" => Expected(e)

(* event_sourcing: whether event e follows prev, and what it does to s.    *)
CanSource(e, s, prev) ==
  /\ e.prev = prev.id
  /\ ~ e.approved => e.sn = s.sn + 1
  /\ e.approved /\ e.kind = "transfer" => Expected(e)

Sourced(e, s) ==
  IF ~ e.approved THEN [s EXCEPT !.sn = e.sn]
  ELSE CASE e.kind = "fact" -> UpdateSubject(s, e)
         [] e.kind = "transfer" -> TransferSubject(s, e)
         [] e.kind = "eol" -> EolEvent(s)

-----------------------------------------------------------------------------
Init ==
  /\ chain \in Chains /\ isGov \in BOOLEAN /\ honest \in BOOLEAN
  /\ subject = None /\ events = [n \in {} |-> None] /\ sigs = {}
  /\ lceProof = None /\ known = {} /\ keys = OurKeys
  /\ pending = {e \in Events : e.kind = "fact"}
  /\ ledger = None /\ asked = None /\ announced = None
  /\ mode = "up" /\ crashes = 0 /\ allowed = TRUE
  /\ refused = FALSE /\ overwritten = FALSE

(* Every handler first refuses an event whose request it has seen.         *)
Fresh(e) == mode = "up" /\ e.req \notin known
Finish(e) == known' = known \cup {e.req}

Unchanged == UNCHANGED <<mode, crashes, scenario, allowed>>

(* check_genesis: the first event makes the subject.                       *)
CheckGenesis(e) ==
  /\ e.kind = "create"
  /\ events' = Put(events, 0, e)
  /\ Finish(e)

(* external_event for a create request.                                    *)
ExternalCreate(e) ==
  /\ Fresh(e) /\ e.kind = "create" /\ subject = None /\ allowed
  /\ CheckGenesis(e)
  /\ subject' = FromGenesisEvent(e)
  /\ ledger' = [current |-> 0, head |-> IF ledger = None THEN None ELSE ledger.head]
  /\ announced' = 0
  /\ Unchanged /\ UNCHANGED <<sigs, lceProof, keys, pending, refused, overwritten, asked>>

(* The tests of external_event before the signatures are verified, for a   *)
(* subject with a genesis.                                                 *)
Ahead(e) ==
  /\ Fresh(e) /\ ledger # None /\ ledger.current # None
  /\ e.sn > ledger.current
  /\ subject.active
MayTransfer(e) == e.kind = "transfer" /\ allowed
MayInvoke(e) ==
  /\ e.kind = "fact" /\ allowed
  /\ subject.owner = e.signer \/ e.signer \in Invokers
  /\ CheckEvent(e, subject)
MayClose(e) == e.kind = "eol" /\ allowed /\ subject.creator = e.signer

IsNext(e) == e.sn = subject.sn + 1 /\ ledger.head = None

AfterNext(e) ==
  CASE e.kind = "transfer" -> TransferSubject(subject, e)
    [] e.kind = "fact" -> IF e.approved THEN UpdateSubject(subject, e)
                          ELSE [subject EXCEPT !.sn = e.sn]
    [] e.kind = "eol" -> EolEvent([subject EXCEPT !.sn = e.sn])

NextTransfer(e) == Ahead(e) /\ MayTransfer(e) /\ Expected(e)
NextFact(e) == Ahead(e) /\ MayInvoke(e)
NextEol(e) == Ahead(e) /\ MayClose(e)
MayStoreNext(e) ==
  /\ NextTransfer(e) \/ NextFact(e) \/ NextEol(e)
  /\ IsNext(e)
  /\ CheckValidationProof(ProofOf(chain, e.sn), subject, events, e)

(* The next event: it is applied, and the signatures of the event before   *)
(* are dropped.  After an event of a governance the next one is asked for, *)
(* and an approval request for a fact is obsolete.                         *)
StoreNext(e) ==
  /\ MayStoreNext(e)
  /\ subject' = AfterNext(e)
  /\ events' = Put(events, e.sn, e)
  /\ sigs' = (sigs \cup {e.sn}) \ (IF isGov THEN {} ELSE {e.sn - 1})
  /\ keys' = KeysAfter(e)
  /\ Finish(e)
  /\ pending' = IF e.kind = "fact" THEN pending \ {e} ELSE pending
  /\ ledger' = [current |-> e.sn, head |-> None]
  /\ asked' = IF isGov THEN e.sn + 1 ELSE asked
  /\ announced' = e.sn
  /\ Unchanged /\ UNCHANGED <<lceProof, refused, overwritten>>

(* The database is written in the order signatures, request, event,        *)
(* subject, key; the node stops after the first n writes.                  *)
StopsInNext(e, n) ==
  /\ crashes < MaxCrashes
  /\ MayStoreNext(e)
  /\ sigs' = sigs \cup {e.sn}
  /\ IF n >= 2 THEN Finish(e) ELSE UNCHANGED known
  /\ events' = IF n >= 3 THEN Put(events, e.sn, e) ELSE events
  /\ subject' = IF n >= 4 THEN AfterNext(e) ELSE subject
  /\ keys' = IF n >= 5 THEN KeysAfter(e) ELSE keys
  /\ mode' = "down" /\ crashes' = crashes + 1
  /\ ledger' = None /\ asked' = None /\ announced' = None
  /\ UNCHANGED <<lceProof, pending, refused, overwritten, scenario, allowed>>

\* Mutant: the signatures and the event deleted are those of the subject.
StoreLceOverSubject(e, p) ==
  /\ ~ IsNext(e) /\ e.sn > subject.sn /\ ~ isGov
  /\ ledger.head # None => e.sn <= ledger.head
  /\ events' = Drop(Put(events, e.sn, e), subject.sn)
  /\ sigs' = (sigs \cup {e.sn}) \ {subject.sn}
  /\ lceProof' = p
  /\ Finish(e)
  /\ ledger' = [ledger EXCEPT !.head = e.sn]
  /\ asked' = 0
  /\ overwritten' = (overwritten \/ e.sn = ledger.head)
  /\ Unchanged /\ UNCHANGED <<subject, keys, refused, announced>>

\* Mutant: the proof of the head before is kept.
StoreLceOldProof(e, p) ==
  /\ ~ IsNext(e) /\ e.sn > subject.sn /\ ~ isGov
  /\ ledger.head # None => e.sn <= ledger.head
  /\ events' = IF ledger.head = None THEN Put(events, e.sn, e)
               ELSE Drop(Put(events, e.sn, e), ledger.head)
  /\ sigs' = (sigs \cup {e.sn})
               \ {IF ledger.head = None THEN subject.sn ELSE ledger.head}
  /\ lceProof' = IF lceProof = None THEN p ELSE lceProof
  /\ Finish(e)
  /\ ledger' = [ledger EXCEPT !.head = e.sn]
  /\ asked' = 0
  /\ overwritten' = (overwritten \/ e.sn = ledger.head)
  /\ Unchanged /\ UNCHANGED <<subject, keys, refused, announced>>

(* An event further ahead becomes the head, in the place of a higher one;  *)
(* nobody asks whether the proof p is that of the event.  The event of the *)
(* head before is deleted, also when it has just been replaced by one of   *)
(* its own number.                                                         *)
StoreLce(e, p) ==
  /\ ~ IsNext(e) /\ e.sn > subject.sn /\ ~ isGov
  /\ ledger.head # None => e.sn <= ledger.head
  /\ events' = IF ledger.head = None THEN Put(events, e.sn, e)
               ELSE Drop(Put(events, e.sn, e), ledger.head)
  /\ sigs' = (sigs \cup {e.sn})
               \ {IF ledger.head = None THEN subject.sn ELSE ledger.head}
  /\ lceProof' = p
  /\ Finish(e)
  /\ ledger' = [ledger EXCEPT !.head = e.sn]
  /\ asked' = 0
  /\ overwritten' = (overwritten \/ e.sn = ledger.head)
  /\ Unchanged /\ UNCHANGED <<subject, keys, refused, announced>>

LceTransfer(e, p) ==
  Ahead(e) /\ MayTransfer(e) /\ StoreLce(e, p) /\ UNCHANGED pending
LceFact(e, p) ==
  Ahead(e) /\ MayInvoke(e) /\ StoreLce(e, p) /\ pending' = pending \ {e}
LceEol(e, p) ==
  /\ Ahead(e) /\ MayClose(e) /\ ledger.head = None
  /\ StoreLce(e, p) /\ UNCHANGED pending

(* Of a governance only the next event is taken; of a later one the ledger *)
(* learns that there is more to ask for.                                   *)
AskGovernance(sn) ==
  /\ isGov
  /\ asked' = sn
  /\ Unchanged /\ UNCHANGED <<db, ledger, announced>>
GovernanceGap(e) ==
  /\ Ahead(e) /\ e.sn > subject.sn + 1
  /\ \/ MayTransfer(e)
     \/ e.kind = "fact"
     \/ e.kind = "eol" /\ subject.creator = e.signer
  /\ AskGovernance(subject.sn + 1)
GovernanceUnknown(e) ==
  /\ Fresh(e) /\ e.kind # "create" /\ ledger = None
  /\ AskGovernance(0)

(* An event of a subject nothing is known of: it is kept as the head with  *)
(* the proof p it came with, and the first event is asked for.             *)
FirstLce(e, p) ==
  /\ Fresh(e) /\ ledger = None /\ ~ isGov /\ allowed
  /\ events' = Put(events, e.sn, e)
  /\ sigs' = sigs \cup {e.sn}
  /\ lceProof' = p
  /\ Finish(e)
  /\ ledger' = [current |-> None, head |-> e.sn]
  /\ asked' = 0
  /\ Unchanged /\ UNCHANGED <<subject, keys, pending, refused, overwritten, announced>>
FirstLceTransfer(e, p) == e.kind = "transfer" /\ FirstLce(e, p)
FirstLceFact(e, p) == e.kind = "fact" /\ FirstLce(e, p)
FirstLceEol(e, p) == e.kind = "eol" /\ FirstLce(e, p)

-----------------------------------------------------------------------------
\* Mutant: the event is stored at current_sn, and not after it.
StoreIntermediateAtCurrent(e) ==
  /\ Fresh(e) /\ e.kind \in {"fact", "transfer"}
  /\ ledger # None /\ ledger.head # None /\ ledger.current # None
  /\ e.sn = ledger.current + 1
  /\ CheckEvent(e, subject)
  /\ events' = Put(events, ledger.current, e)
  /\ Finish(e)
  /\ pending' = pending \ {e}
  /\ overwritten' = (overwritten \/ e.sn = ledger.head)
  /\ Unchanged /\ UNCHANGED sigs

(* external_intermediate_event for a subject with a genesis and a head:    *)
(* the event after current_sn is stored before it is tested against the    *)
(* chain of hashes, also over a head with its number.                      *)
StoreIntermediate(e) ==
  /\ Fresh(e) /\ e.kind \in {"fact", "transfer"}
  /\ ledger # None /\ ledger.head # None /\ ledger.current # None
  /\ e.sn = ledger.current + 1
  /\ CheckEvent(e, subject)
  /\ events' = Put(events, e.sn, e)
  /\ Finish(e)
  /\ pending' = pending \ {e}
  /\ overwritten' = (overwritten \/ e.sn = ledger.head)
  /\ Unchanged /\ UNCHANGED sigs

(* The head may be applied to subject s: its proof fits and its hash too.  *)
HeadFits(s, evs) ==
  /\ ledger.head \in DOMAIN evs /\ lceProof # None
  /\ CheckValidationProof(lceProof, s, evs, evs[ledger.head])
  /\ CanSource(evs[ledger.head], s, evs[ledger.head - 1])

(* The gap below the head is closed: head and all are applied.             *)
ApplyHead(s, evs) ==
  /\ HeadFits(s, evs)
  /\ subject' = Sourced(evs[ledger.head], s)
  /\ ledger' = [current |-> ledger.head, head |-> None]
  /\ lceProof' = None
  /\ announced' = ledger.head
  /\ UNCHANGED <<refused, asked>>

(* The head does not fit the events below it: an error is returned, after  *)
(* the subject was saved.                                                  *)
RefuseHead(s, evs) ==
  /\ ~ HeadFits(s, evs)
  /\ subject' = s
  /\ refused' = TRUE
  /\ UNCHANGED <<ledger, lceProof, announced, asked>>

IntermediateEvent(e) ==
  /\ StoreIntermediate(e)
  /\ CanSource(e, subject, events[e.sn - 1])
  /\ ledger.head # ledger.current + 2
  /\ subject' = Sourced(e, subject)
  /\ keys' = KeysAfter(e)
  /\ ledger' = [ledger EXCEPT !.current = e.sn]
  /\ asked' = e.sn + 1
  /\ UNCHANGED <<lceProof, refused, announced>>

IntermediateBelowHead(e) ==
  /\ StoreIntermediate(e)
  /\ CanSource(e, subject, events[e.sn - 1])
  /\ ledger.head = ledger.current + 2
  /\ LET s == Sourced(e, subject)
     IN \/ /\ ApplyHead(s, events')
           /\ keys' = KeysAfter(e) \cap KeysAfter(events[ledger.head])
        \/ RefuseHead(s, events') /\ keys' = KeysAfter(e)

IntermediateUnsourced(e) ==
  /\ StoreIntermediate(e)
  /\ ~ CanSource(e, subject, events[e.sn - 1])
  /\ UNCHANGED <<subject, keys, refused, ledger, lceProof, announced, asked>>

(* ... and for the first event of a subject of which only the head is known.*)
IntermediateGenesis(e) ==
  /\ Fresh(e)
  /\ ledger # None /\ ledger.head # None /\ ledger.current = None
  /\ CheckGenesis(e)
  /\ LET s == FromGenesisEvent(e)
     IN \/ /\ ledger.head # 1
           /\ subject' = s
           /\ ledger' = [ledger EXCEPT !.current = 0]
           /\ asked' = 1
           /\ UNCHANGED <<keys, lceProof, refused, announced>>
        \/ /\ ledger.head = 1
           /\ ApplyHead(s, events')
           /\ keys' = KeysAfter(events[1])
        \/ /\ ledger.head = 1
           /\ RefuseHead(s, events')
           /\ UNCHANGED keys
  /\ Unchanged /\ UNCHANGED <<sigs, pending, overwritten>>

-----------------------------------------------------------------------------
(* The node stops and forgets ledger_state.                                *)
Crash ==
  /\ mode = "up" /\ crashes < MaxCrashes
  /\ mode' = "down" /\ crashes' = crashes + 1
  /\ ledger' = None /\ asked' = None /\ announced' = None
  /\ UNCHANGED <<db, scenario, allowed>>

(* init: ledger_state is rebuilt from the last two events in the database. *)
LastEvent == CHOOSE n \in DOMAIN events : \A m \in DOMAIN events : m <= n
PreLastEvent ==
  CHOOSE n \in DOMAIN events \ {LastEvent} :
    \A m \in DOMAIN events \ {LastEvent} : m <= n
Single == Cardinality(DOMAIN events) = 1
Adjacent == LastEvent = PreLastEvent + 1

\* Mutant: the subject is not compared with its events.
AnySnInSubject == FALSE

WrongSnInSubject ==
  subject.sn # IF Adjacent THEN LastEvent ELSE PreLastEvent

Restarted(l) ==
  /\ mode = "down" /\ mode' = "up"
  /\ ledger' = l
  /\ UNCHANGED <<db, asked, announced, crashes, scenario, allowed>>
StartWithoutSubject == subject = None /\ Restarted(None)
StartWithGenesis ==
  /\ subject # None /\ Single
  /\ Restarted([current |-> 0, head |-> None])
StartUpToDate ==
  /\ subject # None /\ ~ Single /\ ~ WrongSnInSubject /\ Adjacent
  /\ Restarted([current |-> LastEvent, head |-> None])
StartWithHead ==
  /\ subject # None /\ ~ Single /\ ~ WrongSnInSubject /\ ~ Adjacent
  /\ Restarted([current |-> PreLastEvent, head |-> LastEvent])
StartFails ==
  /\ mode = "down" /\ subject # None /\ ~ Single /\ WrongSnInSubject
  /\ mode' = "failed"
  /\ UNCHANGED <<db, memory, crashes, scenario, allowed>>

(* The governance names other witnesses, or the user preauthorises.        *)
WitnessesChange ==
  /\ allowed' = ~ allowed
  /\ UNCHANGED <<db, memory, mode, crashes, scenario>>

-----------------------------------------------------------------------------
(* What is sent, and the proofs external events come with.                 *)
Sent == {chain[n] : n \in DOMAIN chain} \cup (IF honest THEN {} ELSE Others)
ProofsWith(e) == IF honest THEN {p \in Proofs : p.event = e.id} ELSE Proofs

ExternalEvent(e) ==
  \/ ExternalCreate(e)
  \/ GovernanceGap(e) \/ GovernanceUnknown(e)
  \/ \E p \in ProofsWith(e) :
       \/ LceTransfer(e, p) \/ LceFact(e, p) \/ LceEol(e, p)
       \/ FirstLceTransfer(e, p) \/ FirstLceFact(e, p) \/ FirstLceEol(e, p)

ExternalIntermediateEvent(e) ==
  \/ IntermediateEvent(e) \/ IntermediateBelowHead(e) \/ IntermediateUnsourced(e)
  \/ IntermediateGenesis(e)

LedgerInit ==
  \/ StartWithoutSubject \/ StartWithGenesis \/ StartUpToDate \/ StartWithHead
  \/ StartFails

(* The next event is only taken with its own proof: it is certified.       *)
Next ==
  \/ \E e \in Sent : ExternalEvent(e) \/ ExternalIntermediateEvent(e)
  \/ \E n \in 1 .. Last(chain) :
       StoreNext(chain[n]) \/ \E w \in 1 .. 5 : StopsInNext(chain[n], w)
  \/ Crash \/ LedgerInit \/ WitnessesChange

Spec == Init /\ [][Next]_vars

-----------------------------------------------------------------------------
TypeOK ==
  /\ subject \in Subjects \cup {None}
  /\ DOMAIN events \subseteq Nat
  /\ \A n \in DOMAIN events : events[n] \in Events /\ events[n].sn = n
  /\ sigs \subseteq Nat
  /\ lceProof \in Proofs \cup {None}
  /\ known \subseteq {e.req : e \in Events}
  /\ keys \subseteq OurKeys
  /\ pending \subseteq Events
  /\ ledger \in LedgerStates \cup {None}
  /\ asked \in Nat \cup {None} /\ announced \in Nat \cup {None}
  /\ mode \in {"up", "down", "failed"} /\ crashes \in 0 .. MaxCrashes
  /\ chain \in Chains /\ {isGov, honest, allowed, refused, overwritten} \subseteq BOOLEAN

UpToDate == ledger # None /\ ledger.head = None

(* What a lost head hides: the next start finds no gap, and takes the      *)
(* events below it, which nobody vouched for, for the last word.           *)
HeadForgotten == overwritten /\ crashes > 0

(* A node that takes itself for up to date holds exactly the certified     *)
(* events, although it filled its gaps with events nobody vouched for,     *)
(* stored them before it tested them, took heads with the proof of another *)
(* event and was restarted in between (ledger.rs external_event,           *)
(* external_intermediate_event, init).  Two exceptions are the code's: a   *)
(* first event alone may be another one with the same key, for which       *)
(* check_genesis asks no signature, and a head may be lost.                *)
UpToDateIsCertified ==
  UpToDate /\ ~ HeadForgotten =>
    \A n \in 0 .. ledger.current :
      n \in DOMAIN events /\ (events[n] = chain[n] \/ ledger.current = 0)

(* The subject a node reports when up to date is what the certified events *)
(* make of it: sequence number, owner, key, state and life, however they   *)
(* came.  Not so once a head was refused because of an event that nobody   *)
(* certified: that one stays applied, and the certified event that takes   *)
(* its place is applied after it.  A subject whose end of life came as a   *)
(* head is one number behind: event_sourcing_eol does not advance it       *)
(* (ledger.rs external_event, event_sourcing).                             *)
OneBehind(s, r) == ~ r.active /\ [s EXCEPT !.sn = @ + 1] = r
SubjectIsReplay ==
  /\ UpToDate /\ ~ HeadForgotten /\ (honest \/ ~ refused)
  /\ events[ledger.current] = chain[ledger.current]
  => LET r == Replayed(chain)[ledger.current]
     IN subject = r \/ OneBehind(subject, r)

(* While events are missing below the head, the head and a proof are at    *)
(* hand, also after a restart: without them the gap is never closed.  What *)
(* honest senders sent is the proof of the head.  A second restart can     *)
(* bring back a head that the first one had forgotten, without its proof   *)
(* (ledger.rs external_event, init).                                       *)
GapBelowHead ==
  /\ mode = "up" /\ ledger # None /\ ledger.head # None
  /\ ledger.current = None \/ ledger.head > ledger.current + 1
HeadIsKept ==
  GapBelowHead /\ crashes <= 1 /\ ~ overwritten =>
    /\ ledger.head \in DOMAIN events
    /\ lceProof # None
    /\ honest => lceProof.sn = ledger.head /\ lceProof.event = events[ledger.head].id

(* Who becomes the owner holds the key of the subject, or nobody could     *)
(* sign for it any more (ledger.rs external_event, event_sourcing_transfer). *)
OwnerHasKeys ==
  subject # None /\ subject.owner = Us =>
    subject.hasKeys /\ subject.key \in OurKeys

(* The events of an up-to-date subject stay as they are, and its sequence  *)
(* number never falls (ledger.rs external_event,                           *)
(* external_intermediate_event).                                           *)
HistoryKept ==
  [][/\ UpToDate => \A n \in 0 .. ledger.current :
                      n \in DOMAIN events' /\ events'[n] = events[n]
     /\ subject # None => subject' # None /\ subject'.sn >= subject.sn]_vars
=============================================================================
