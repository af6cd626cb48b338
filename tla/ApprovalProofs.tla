---------------------------- MODULE ApprovalProofs ----------------------------
(***************************************************************************)
(* Safety of the approval manager next to its ledger and its governance,   *)
(* for any number of events, versions of the governance, lost answers and  *)
(* crashes, whatever the node owns.  The invariants the runs check are not inductive: what a       *)
(* pending request may look like depends on what the ledger is about to    *)
(* mark, on the version that was read for the request being handled, and   *)
(* on the index that a new version is looked up in.                        *)
(***************************************************************************)
EXTENDS Approval, TLAPS

\* The state has its type; what is marked or handled has been sent.
Typed ==
  /\ TypeOK
  /\ netGov \in Nat /\ decided \in Seq(Nat)
  /\ "governance" \in owned => gov = netGov
  /\ \A i \in DOMAIN decided : decided[i] <= netGov
  /\ notices \in Nat /\ crashes \in Nat
  /\ votation \in {"normal", "accepted", "rejected"}
  /\ marking # None => marking \in Sent
  /\ handling # None => handling.request \in Sent /\ handling.version \in 0 .. gov

\* The request being handled has no vote: requests are handled one at a time.
HandledIsOpen == handling # None => ~Responded(handling.request)

\* A pending request of the subject is found by the next version of the governance.
PendingIsIndexed ==
  \A r \in DOMAIN approvals :
    Pending(r) /\ r.subject = "subject" => r \in byGov /\ r.version <= gov

\* A version that was read before the last one leaves the announcement of that one.
HandledIsCurrent ==
  handling # None /\ handling.version < gov => notices > 0 \/ crashes > 0

\* The pending requests of events that are stored: the ledger is about to mark
\* them, or, for the subject, they are of an older version of the governance.
StoredIsMarked ==
  crashes = 0 /\ ~late /\ ~unmarked =>
    \A r \in DOMAIN approvals : Pending(r) =>
      /\ r.subject = "subject" /\ r.sn \in stored => marking = r \/ r.version < gov
      /\ r.subject = "governance" =>
           r.version <= gov /\ (r.version < gov => marking = r)

IndInv ==
  /\ Typed /\ HandledIsOpen /\ PendingIsIndexed /\ HandledIsCurrent /\ PendingIsCurrent
  /\ StoredIsMarked /\ StopsOnlyBehind

-----------------------------------------------------------------------------
(* What a request that was sent looks like: one of the subject names an      *)
(* event that was decided, under no later version than it was decided under, *)
(* or the next one; one of the governance names the version before.          *)
LEMMA SentRequest ==
  ASSUME netGov \in Nat, decided \in Seq(Nat), NEW r \in Sent
  PROVE  /\ r \in [subject : {"subject", "governance"}, sn : Nat, version : Nat]
         /\ r.subject = "subject" =>
              /\ r.sn \in 1 .. Len(decided) + 1
              /\ r.sn <= Len(decided) => r.version <= decided[r.sn]
         /\ r.subject = "governance" => r.sn = r.version + 1
<1>1. CASE \E v \in 0 .. netGov : r = Request("governance", v + 1, v)
  BY <1>1 DEF Request
<1>2. CASE ~ \E v \in 0 .. netGov : r = Request("governance", v + 1, v)
  <2>1. PICK s \in 1 .. Len(decided) + 1, v \in 0 .. netGov :
          r = Request("subject", s, v) /\ r.version \in VersionsAsked(r.sn)
    BY <1>2 DEF Sent
  <2>2. r.subject = "subject" /\ r.sn = s /\ r.version = v
    BY <2>1 DEF Request
  <2>3. s <= Len(decided) => v <= decided[s]
    <3> SUFFICES ASSUME s <= Len(decided) PROVE v <= decided[s]
      OBVIOUS
    <3>1. decided[s] \in Nat /\ (IF s = 1 THEN 0 ELSE decided[s - 1]) \in Nat
      OBVIOUS
    <3>2. QED
      BY <2>1, <2>2, <3>1 DEF VersionsAsked
  <2>4. QED
    BY <2>1, <2>2, <2>3 DEF Request
<1>3. QED
  BY <1>1, <1>2

(* The requests that have been sent stay sent: they may come late.           *)
LEMMA SentGrows ==
  ASSUME netGov \in Nat, netGov' \in Nat, netGov <= netGov', gov \in Nat, gov' \in Nat,
         gov <= gov', owned' = owned, decided \in Seq(Nat),
         decided' = decided \/ decided' = Append(decided, OwnerVersion)
  PROVE  Sent \subseteq Sent'
<1> SUFFICES ASSUME NEW r \in Sent PROVE r \in Sent'
  OBVIOUS
<1>0. /\ OwnerVersion \in Nat /\ OwnerVersion' \in Nat /\ OwnerVersion <= OwnerVersion'
  BY DEF OwnerVersion
<1>1. /\ decided' \in Seq(Nat) /\ Len(decided) <= Len(decided')
      /\ \A i \in 1 .. Len(decided) : decided'[i] = decided[i]
      /\ \A i \in 1 .. Len(decided') : i > Len(decided) => decided'[i] = OwnerVersion
  <2>1. CASE decided' = decided
    BY <2>1
  <2>2. CASE decided' = Append(decided, OwnerVersion)
    <3> HIDE DEF OwnerVersion
    <3>1. QED
      BY <1>0, <2>2
  <2>3. QED
    BY <2>1, <2>2
<1>2. CASE \E v \in 0 .. netGov : r = Request("governance", v + 1, v)
  BY <1>1, <1>2 DEF Sent
<1>3. CASE ~ \E v \in 0 .. netGov : r = Request("governance", v + 1, v)
  <2>1. PICK s \in 1 .. Len(decided) + 1, v \in 0 .. netGov :
          r = Request("subject", s, v) /\ r.version \in VersionsAsked(r.sn)
    BY <1>3 DEF Sent
  <2>2. r.sn = s /\ r.version = v
    BY <2>1 DEF Request
  <2> DEFINE low == IF s = 1 THEN 0 ELSE decided[s - 1]
             high == IF s > Len(decided) THEN OwnerVersion ELSE decided[s]
  <2>3. v \in low .. high /\ (VersionsAsked(s))' = low' .. high'
    BY <2>1, <2>2 DEF VersionsAsked
  <2>4. low \in Nat /\ low' = low
    BY <1>1
  <2>5. high \in Nat /\ high' \in Nat /\ high <= high'
    <3>1. CASE s <= Len(decided)
      <4>1. decided'[s] = decided[s] /\ decided[s] \in Nat
        BY <1>1, <3>1
      <4>2. ~(s > Len(decided)) /\ ~(s > Len(decided'))
        BY <1>1, <3>1
      <4>3. QED
        BY <4>1, <4>2
    <3>2. CASE s = Len(decided) + 1
      BY <1>0, <1>1, <3>2
    <3>3. QED
      BY <3>1, <3>2
  <2> HIDE DEF low, high
  <2>6. v \in (VersionsAsked(s))'
    BY <2>3, <2>4, <2>5
  <2>7. s \in 1 .. Len(decided') + 1 /\ v \in 0 .. netGov'
    BY <1>1
  <2>8. \A q, t : q.sn = t => ((VersionsAsked(t))' = (VersionsAsked(q.sn))')
    OBVIOUS
  <2>9. r \in {q \in {Request("subject", t, w) : t \in 1 .. Len(decided') + 1, w \in 0 .. netGov'} :
               q.version \in (VersionsAsked(q.sn))'}
    BY <2>1, <2>2, <2>6, <2>7, <2>8
  <2>10. QED
    BY <2>9 DEF Sent, Request
<1>4. QED
  BY <1>2, <1>3

-----------------------------------------------------------------------------
(* Initially no request is known.                                            *)
LEMMA InitIndInv == Init => IndInv
<1> SUFFICES ASSUME Init PROVE IndInv
  OBVIOUS
<1> USE DEF Init
<1>1. DOMAIN approvals = {}
  OBVIOUS
<1>2. Typed
  <2>1. decided \in Seq(Nat) /\ Len(decided) = 0 /\ \A i \in DOMAIN decided : FALSE
    OBVIOUS
  <2>2. gov \in 0 .. netGov /\ gov = netGov /\ stored \subseteq 1 .. Len(decided)
    BY <2>1
  <2>3. /\ DOMAIN approvals \subseteq Sent /\ bySubject \cup byGov \subseteq DOMAIN approvals
        /\ \A r \in DOMAIN approvals : FALSE
    BY <1>1
  <2>4. QED
    BY <2>1, <2>2, <2>3 DEF Typed, TypeOK
<1>3. QED
  BY <1>1, <1>2 DEF IndInv, HandledIsOpen, PendingIsIndexed, HandledIsCurrent,
                    PendingIsCurrent, StoredIsMarked, StopsOnlyBehind

(* Every step of the ledger and of the manager keeps the types, and what it  *)
(* knows, marks and handles has been sent.                                   *)
LEMMA NextTyped == Typed /\ [Next]_vars => Typed'
<1> SUFFICES ASSUME Typed, [Next]_vars PROVE Typed'
  OBVIOUS
<1> USE DEF Typed, TypeOK
<1>0. UNCHANGED <<owned, netGov, gov, decided>> => Sent' = Sent
  BY DEF Sent, VersionsAsked, OwnerVersion
<1>n. gov \in Nat /\ gov <= netGov /\ Len(decided) \in Nat
  OBVIOUS
<1>1. CASE UNCHANGED vars
  BY <1>0, <1>1 DEF vars, network, ledger, manager, history
<1>2. CASE EventDecided \/ OwnEvent
  <2>1. /\ decided' = Append(decided, OwnerVersion) /\ OwnerVersion \in 0 .. netGov
        /\ UNCHANGED <<owned, netGov, gov>>
    BY <1>2, <1>n DEF EventDecided, OwnEvent, OwnerVersion, ledger
  <2>2. /\ decided' \in Seq(Nat) /\ Len(decided') = Len(decided) + 1
        /\ \A i \in DOMAIN decided' : decided'[i] <= netGov'
    BY <2>1
  <2>3. Sent \subseteq Sent'
    BY <1>n, <2>1, SentGrows
  <2>4. /\ UNCHANGED <<marking, approvals, bySubject, byGov, notices, handling,
                       votation, crashes>>
        /\ answered' = FALSE
    BY <1>2 DEF EventDecided, OwnEvent, ledger, manager
  <2>5. stored' = stored \/ stored' = stored \cup {Len(decided')}
    BY <1>2 DEF EventDecided, OwnEvent, ledger
  <2>6. stored' \subseteq 1 .. Len(decided') /\ gov' \in 0 .. netGov'
    BY <1>n, <2>1, <2>2, <2>5
  <2>7. QED
    BY <2>1, <2>2, <2>3, <2>4, <2>6
<1>3. CASE GovernanceDecided \/ OwnGovernance
  <2>1. /\ netGov' = netGov + 1 /\ UNCHANGED <<owned, decided, stored>>
        /\ (gov' = gov /\ "governance" \notin owned) \/ gov' = netGov'
    BY <1>3 DEF GovernanceDecided, OwnGovernance, ledger
  <2>2. /\ netGov' \in Nat /\ netGov <= netGov' /\ gov' \in Nat /\ gov <= gov'
        /\ gov' \in 0 .. netGov' /\ ("governance" \in owned' => gov' = netGov')
    BY <1>n, <2>1
  <2>3. Sent \subseteq Sent'
    BY <1>n, <2>1, <2>2, SentGrows
  <2>4. \A i \in DOMAIN decided' : decided'[i] <= netGov'
    BY <2>1
  <2>5. /\ UNCHANGED <<marking, approvals, bySubject, byGov, handling, votation, crashes>>
        /\ notices' \in Nat
    BY <1>3 DEF GovernanceDecided, OwnGovernance, ledger, manager
  <2>6. answered' \in BOOLEAN
    <3>1. CASE GovernanceDecided
      BY <3>1, Zenon DEF GovernanceDecided
    <3>2. CASE OwnGovernance
      BY <3>2 DEF OwnGovernance
    <3>3. QED
      BY <1>3, <3>1, <3>2
  <2>7. handling' # None => handling'.request \in Sent' /\ handling'.version \in 0 .. gov'
    BY <1>n, <2>2, <2>3, <2>5
  <2>8. QED
    BY <2>1, <2>2, <2>3, <2>4, <2>5, <2>6, <2>7
<1>4. ASSUME NEW n \in 1 .. Len(decided), StoreEvent(n) \/ StoreFirst(n) PROVE Typed'
  <2>1. /\ UNCHANGED <<owned, netGov, decided, gov, approvals, bySubject, byGov, notices,
                       handling, votation, answered, crashes>>
        /\ stored' = stored \cup {n} \/ stored' = {n}
        /\ marking' = None \/ marking' \in DOMAIN approvals
    BY <1>4 DEF StoreEvent, StoreFirst, ReadApproval, Pending, Known, network, manager, history
  <2>2. stored' \subseteq 1 .. Len(decided')
    BY <2>1
  <2>3. QED
    BY <1>0, <2>1, <2>2
<1>4a. CASE StoreGenesis
  BY <1>0, <1>4a DEF StoreGenesis, network, manager, history
<1>5. CASE StoreGovernance
  <2>1. /\ UNCHANGED <<owned, netGov, decided, stored, approvals, bySubject, byGov, handling,
                       votation, crashes>>
        /\ gov' = gov + 1 /\ gov < netGov /\ notices' = notices + 1
        /\ marking' = None \/ marking' \in DOMAIN approvals
    BY <1>5 DEF StoreGovernance, ReadApproval, Pending, Known, network
  <2>2. Sent \subseteq Sent'
    BY <1>n, <2>1, SentGrows
  <2>3. answered' \in BOOLEAN
    BY <1>5, Zenon DEF StoreGovernance
  <2>4. gov' \in 0 .. netGov' /\ ("governance" \in owned' => gov' = netGov')
    BY <1>n, <2>1
  <2>5. handling' # None => handling'.request \in Sent' /\ handling'.version \in 0 .. gov'
    BY <1>n, <2>1, <2>2
  <2>6. QED
    BY <2>1, <2>2, <2>3, <2>4, <2>5
<1>6. CASE MarkObsolete
  <2>1. /\ DOMAIN approvals' = DOMAIN approvals \cup {marking}
        /\ \A q \in DOMAIN approvals' :
             approvals'[q] = IF q = marking THEN "obsolete" ELSE approvals[q]
    BY <1>6 DEF MarkObsolete, Put
  <2>2. /\ UNCHANGED <<owned, netGov, decided, gov, stored, bySubject, byGov, notices, handling, votation,
                       answered, crashes>>
        /\ marking # None /\ marking' = None
    BY <1>6 DEF MarkObsolete, network, history
  <2>3. QED
    BY <1>0, <2>1, <2>2
<1>7. ASSUME NEW r \in Sent, AnswerAgain(r) PROVE Typed'
  BY <1>0, <1>7 DEF AnswerAgain, Respond, network, ledger, manager
<1>8. ASSUME NEW r \in Sent, ReceiveRequest(r) PROVE Typed'
  <2>1. /\ UNCHANGED <<owned, netGov, decided, gov, stored, marking, approvals, byGov, notices, votation,
                       answered, crashes>>
        /\ bySubject' \subseteq bySubject
    BY <1>8 DEF ReceiveRequest, network, ledger, history
  <2>2. handling' = handling \/ handling' = [request |-> r, version |-> gov]
    BY <1>8 DEF ReceiveRequest
  <2>3. handling' # None => handling'.request \in Sent /\ handling'.version \in 0 .. gov
    BY <2>2
  <2>4. QED
    BY <1>0, <2>1, <2>3
<1>9. ASSUME NEW r \in DOMAIN approvals, NEW vote \in {"accepted", "rejected"},
             EmitVote(r, vote)
      PROVE  Typed'
  <2>1. /\ DOMAIN approvals' = DOMAIN approvals
        /\ \A q \in DOMAIN approvals' : approvals'[q] = IF q = r THEN vote ELSE approvals[q]
    BY <1>9 DEF EmitVote, GenerateVote, Put
  <2>2. /\ UNCHANGED <<owned, netGov, decided, gov, stored, notices, handling, marking, votation, crashes>>
        /\ bySubject' \subseteq bySubject /\ byGov' \subseteq byGov
        /\ answered' \in BOOLEAN
    BY <1>9 DEF EmitVote, GenerateVote, Respond, network, ledger
  <2>3. QED
    BY <1>0, <2>1, <2>2
<1>10. CASE HandleRequest
  <2>1. /\ DOMAIN approvals' \subseteq DOMAIN approvals \cup {handling.request}
        /\ DOMAIN approvals \subseteq DOMAIN approvals'
        /\ \A q \in DOMAIN approvals' :
             approvals'[q] \in {"pending", "obsolete", "accepted", "rejected"}
        /\ bySubject' \cup byGov' \subseteq DOMAIN approvals'
    BY <1>10 DEF HandleRequest, SaveRequest, Put
  <2>2. answered' \in BOOLEAN
    BY <1>10 DEF HandleRequest, Respond
  <2>3. QED
    BY <1>0, <1>10, <2>1, <2>2 DEF HandleRequest, network, ledger
<1>11. CASE NewGovernanceVersion
  BY <1>0, <1>11 DEF NewGovernanceVersion, GetApprovalsByGovernance, Pending, Known, network, ledger,
                     history
<1>12. CASE Crash
  BY <1>0, <1>12 DEF Crash, network, history
<1>13. QED
  BY <1>1, <1>2, <1>3, <1>4, <1>4a, <1>5, <1>6, <1>7, <1>8, <1>9, <1>10, <1>11, <1>12
     DEF Next, LedgerStep, ManagerStep

(* A known request has natural numbers for its event and its version.        *)
LEMMA KnownRequest ==
  ASSUME Typed, NEW r \in Sent
  PROVE  r \in [subject : {"subject", "governance"}, sn : Nat, version : Nat] /\ r # None
  BY SentRequest, ApprovalAssumption DEF Typed

(* When the node has stored every decided event, has read every announced   *)
(* version and marks nothing, it has one pending request of the subject at   *)
(* most, and one of the governance: MoreRequestThanMaxAllowed cannot happen. *)
LEMMA OnePending ==
  ASSUME IndInv, crashes = 0, ~late, ~unmarked, stored = 1 .. Len(decided), ~(notices > 0),
         marking = None,
         NEW p \in DOMAIN approvals, NEW q \in DOMAIN approvals,
         Pending(p), Pending(q), p.subject = q.subject
  PROVE  p = q
<1> DEFINE Requests == [subject : {"subject", "governance"}, sn : Nat, version : Nat]
<1>1. p \in Sent /\ q \in Sent
  BY DEF IndInv, Typed, TypeOK
<1>2. p \in Requests /\ q \in Requests /\ p # None /\ q # None
  BY <1>1, KnownRequest DEF IndInv
<1>3. gov \in Nat /\ Len(decided) \in Nat /\ netGov \in Nat
  BY DEF IndInv, Typed, TypeOK
<1>4. ASSUME NEW r \in {p, q}
      PROVE  r.version = gov /\ (r.subject = "subject" => r.sn = Len(decided) + 1)
  <2>1. r.version <= gov
    BY <1>2, <1>4 DEF IndInv, PendingIsIndexed, StoredIsMarked, Pending, Known
  <2>2. r.subject = "governance" => r.version >= gov
    BY <1>2, <1>3, <1>4 DEF IndInv, StoredIsMarked
  <2>3. r.subject = "subject" => r.version >= gov
    BY <1>2, <1>3, <1>4 DEF IndInv, PendingIsCurrent, Pending, Known
  <2>4. r.subject = "subject" => r.sn \notin 1 .. Len(decided)
    BY <1>2, <1>3, <1>4, <2>3 DEF IndInv, StoredIsMarked
  <2>5. r.subject = "subject" => r.sn \in 1 .. Len(decided) + 1
    BY <1>1, <1>3, <1>4, SentRequest DEF IndInv, Typed
  <2>6. QED
    BY <1>2, <1>3, <1>4, <2>1, <2>2, <2>3, <2>4, <2>5
<1>5. p.subject = "governance" => p.sn = p.version + 1 /\ q.sn = q.version + 1
  BY <1>1, SentRequest DEF IndInv, Typed
<1>6. p.version = q.version /\ p.sn = q.sn
  <2>1. /\ p.version = gov /\ (p.subject = "subject" => p.sn = Len(decided) + 1)
        /\ q.version = gov /\ (q.subject = "subject" => q.sn = Len(decided) + 1)
    BY <1>4
  <2>2. p.subject \in {"subject", "governance"}
    BY <1>2
  <2>3. QED
    BY <1>5, <2>1, <2>2
<1>7. QED
  BY <1>2, <1>6

(* IndInv is inductive.  A step that makes no request pending, and takes     *)
(* none that was answered back, only disturbs the conjuncts about the ledger *)
(* and the announcements.                                                    *)
LEMMA NextIndInv == IndInv /\ [Next]_vars => IndInv'
<1> SUFFICES ASSUME IndInv, [Next]_vars PROVE IndInv'
  OBVIOUS
<1> DEFINE Requests == [subject : {"subject", "governance"}, sn : Nat, version : Nat]
<1>t. Typed /\ Typed'
  BY NextTyped DEF IndInv
<1>r. \A r \in DOMAIN approvals : r \in Requests /\ r # None
  BY <1>t, KnownRequest DEF Typed, TypeOK
<1>n. /\ gov \in Nat /\ netGov \in Nat /\ Len(decided) \in Nat
      /\ notices \in Nat /\ crashes \in Nat /\ stored \subseteq 1 .. Len(decided)
  BY <1>t DEF Typed, TypeOK
<1> USE DEF Pending, Responded, Known
<1>1. CASE UNCHANGED vars
  BY <1>1, <1>t DEF vars, network, ledger, manager, history, IndInv, HandledIsOpen,
     PendingIsIndexed, HandledIsCurrent, PendingIsCurrent, StoredIsMarked, StopsOnlyBehind
<1>2. CASE EventDecided
  <2>1. /\ UNCHANGED <<gov, stored, marking, approvals, bySubject, byGov, notices, handling,
                       running, late, unmarked, crashes>>
        /\ Len(decided') = Len(decided) + 1
    BY <1>2, <1>t DEF EventDecided, ledger, manager, Typed
  <2>2. stored' # 1 .. Len(decided')
    <3>1. Len(decided) + 1 \notin stored /\ Len(decided) + 1 \in 1 .. Len(decided')
      BY <1>n, <2>1
    <3>2. QED
      BY <2>1, <3>1
  <2>3. QED
    BY <1>t, <1>n, <2>1, <2>2 DEF IndInv, HandledIsOpen, PendingIsIndexed, HandledIsCurrent,
       PendingIsCurrent, StoredIsMarked, StopsOnlyBehind
<1>3. CASE GovernanceDecided
  BY <1>3, <1>t DEF GovernanceDecided, ledger, manager, IndInv, HandledIsOpen,
     PendingIsIndexed, HandledIsCurrent, PendingIsCurrent, StoredIsMarked, StopsOnlyBehind
<1>3a. CASE OwnEvent
  <2> DEFINE n == Len(decided')
  <2>1. /\ UNCHANGED <<netGov, gov, marking, approvals, bySubject, byGov, notices, handling,
                       running, late, crashes>>
        /\ running /\ marking = None /\ stored' = stored \cup {n}
    BY <1>3a DEF OwnEvent, manager
  <2>2. ~unmarked' => ~unmarked /\ ~Pending(Request("subject", n, gov))
    BY <1>3a, Zenon DEF OwnEvent
  <2>3. StoredIsMarked'
    <3> SUFFICES ASSUME crashes = 0, ~late, ~unmarked', NEW r \in DOMAIN approvals, Pending(r)
                 PROVE  /\ r.subject = "subject" /\ r.sn \in stored' => r.version < gov
                        /\ r.subject = "governance" => r.version <= gov /\ ~(r.version < gov)
      BY <2>1 DEF StoredIsMarked
    <3>1. r \in Requests /\ r # None
      BY <1>r
    <3>2. CASE r.subject = "subject" /\ r.sn = n
      <4>1. r.version # gov
        BY <2>2, <3>1, <3>2 DEF Request
      <4>2. QED
        BY <1>n, <3>1, <3>2, <4>1 DEF IndInv, PendingIsIndexed
    <3>3. CASE r.subject = "subject" /\ r.sn # n
      BY <1>n, <2>1, <2>2, <3>1, <3>3 DEF IndInv, StoredIsMarked
    <3>4. CASE r.subject = "governance"
      BY <1>n, <2>1, <2>2, <3>1, <3>4 DEF IndInv, StoredIsMarked
    <3>5. QED
      BY <3>1, <3>2, <3>3, <3>4
  <2>4. QED
    BY <1>t, <1>n, <2>1, <2>3 DEF IndInv, HandledIsOpen, PendingIsIndexed, HandledIsCurrent,
       PendingIsCurrent, StopsOnlyBehind
<1>3b. CASE OwnGovernance
  <2>1. /\ UNCHANGED <<decided, stored, marking, approvals, bySubject, byGov, handling,
                       running, late, crashes>>
        /\ running /\ marking = None /\ gov' = gov + 1 /\ notices' = notices + 1
    BY <1>3b, <1>t DEF OwnGovernance, Typed
  <2>2. ~unmarked' => ~unmarked /\ ~Pending(Request("governance", gov', gov))
    BY <1>3b, Zenon DEF OwnGovernance
  <2>3. StoredIsMarked'
    <3> SUFFICES ASSUME crashes = 0, ~late, ~unmarked', NEW r \in DOMAIN approvals, Pending(r)
                 PROVE  /\ r.subject = "subject" => r.version < gov'
                        /\ r.subject # "governance"
      BY <2>1 DEF StoredIsMarked
    <3>1. r \in Requests /\ r # None
      BY <1>r
    <3>2. r.subject = "subject" => r.version < gov'
      BY <1>n, <2>1, <3>1 DEF IndInv, PendingIsIndexed
    <3>3. CASE r.subject = "governance"
      <4>1. r.version = gov
        BY <1>n, <2>1, <2>2, <3>1, <3>3 DEF IndInv, StoredIsMarked
      <4>2. r.sn = gov + 1
        BY <1>t, <3>3, <4>1, SentRequest DEF Typed, TypeOK
      <4>3. r = Request("governance", gov', gov)
        BY <2>1, <3>1, <3>3, <4>1, <4>2 DEF Request
      <4>4. QED
        BY <2>2, <4>3
    <3>4. QED
      BY <3>1, <3>2, <3>3
  <2>4. PendingIsIndexed'
    BY <1>n, <1>r, <2>1 DEF IndInv, PendingIsIndexed
  <2>5. QED
    BY <1>t, <1>n, <2>1, <2>3, <2>4 DEF IndInv, HandledIsOpen, HandledIsCurrent,
       PendingIsCurrent, StopsOnlyBehind
<1>4. ASSUME NEW n \in 1 .. Len(decided), StoreEvent(n) \/ StoreFirst(n) PROVE IndInv'
  <2> DEFINE event == Request("subject", n, decided[n])
  <2>1. /\ UNCHANGED <<netGov, decided, gov, approvals, bySubject, byGov, notices, handling,
                       running, late, crashes>>
        /\ running /\ marking = None /\ stored' = stored \cup {n} /\ decided[n] <= gov
    BY <1>4 DEF StoreEvent, StoreFirst, network, manager, history
  <2>2. ~unmarked' => ~unmarked /\ (Pending(event) => marking' = event)
    <3>1. CASE StoreEvent(n)
      BY <3>1 DEF StoreEvent, ReadApproval, history
    <3>2. CASE StoreFirst(n)
      BY <3>2, Zenon DEF StoreFirst
    <3>3. QED
      BY <1>4, <3>1, <3>2
  <2>3. StoredIsMarked'
    <3> SUFFICES ASSUME crashes = 0, ~late, ~unmarked', NEW r \in DOMAIN approvals, Pending(r)
                 PROVE  /\ r.subject = "subject" /\ r.sn \in stored' =>
                             marking' = r \/ r.version < gov
                        /\ r.subject = "governance" => r.version <= gov /\ ~(r.version < gov)
      BY <2>1 DEF StoredIsMarked
    <3>1. r \in Requests /\ r # None
      BY <1>r
    <3>2. CASE r.subject = "subject" /\ r.sn = n
      <4>1. r.version <= decided[n] /\ decided[n] \in Nat
        BY <1>t, <1>n, <2>1, <3>2, SentRequest DEF Typed, TypeOK
      <4>2. CASE r.version = decided[n]
        <5>1. r = event
          BY <3>1, <3>2, <4>2 DEF Request
        <5>2. QED
          BY <2>2, <3>2, <5>1
      <4>3. QED
        BY <1>n, <2>1, <3>1, <3>2, <4>1, <4>2
    <3>3. CASE r.subject = "subject" /\ r.sn # n
      BY <1>n, <2>1, <2>2, <3>1, <3>3 DEF IndInv, StoredIsMarked
    <3>4. CASE r.subject = "governance"
      BY <1>n, <2>1, <2>2, <3>1, <3>4 DEF IndInv, StoredIsMarked
    <3>5. QED
      BY <3>1, <3>2, <3>3, <3>4
  <2>4. QED
    BY <1>t, <1>n, <2>1, <2>3 DEF IndInv, HandledIsOpen, PendingIsIndexed, HandledIsCurrent,
       PendingIsCurrent, StopsOnlyBehind
<1>4a. CASE StoreGenesis
  BY <1>4a, <1>t DEF StoreGenesis, network, manager, history, IndInv, HandledIsOpen,
     PendingIsIndexed, HandledIsCurrent, PendingIsCurrent, StoredIsMarked, StopsOnlyBehind
<1>5. CASE StoreGovernance
  <2>1. /\ UNCHANGED <<netGov, decided, stored, approvals, bySubject, byGov, handling,
                       running, late, unmarked, crashes>>
        /\ running /\ marking = None /\ gov' = gov + 1 /\ notices' = notices + 1
    BY <1>5 DEF StoreGovernance, network
  <2>2. StoredIsMarked'
    <3> SUFFICES ASSUME crashes = 0, ~late, ~unmarked, NEW r \in DOMAIN approvals, Pending(r)
                 PROVE  /\ r.subject = "subject" => r.version < gov'
                        /\ r.subject = "governance" =>
                             r.version <= gov' /\ (r.version < gov' => marking' = r)
      BY <2>1 DEF StoredIsMarked
    <3>1. r \in Requests /\ r # None
      BY <1>r
    <3>2. CASE r.subject = "subject"
      BY <1>n, <2>1, <3>1, <3>2 DEF IndInv, PendingIsIndexed
    <3>3. CASE r.subject = "governance"
      <4>1. r.version = gov
        BY <1>n, <2>1, <3>1, <3>3 DEF IndInv, StoredIsMarked
      <4>2. r.sn = gov + 1
        BY <1>t, <3>3, <4>1, SentRequest DEF Typed, TypeOK
      <4>3. r = Request("governance", gov + 1, gov)
        BY <3>1, <3>3, <4>1, <4>2 DEF Request
      <4>4. QED
        BY <1>5, <1>n, <2>1, <4>1, <4>3 DEF StoreGovernance, ReadApproval
    <3>4. QED
      BY <3>1, <3>2, <3>3
  <2>3. PendingIsIndexed'
    BY <1>n, <1>r, <2>1 DEF IndInv, PendingIsIndexed
  <2>4. QED
    BY <1>t, <1>n, <2>1, <2>2, <2>3 DEF IndInv, HandledIsOpen, HandledIsCurrent,
       PendingIsCurrent, StopsOnlyBehind
<1>6. CASE MarkObsolete
  <2>1. /\ DOMAIN approvals' = DOMAIN approvals \cup {marking}
        /\ \A q \in DOMAIN approvals' :
             approvals'[q] = IF q = marking THEN "obsolete" ELSE approvals[q]
    BY <1>6 DEF MarkObsolete, Put
  <2>2. /\ UNCHANGED <<netGov, decided, gov, stored, bySubject, byGov, notices, handling, running,
                       late, unmarked, crashes>>
        /\ running /\ marking # None /\ marking' = None
    BY <1>6 DEF MarkObsolete, network, history
  <2>3. \A r \in DOMAIN approvals' : approvals'[r] = "pending" =>
          r \in DOMAIN approvals /\ approvals[r] = "pending" /\ r # marking
    BY <2>1
  <2>4. HandledIsOpen'
    BY <2>1, <2>2 DEF IndInv, HandledIsOpen
  <2>5. QED
    BY <1>t, <2>2, <2>3, <2>4 DEF IndInv, PendingIsIndexed, HandledIsCurrent,
       PendingIsCurrent, StoredIsMarked, StopsOnlyBehind
<1>7. ASSUME NEW r \in Sent, AnswerAgain(r) PROVE IndInv'
  BY <1>7, <1>t DEF AnswerAgain, network, ledger, manager, IndInv, HandledIsOpen,
     PendingIsIndexed, HandledIsCurrent, PendingIsCurrent, StoredIsMarked, StopsOnlyBehind
<1>8. ASSUME NEW r \in Sent, ReceiveRequest(r) PROVE IndInv'
  <2>1. /\ UNCHANGED <<netGov, decided, gov, stored, marking, approvals, byGov, notices, late,
                       unmarked, crashes>>
        /\ running /\ ~Known(r)
    BY <1>8 DEF ReceiveRequest, network, ledger, history
  <2>2. CASE running' = running /\ handling' = [request |-> r, version |-> gov]
    <3>1. handling'.request = r /\ handling'.version = gov
      BY <2>2
    <3>2. QED
      BY <1>t, <1>n, <2>1, <2>2, <3>1 DEF IndInv, HandledIsOpen, PendingIsIndexed,
         HandledIsCurrent, PendingIsCurrent, StoredIsMarked, StopsOnlyBehind
  <2>3. CASE handling' = handling /\ \E q, p \in GetApprovalsBySubject(r) : p # q
    <3>1. PICK q, p \in GetApprovalsBySubject(r) : p # q
      BY <2>3
    <3>2. /\ q \in DOMAIN approvals /\ Pending(q) /\ p \in DOMAIN approvals /\ Pending(p)
          /\ p.subject = q.subject
      BY <3>1 DEF GetApprovalsBySubject
    <3>3. StopsOnlyBehind'
      BY <1>n, <2>1, <3>1, <3>2, OnePending DEF StopsOnlyBehind
    <3>4. QED
      BY <1>t, <2>1, <2>3, <3>3 DEF IndInv, HandledIsOpen, PendingIsIndexed,
         HandledIsCurrent, PendingIsCurrent, StoredIsMarked
  <2>4. QED
    BY <1>8, <2>2, <2>3 DEF ReceiveRequest
<1>9. ASSUME NEW r \in DOMAIN approvals, NEW vote \in {"accepted", "rejected"},
             EmitVote(r, vote)
      PROVE  IndInv'
  <2>1. /\ DOMAIN approvals' = DOMAIN approvals
        /\ \A q \in DOMAIN approvals' : approvals'[q] = IF q = r THEN vote ELSE approvals[q]
    BY <1>9 DEF EmitVote, GenerateVote, Put
  <2>2. /\ UNCHANGED <<netGov, decided, gov, stored, marking, notices, handling, running, late,
                       unmarked, crashes>>
        /\ handling = None /\ running /\ byGov' = byGov \ {r}
    BY <1>9 DEF EmitVote, GenerateVote, network, ledger
  <2>3. \A q \in DOMAIN approvals' : approvals'[q] = "pending" =>
          q \in DOMAIN approvals /\ approvals[q] = "pending" /\ q # r
    BY <2>1
  <2>4. QED
    BY <1>t, <2>2, <2>3 DEF IndInv, HandledIsOpen, PendingIsIndexed, HandledIsCurrent,
       PendingIsCurrent, StoredIsMarked, StopsOnlyBehind
<1>10. CASE HandleRequest
  <2> DEFINE r == handling.request
  <2>1. /\ UNCHANGED <<netGov, decided, gov, stored, marking, notices, running, unmarked,
                       crashes>>
        /\ handling # None /\ running /\ handling' = None
    BY <1>10 DEF HandleRequest, network, ledger
  <2>2. r \in Requests /\ r \in Sent
    BY <1>t, <2>1, KnownRequest DEF Typed
  <2>3. \A q \in DOMAIN approvals' : approvals'[q] = "pending" =>
          \/ q \in DOMAIN approvals /\ approvals[q] = "pending"
          \/ q = r /\ handling.version = r.version
    BY <1>10, <1>t DEF HandleRequest, SaveRequest, Put, Typed
  <2>3a. ~late' =>
           /\ ~late
           /\ r \in DOMAIN approvals' /\ approvals'[r] = "pending" =>
                ~Stored(r) \/ (r \in DOMAIN approvals /\ approvals[r] = "pending")
    <3>1. CASE handling.version # r.version
      BY <1>10, <3>1 DEF HandleRequest
    <3>2. CASE handling.version = r.version /\ votation = "normal"
      BY <1>10, <3>2, Zenon DEF HandleRequest
    <3>3. CASE handling.version = r.version /\ votation # "normal"
      <4>1. late' = late /\ approvals' = Put(approvals, r, votation)
        BY <1>10, <3>3 DEF HandleRequest
      <4>2. votation # "pending"
        BY <1>t DEF Typed
      <4>3. QED
        BY <4>1, <4>2 DEF Put
    <3>4. QED
      BY <3>1, <3>2, <3>3
  <2>4. /\ byGov \subseteq byGov'
        /\ r \in DOMAIN approvals' /\ approvals'[r] = "pending" /\ r.subject = "subject" =>
             r \in byGov' \/ (r \in DOMAIN approvals /\ approvals[r] = "pending")
    BY <1>10, <1>t DEF HandleRequest, SaveRequest, Put, Typed
  <2>5. PendingIsIndexed'
    BY <1>t, <2>1, <2>3, <2>4 DEF IndInv, PendingIsIndexed, Typed
  <2>6. PendingIsCurrent'
    BY <1>t, <2>1, <2>3 DEF IndInv, PendingIsCurrent, HandledIsCurrent, Typed
  <2>7. StoredIsMarked'
    <3> SUFFICES ASSUME crashes = 0, ~late', ~unmarked, NEW q \in DOMAIN approvals',
                        approvals'[q] = "pending"
                 PROVE  /\ q.subject = "subject" /\ q.sn \in stored => marking = q \/ q.version < gov
                        /\ q.subject = "governance" =>
                             q.version <= gov /\ (q.version < gov => marking = q)
      BY <2>1 DEF StoredIsMarked
    <3>1. CASE q \in DOMAIN approvals /\ approvals[q] = "pending"
      BY <2>1, <2>3a, <3>1 DEF IndInv, StoredIsMarked
    <3>2. CASE /\ q = r /\ handling.version = r.version
               /\ ~(q \in DOMAIN approvals /\ approvals[q] = "pending")
      <4>0. ~Stored(r)
        BY <2>3a, <3>2
      <4>1. ~Stored(r) /\ r.version <= gov
        BY <1>t, <1>n, <2>1, <3>2, <4>0 DEF Typed
      <4>2. r.subject = "governance" => r.sn = r.version + 1
        BY <1>t, <2>2, SentRequest DEF Typed
      <4>3. r.sn \in Nat /\ r.version \in Nat
        BY <2>2
      <4>4. CASE r.subject = "governance"
        <5>1. r.version = gov
          BY <1>n, <4>1, <4>2, <4>3, <4>4 DEF Stored
        <5>2. QED
          BY <1>n, <3>2, <4>4, <5>1
      <4>5. CASE r.subject # "governance"
        <5>1. r.sn \notin stored
          BY <1>n, <4>1, <4>3, <4>5 DEF Stored
        <5>2. QED
          BY <1>n, <3>2, <4>3, <4>5, <5>1
      <4>6. QED
        BY <4>4, <4>5
    <3>3. QED
      BY <2>3, <3>1, <3>2
  <2>8. QED
    BY <1>t, <2>1, <2>5, <2>6, <2>7 DEF IndInv, HandledIsOpen, HandledIsCurrent,
       StopsOnlyBehind
<1>11. CASE NewGovernanceVersion
  <2>1. /\ DOMAIN approvals' = DOMAIN approvals \ GetApprovalsByGovernance
        /\ \A q \in DOMAIN approvals' : approvals'[q] = approvals[q]
    BY <1>11 DEF NewGovernanceVersion
  <2>2. /\ UNCHANGED <<netGov, decided, gov, stored, marking, handling, running, late, unmarked, crashes>>
        /\ running /\ handling = None
    BY <1>11 DEF NewGovernanceVersion, network, ledger, history
  <2>3. \A q \in DOMAIN approvals' : approvals'[q] = "pending" =>
          q \in DOMAIN approvals /\ approvals[q] = "pending" /\ q.subject # "subject"
    BY <2>1 DEF IndInv, PendingIsIndexed, GetApprovalsByGovernance
  <2>4. QED
    BY <1>t, <2>2, <2>3 DEF IndInv, HandledIsOpen, PendingIsIndexed, HandledIsCurrent,
       PendingIsCurrent, StoredIsMarked, StopsOnlyBehind
<1>12. CASE Crash
  BY <1>12, <1>t, <1>n DEF Crash, network, IndInv, HandledIsOpen, PendingIsIndexed,
     HandledIsCurrent, PendingIsCurrent, StoredIsMarked, StopsOnlyBehind
<1>13. QED
  BY <1>1, <1>2, <1>3, <1>3a, <1>3b, <1>4, <1>4a, <1>5, <1>6, <1>7, <1>8, <1>9, <1>10, <1>11, <1>12
     DEF Next, LedgerStep, ManagerStep

-----------------------------------------------------------------------------
(* The indexes only name requests that are stored, and only requests that   *)
(* were sent are stored, whatever crashes come between (approval manager     *)
(* and database).                                                            *)
THEOREM TypeCorrect == Spec => []TypeOK
<1>1. IndInv => TypeOK
  BY DEF IndInv, Typed
<1>2. QED
  BY <1>1, InitIndInv, NextIndInv, PTL DEF Spec

(* new_governance_version leaves no pending request of an older version      *)
(* behind, even one that was being handled when the version changed.         *)
THEOREM NoStalePending == Spec => []PendingIsCurrent
<1>1. IndInv => PendingIsCurrent
  BY DEF IndInv
<1>2. QED
  BY <1>1, InitIndInv, NextIndInv, PTL DEF Spec

(* MoreRequestThanMaxAllowed does not stop a node that is up to date, unless *)
(* an event that it owns, or the first one it stored of a subject, passed by *)
(* its pending request.                                                      *)
THEOREM UpToDateNodeRuns == Spec => []StopsOnlyBehind
<1>1. IndInv => StopsOnlyBehind
  BY DEF IndInv
<1>2. QED
  BY <1>1, InitIndInv, NextIndInv, PTL DEF Spec

(* A vote that generate_vote signed is never replaced or deleted, except by  *)
(* the ledger marking a request it had read before the vote.                 *)
THEOREM VotesStand == Spec => VoteStands
<1> DEFINE Stands ==
      \A r \in DOMAIN approvals :
        Responded(r) => \/ r \in DOMAIN approvals' /\ approvals'[r] = approvals[r]
                        \/ marking = r
<1>1. ASSUME IndInv, [Next]_vars PROVE [Stands]_vars
  <2> USE <1>1 DEF Responded, Known
  <2>1. CASE UNCHANGED approvals
    BY <2>1
  <2>2. CASE MarkObsolete
    BY <2>2 DEF MarkObsolete, Put
  <2>3. ASSUME NEW r \in DOMAIN approvals, NEW vote, EmitVote(r, vote) PROVE Stands
    BY <2>3 DEF EmitVote, GenerateVote, Put
  <2>4. CASE HandleRequest
    BY <2>4 DEF HandleRequest, SaveRequest, Put, IndInv, HandledIsOpen
  <2>5. CASE NewGovernanceVersion
    BY <2>5 DEF NewGovernanceVersion, GetApprovalsByGovernance, Pending
  <2>6. QED
    BY <2>1, <2>2, <2>3, <2>4, <2>5 DEF vars, Next, LedgerStep, ManagerStep, manager,
       EventDecided, GovernanceDecided, OwnEvent, OwnGovernance, StoreEvent, StoreFirst,
       StoreGenesis, StoreGovernance, AnswerAgain,
       ReceiveRequest, Crash
<1>2. QED
  BY <1>1, InitIndInv, NextIndInv, PTL DEF Spec, VoteStands
=============================================================================
