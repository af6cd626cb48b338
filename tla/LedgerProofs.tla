----------------------------- MODULE LedgerProofs -----------------------------
(***************************************************************************)
(* Safety of the ledger of a node that follows a subject, for any chain of *)
(* certified events, any other events, another genesis and heads with a    *)
(* proof of another event among them, and any number of crashes.  The      *)
(* argument for the events: a head is only applied when its proof is of    *)
(* it, so it is certified; every event up to current_sn was tested against *)
(* the hash of the one before, so the head vouches for all of them         *)
(* (Chained).  For restarts: while there is a gap its head is stored above *)
(* the subject (HeadAbove), so init does not take the events below for all *)
(* (Resumable), unless the head was lost to an event of its own number.    *)
(***************************************************************************)
EXTENDS Ledger, FiniteSetTheorems, WellFoundedInduction, TLAPS

\* A set of numbers with a bound.
Bounded(S) == \E N \in Nat : \A n \in S : n <= N

\* What is in the database.
Stored ==
  /\ IsFiniteSet(DOMAIN events) /\ Bounded(DOMAIN events)
  /\ \A n \in DOMAIN events : events[n].req \in known
  /\ honest => \A n \in DOMAIN events : n \in DOMAIN chain /\ events[n] = chain[n]
  /\ honest => ~ overwritten
  /\ mode # "up" => ledger = None /\ crashes > 0
  /\ subject # None => 0 .. subject.sn \subseteq DOMAIN events

\* How ledger_state and the subject agree.  A head that was refused leaves the
\* subject one event ahead; an end of life that was the head, one behind.
Position ==
  /\ ledger = None /\ mode = "up" => subject = None
  /\ ledger # None /\ ledger.current = None =>
       ledger.head # None /\ (subject # None => subject.sn = 0)
  /\ ledger # None /\ ledger.current # None =>
       /\ subject # None /\ 0 .. ledger.current \subseteq DOMAIN events
       /\ subject.sn <= ledger.current + 1
       /\ ledger.head = None => subject.sn <= ledger.current
       /\ \/ ledger.current <= subject.sn
          \/ ledger.head = None /\ ~ subject.active /\ ledger.current = subject.sn + 1
  /\ ledger # None /\ ledger.head # None =>
       /\ ledger.head > 0
       /\ honest => ledger.head \in DOMAIN chain /\ chain[ledger.head].req \in known

\* A head is stored above the subject; right above it when it was refused.
HeadAbove ==
  ledger # None /\ ledger.head # None /\ ~ overwritten =>
    /\ ledger.head \in DOMAIN events
    /\ subject # None => ledger.head > subject.sn
    /\ ledger.current # None /\ subject.sn = ledger.current + 1
         => ledger.head = ledger.current + 2

\* Below a certified event there are certified events only.
ChainedTo(m) ==
  \A k \in 0 .. m :
    k \in DOMAIN chain /\ events[k] = chain[k] => \A j \in 0 .. k : events[j] = chain[j]
Chained ==
  ledger # None /\ ledger.current # None /\ ~ HeadForgotten => ChainedTo(ledger.current)

\* The events up to m are the certified ones; a first event alone need not be.
CertifiedTo(m) ==
  m \in DOMAIN chain /\ (m = 0 \/ \A k \in 0 .. m : events[k] = chain[k])
UpCertified == UpToDate /\ ~ HeadForgotten => CertifiedTo(ledger.current)

CoreInv ==
  /\ TypeOK /\ Stored /\ Position /\ HeadAbove /\ OwnerHasKeys /\ Chained /\ UpCertified

\* What init may conclude from the database: events without a head above them are
\* certified, and events without one right above them are chained.
Resumable ==
  subject # None /\ ~ overwritten =>
    /\ (\A n \in DOMAIN events : n <= subject.sn) => CertifiedTo(subject.sn)
    /\ subject.sn + 1 \notin DOMAIN events => ChainedTo(subject.sn)

IndInv == CoreInv /\ Resumable

Gap == ledger # None /\ ledger.head # None
         /\ (ledger.current = None \/ ledger.head > ledger.current + 1)

\* There is a proof for the head, that of the head among honest nodes, until a
\* restart forgets the head; the events above the subject are the next one and the
\* head.
HeadProof ==
  /\ crashes = 0 => mode = "up"
  /\ crashes = 0 /\ lceProof # None =>
       ledger # None /\ ledger.head # None /\ (honest => lceProof = ProofOf(chain, ledger.head))
  /\ crashes = 0 =>
       \A n \in DOMAIN events :
         \/ subject # None /\ n <= subject.sn + 1
         \/ lceProof # None /\ n = ledger.head
  /\ crashes = 1 /\ mode # "up" =>
       \A n \in DOMAIN events :
         \/ subject # None /\ n <= subject.sn + 1
         \/ lceProof # None /\ (honest => lceProof = ProofOf(chain, n))
  /\ crashes <= 1 /\ mode = "up" /\ Gap =>
       lceProof # None /\ (honest => lceProof = ProofOf(chain, ledger.head))

\* But for its sequence number, the subject is what the certified events up to n make.
ReplayedTo(n) == [subject EXCEPT !.sn = n] = Replayed(chain)[n]

\* Until a head is refused, a subject whose last event is certified is what the
\* certified events make; in memory, and in the database for init.
CertifiedReplay ==
  ~ refused /\ ~ HeadForgotten /\ ledger # None =>
    /\ ledger.current = None => subject = None
    /\ ledger.current # None =>
         /\ subject.sn <= ledger.current
         /\ ledger.current \in DOMAIN chain /\ events[ledger.current] = chain[ledger.current]
              => ReplayedTo(ledger.current)
StoredReplay ==
  /\ ~ refused /\ ~ overwritten /\ subject # None /\ subject.sn + 1 \notin DOMAIN events
  /\ subject.sn \in DOMAIN chain /\ events[subject.sn] = chain[subject.sn]
  => ReplayedTo(subject.sn)

\* An end of life that was the head does not count in the subject's sequence number.
EndedOneBehind ==
  /\ subject.sn + 1 \in DOMAIN events /\ chain[subject.sn + 1].kind = "eol"
  /\ ~ subject.active /\ ReplayedTo(subject.sn + 1)
  /\ ledger # None => ledger.current = subject.sn + 1 /\ ledger.head = None

\* Among honest nodes the subject in the database is that of its sequence number.
HonestReplay ==
  honest /\ subject # None =>
    \/ ReplayedTo(subject.sn) /\ (UpToDate => ledger.current = subject.sn)
    \/ EndedOneBehind

ReplayInv == CertifiedReplay /\ StoredReplay /\ HonestReplay

-----------------------------------------------------------------------------
(* The certified events are those of the chains.                             *)
LEMMA CertifiedEvents ==
  /\ \A c \in Chains : \A n \in DOMAIN c : c[n] \in Certified
  /\ \A e \in Certified : \E c \in Chains : \E n \in DOMAIN c : e = c[n]
<1>1. ASSUME NEW c \in Chains, NEW n \in DOMAIN c PROVE c[n] \in Certified
  <2>1. c[n] \in {c[m] : m \in DOMAIN c}
    OBVIOUS
  <2>2. {c[m] : m \in DOMAIN c} \in {{d[m] : m \in DOMAIN d} : d \in Chains}
    BY Zenon
  <2>3. QED
    BY <2>1, <2>2, Zenon DEF Certified
<1>2. ASSUME NEW e \in Certified PROVE \E c \in Chains : \E n \in DOMAIN c : e = c[n]
  <2>1. PICK S \in {{d[m] : m \in DOMAIN d} : d \in Chains} : e \in S
    BY Zenon DEF Certified
  <2>2. PICK d \in Chains : S = {d[m] : m \in DOMAIN d}
    BY <2>1, Zenon
  <2>3. QED
    BY <2>1, <2>2, Zenon
<1>3. QED
  BY <1>1, <1>2

(* What is true of every event that is sent.                                 *)
LEMMA EventFacts ==
  ASSUME NEW e \in Events
  PROVE  /\ e.sn \in Nat /\ e.kind \in Kinds
         /\ e.kind \in {"transfer", "eol"} => e.approved
         /\ e.kind = "fact" /\ e.approved => e.new \in States
         /\ e.kind = "create" <=> e.sn = 0
         /\ e.kind = "create" => e.signer # Us
<1>1. CASE e \in Others
  BY <1>1, LedgerAssumption
<1>2. CASE e \in Certified
  <2>1. PICK c \in Chains : \E n \in DOMAIN c : e = c[n]
    BY <1>2, CertifiedEvents
  <2>2. PICK n \in DOMAIN c : e = c[n]
    BY <2>1
  <2>3. DOMAIN c = 0 .. Last(c) /\ e.sn = n
    BY <2>2, LedgerAssumption
  <2>4. /\ e.kind = "create" <=> n = 0
        /\ e.kind \in {"create", "transfer", "eol"} => e.approved
        /\ n = 0 => e.signer # Us
    BY <2>2, LedgerAssumption
  <2>5. QED
    BY <1>2, <2>3, <2>4, LedgerAssumption
<1>3. QED
  BY <1>1, <1>2 DEF Events

(* What is true of every certified event of the subject.                     *)
LEMMA ChainFacts ==
  ASSUME TypeOK, NEW n \in DOMAIN chain
  PROVE  /\ n \in Nat /\ DOMAIN chain = 0 .. Last(chain) /\ Last(chain) \in Nat
         /\ chain[n] \in Events /\ chain[n].sn = n
         /\ n = 0 <=> chain[n].kind = "create"
         /\ n > 0 => n - 1 \in DOMAIN chain /\ chain[n].prev = chain[n - 1].id
         /\ n = 0 => chain[n].signer # Us
<1>1. chain \in Chains
  BY DEF TypeOK
<1>2. Last(chain) \in Nat /\ DOMAIN chain = 0 .. Last(chain)
  BY <1>1, LedgerAssumption
<1>3. chain[n] \in Events
  BY <1>1, CertifiedEvents DEF Events
<1>4. /\ chain[n].sn = n /\ (n = 0 <=> chain[n].kind = "create")
      /\ n > 0 => chain[n].prev = chain[n - 1].id
      /\ chain[0].signer # Us
  BY <1>1, LedgerAssumption
<1>5. QED
  BY <1>2, <1>3, <1>4

(* The hash of a certified event is that of no other event.                  *)
LEMMA SameHash ==
  ASSUME NEW e \in Events, NEW f \in Events, e.id = f.id
  PROVE  e = f
  BY LedgerAssumption

(* The chain has a first event.                                             *)
LEMMA FirstFacts ==
  ASSUME TypeOK
  PROVE  0 \in DOMAIN chain /\ chain[0] \in Events /\ chain \in Chains
<1>1. chain \in Chains
  BY DEF TypeOK
<1>2. Last(chain) \in Nat /\ DOMAIN chain = 0 .. Last(chain)
  BY <1>1, LedgerAssumption
<1>3. 0 \in DOMAIN chain
  BY <1>2
<1>4. QED
  BY <1>1, <1>3, ChainFacts

(* An event that a proof names is the certified one of its number.          *)
LEMMA ProofNames ==
  ASSUME TypeOK, NEW p \in Proofs, NEW e \in Events, p.event = e.id
  PROVE  e.sn \in DOMAIN chain /\ e = chain[e.sn] /\ p = ProofOf(chain, e.sn)
<1>1. PICK n \in 1 .. Last(chain) : p = ProofOf(chain, n)
  BY DEF Proofs
<1>2. n \in DOMAIN chain /\ p.event = chain[n].id
  <2>1. DOMAIN chain = 0 .. Last(chain)
    BY FirstFacts, ChainFacts
  <2>2. QED
    BY <1>1, <2>1 DEF ProofOf
<1>3. chain[n] \in Events /\ chain[n].sn = n
  BY <1>2, ChainFacts
<1>4. e = chain[n]
  BY <1>2, <1>3, SameHash
<1>5. QED
  BY <1>1, <1>2, <1>3, <1>4

(* What is sent is an event; among honest nodes, a certified one.          *)
LEMMA SentFacts ==
  ASSUME TypeOK, NEW e \in Sent
  PROVE  /\ e \in Events /\ e.req \in {f.req : f \in Events} /\ e.sn \in Nat
         /\ honest => e.sn \in DOMAIN chain /\ e = chain[e.sn]
<1>1. e \in Events
  BY ChainFacts DEF Sent, Events
<1>2. honest => e.sn \in DOMAIN chain /\ e = chain[e.sn]
  BY ChainFacts DEF Sent
<1>3. QED
  BY <1>1, <1>2, EventFacts

(* An event comes with a proof; among honest nodes, with its own.          *)
LEMMA ProofsWithFacts ==
  ASSUME TypeOK, NEW e \in Sent, NEW p \in ProofsWith(e)
  PROVE  /\ p \in Proofs /\ p # None
         /\ honest => p = ProofOf(chain, e.sn)
<1>1. p \in Proofs /\ (honest => p.event = e.id)
  BY DEF ProofsWith
<1>2. p # None
  <2>1. chain \in Chains
    BY DEF TypeOK
  <2>2. QED
    BY <1>1, <2>1, NoneAssumption DEF Proofs
<1>3. e \in Events
  BY SentFacts
<1>4. QED
  BY <1>1, <1>2, <1>3, ProofNames

(* event_sourcing yields a subject: its sequence number is that of the event *)
(* (an end of life leaves it), and it changes hands to us only with a key.   *)
LEMMA SourcedFacts ==
  ASSUME NEW s \in Subjects, NEW e \in Events, e.kind # "create",
         NEW prev, CanSource(e, s, prev), keys \subseteq OurKeys,
         s.owner = Us => s.hasKeys /\ s.key \in OurKeys
  PROVE  LET t == Sourced(e, s)
         IN  /\ t \in Subjects
             /\ t.sn = IF e.kind = "eol" THEN s.sn ELSE e.sn
             /\ IF e.kind = "eol" THEN ~ t.active ELSE t.active = s.active
             /\ t.owner = Us => t.hasKeys /\ t.key \in OurKeys
<1>1. /\ e.sn \in Nat /\ e.kind \in {"fact", "transfer", "eol"}
      /\ e.kind \in {"transfer", "eol"} => e.approved
      /\ e.kind = "fact" /\ e.approved => e.new \in States
  BY EventFacts DEF Kinds
<1>2. CASE ~ e.approved
  BY <1>1, <1>2 DEF Sourced, Subjects
<1>3. CASE e.approved /\ e.kind = "fact"
  BY <1>1, <1>3 DEF Sourced, UpdateSubject, Subjects
<1>4. CASE e.approved /\ e.kind = "transfer"
  <2>1. Sourced(e, s) = TransferSubject(s, e)
    BY <1>4 DEF Sourced
  <2>2. e.signer = Us => e.key \in OurKeys
    BY <1>4 DEF CanSource, Expected
  <2>3. e.signer \in {f.signer : f \in Events} /\ e.key \in {f.key : f \in Events}
    OBVIOUS
  <2> DEFINE t == TransferSubject(s, e)
  <2>4. /\ t.sn = e.sn /\ t.owner = e.signer /\ t.key = e.key /\ t.active = s.active
        /\ t.hasKeys = (e.signer = Us)
    BY DEF TransferSubject, Subjects
  <2>5. t \in Subjects
    BY <1>1, <2>3 DEF TransferSubject, Subjects
  <2>6. QED
    BY <1>4, <2>1, <2>2, <2>4, <2>5
<1>5. CASE e.approved /\ e.kind = "eol"
  BY <1>1, <1>5 DEF Sourced, EolEvent, Subjects
<1>6. QED
  BY <1>1, <1>2, <1>3, <1>4, <1>5

(* The next event leaves a subject with its sequence number; it changes      *)
(* hands to us only with a key.                                              *)
LEMMA AfterNextFacts ==
  ASSUME TypeOK, OwnerHasKeys, subject # None, NEW e \in Events,
         NextTransfer(e) \/ NextFact(e) \/ NextEol(e)
  PROVE  /\ AfterNext(e) \in Subjects /\ AfterNext(e).sn = e.sn
         /\ AfterNext(e).owner = Us => AfterNext(e).hasKeys /\ AfterNext(e).key \in OurKeys
         /\ e.kind # "eol" => AfterNext(e).active
<1>1. subject \in Subjects /\ keys \subseteq OurKeys /\ e.sn \in Nat /\ subject.active
  BY EventFacts DEF TypeOK, NextTransfer, NextFact, NextEol, Ahead
<1>2. subject.owner = Us => subject.hasKeys /\ subject.key \in OurKeys
  BY DEF OwnerHasKeys
<1>3. e.kind = "fact" /\ e.approved => e.new \in States
  BY EventFacts
<1>4. CASE NextTransfer(e)
  <2>1. e.kind = "transfer" /\ (e.signer = Us => e.key \in OurKeys)
    BY <1>1, <1>4 DEF NextTransfer, MayTransfer, Expected
  <2>2. e.signer \in {f.signer : f \in Events} /\ e.key \in {f.key : f \in Events}
    OBVIOUS
  <2> DEFINE t == TransferSubject(subject, e)
  <2>3. /\ t.sn = e.sn /\ t.owner = e.signer /\ t.key = e.key /\ t.active = subject.active
        /\ t.hasKeys = (e.signer = Us)
    BY <1>1 DEF TransferSubject, Subjects
  <2>4. t \in Subjects
    BY <1>1, <2>2 DEF TransferSubject, Subjects
  <2>5. AfterNext(e) = t
    BY <2>1 DEF AfterNext
  <2>6. QED
    BY <1>1, <2>1, <2>3, <2>4, <2>5
<1>5. CASE NextFact(e)
  <2>1. e.kind = "fact"
    BY <1>5 DEF NextFact, MayInvoke
  <2>2. QED
    BY <1>1, <1>2, <1>3, <2>1 DEF AfterNext, UpdateSubject, Subjects
<1>6. CASE NextEol(e)
  <2>1. e.kind = "eol"
    BY <1>6 DEF NextEol, MayClose
  <2>2. QED
    BY <1>1, <1>2, <2>1 DEF AfterNext, EolEvent, Subjects
<1>7. QED
  BY <1>4, <1>5, <1>6

(* A set of natural numbers has a least one, and a bounded one a greatest.   *)
LEMMA LeastNumber ==
  ASSUME NEW T \in SUBSET Nat, T # {}
  PROVE  \E x \in T : \A y \in T : x <= y
<1>1. IsWellFoundedOn(OpToRel(<, Nat), Nat)
  BY NatLessThanWellFounded
<1>2. PICK x \in T : \A y \in T : ~ (<<y, x>> \in OpToRel(<, Nat))
  BY <1>1, WFMin
<1>3. \A y \in T : ~ (y < x)
  BY <1>2 DEF OpToRel
<1>4. QED
  BY <1>3

(* A bounded set of numbers has a greatest one.                            *)
LEMMA GreatestNumber ==
  ASSUME NEW T \in SUBSET Nat, T # {}, NEW N \in Nat, \A t \in T : t <= N
  PROVE  \E x \in T : \A y \in T : y <= x
<1> DEFINE U == {i \in Nat : \E t \in T : t + i = N}
<1>1. \A t \in T : N - t \in U
  OBVIOUS
<1>2. PICK i \in U : \A j \in U : i <= j
  BY <1>1, LeastNumber
<1>3. PICK t \in T : t + i = N
  BY <1>2
<1>4. \A y \in T : i <= N - y
  BY <1>1, <1>2
<1>5. QED
  BY <1>3, <1>4

(* A bounded set of numbers stays so with another one.                     *)
LEMMA BoundedAdd ==
  ASSUME NEW S, S \subseteq Nat, Bounded(S), NEW x \in Nat, NEW T, T \subseteq S \cup {x}
  PROVE  Bounded(T)
<1>1. PICK N \in Nat : \A n \in S : n <= N
  BY DEF Bounded
<1>2. N + x \in Nat /\ \A n \in T : n <= N + x
  BY <1>1
<1>3. QED
  BY <1>2 DEF Bounded

(* While the node is up, its database is one that init can take up: a gap    *)
(* has its head above, and without one the events are certified.             *)
LEMMA UpIsResumable ==
  ASSUME CoreInv', mode' = "up"
  PROVE  Resumable'
<1> USE DEF CoreInv
<1> SUFFICES ASSUME subject' # None, ~ overwritten'
             PROVE  /\ (\A n \in DOMAIN events' : n <= subject'.sn) => CertifiedTo(subject.sn)'
                    /\ subject'.sn + 1 \notin DOMAIN events' => ChainedTo(subject.sn)'
  BY DEF Resumable
<1>1. /\ ledger' # None /\ ledger' \in LedgerStates /\ subject' \in Subjects /\ subject'.sn \in Nat
      /\ ~ HeadForgotten'
  BY DEF Position, TypeOK, Subjects, HeadForgotten
<1>2. 0 \in DOMAIN chain'
  <2>1. chain' \in Chains
    BY DEF TypeOK
  <2>2. QED
    BY <2>1, LedgerAssumption
<1>3. CASE ledger'.head = None
  <2>1. ledger'.current \in Nat /\ subject'.sn <= ledger'.current
    BY <1>1, <1>3 DEF Position, LedgerStates
  <2>2. CertifiedTo(ledger.current)'
    BY <1>1, <1>3 DEF UpCertified, UpToDate
  <2>3. CASE ledger'.current = 0
    <3>1. subject'.sn = 0
      BY <1>1, <2>1, <2>3
    <3>2. QED
      BY <1>2, <3>1 DEF CertifiedTo, ChainedTo
  <2>4. CASE ledger'.current # 0
    <3>1. \A k \in 0 .. ledger'.current : events'[k] = chain'[k]
      BY <2>2, <2>4 DEF CertifiedTo
    <3>2. \A k \in 0 .. subject'.sn : events'[k] = chain'[k]
      BY <1>1, <2>1, <3>1
    <3>3. subject'.sn \in DOMAIN chain'
      <4>1. DOMAIN chain' = 0 .. Last(chain)' /\ Last(chain)' \in Nat /\ ledger'.current \in DOMAIN chain'
        BY <2>2, LedgerAssumption DEF CertifiedTo, TypeOK
      <4>2. QED
        BY <1>1, <2>1, <4>1
    <3>4. \A k \in 0 .. subject'.sn : 0 .. k \subseteq 0 .. subject'.sn
      BY <1>1
    <3>5. QED
      BY <3>2, <3>3, <3>4 DEF CertifiedTo, ChainedTo
  <2>5. QED
    BY <2>3, <2>4
<1>4. CASE ledger'.head # None
  <2>1. ledger'.head \in DOMAIN events' /\ ledger'.head > subject'.sn /\ ledger'.head \in Nat
    BY <1>1, <1>4 DEF HeadAbove, TypeOK
  <2>2. ~ \A n \in DOMAIN events' : n <= subject'.sn
    BY <1>1, <2>1
  <2>3. CASE ledger'.current = None
    <3>1. subject'.sn = 0
      BY <1>1, <2>3 DEF Position
    <3>2. QED
      BY <2>2, <3>1 DEF ChainedTo
  <2>4. CASE ledger'.current # None
    <3>1. /\ ledger'.current \in Nat
          /\ subject'.sn = ledger'.current \/ subject'.sn = ledger'.current + 1
      BY <1>1, <1>4, <2>4 DEF Position, LedgerStates
    <3>2. CASE subject'.sn = ledger'.current
      BY <1>1, <2>2, <2>4, <3>2 DEF Chained
    <3>3. CASE subject'.sn = ledger'.current + 1
      <4>1. ledger'.head = ledger'.current + 2
        BY <1>1, <1>4, <2>4, <3>3 DEF HeadAbove
      <4>2. ledger'.head = subject'.sn + 1
        BY <3>1, <3>3, <4>1
      <4>3. QED
        BY <2>1, <2>2, <4>2
    <3>4. QED
      BY <3>1, <3>2, <3>3
  <2>5. QED
    BY <2>3, <2>4
<1>5. QED
  BY <1>3, <1>4

-----------------------------------------------------------------------------
(* A subject made from a genesis is not ours.                                *)
LEMMA GenesisFacts ==
  ASSUME NEW e \in Events, e.kind = "create"
  PROVE  /\ FromGenesisEvent(e) \in Subjects /\ FromGenesisEvent(e) # None
         /\ FromGenesisEvent(e).sn = 0 /\ FromGenesisEvent(e).owner # Us
         /\ FromGenesisEvent(e).active
<1>1. e.signer # Us
  BY EventFacts
<1>2. /\ FromGenesisEvent(e).sn = 0 /\ FromGenesisEvent(e).owner # Us
      /\ FromGenesisEvent(e).active
  BY <1>1 DEF FromGenesisEvent
<1>3. FromGenesisEvent(e) \in Subjects
  BY LedgerAssumption DEF FromGenesisEvent, Subjects
<1>4. QED
  BY <1>2, <1>3, NoneAssumption

(* external_event for a create request keeps the invariant.                  *)
LEMMA ExternalCreateKeeps ==
  ASSUME CoreInv, NEW e \in Sent, ExternalCreate(e)
  PROVE  CoreInv' /\ mode' = "up"
<1> USE DEF CoreInv
<1>1. e \in Events /\ e.kind = "create" /\ e.sn = 0 /\ e.req \in {f.req : f \in Events}
  BY SentFacts, EventFacts DEF ExternalCreate
<1>2. /\ subject = None /\ subject' = FromGenesisEvent(e)
      /\ events' = Put(events, 0, e) /\ known' = known \cup {e.req}
      /\ ledger' = [current |-> 0, head |-> IF ledger = None THEN None ELSE ledger.head]
      /\ announced' = 0 /\ mode = "up"
      /\ UNCHANGED <<sigs, lceProof, keys, pending, refused, overwritten, asked, mode, crashes, chain,
                     isGov, honest, allowed>>
  BY <1>1 DEF ExternalCreate, CheckGenesis, Finish, Fresh, Unchanged, scenario
<1>3. /\ subject' \in Subjects /\ subject'.sn = 0 /\ subject'.owner # Us /\ subject' # None
      /\ subject'.active
  BY <1>1, <1>2, GenesisFacts
<1>4. /\ DOMAIN events' = DOMAIN events \cup {0} /\ events'[0] = e
      /\ \A z \in DOMAIN events : z # 0 => events'[z] = events[z]
  BY <1>2 DEF Put
<1>5. ledger' \in LedgerStates /\ ledger'.current = 0 /\ ledger' # None
      /\ ledger'.head = IF ledger = None THEN None ELSE ledger.head
  BY <1>2, NoneAssumption DEF TypeOK, LedgerStates
<1>6. TypeOK'
  <2>1. Proofs' = Proofs
    BY <1>2 DEF Proofs
  <2>2. \A k \in DOMAIN events' : events'[k] \in Events /\ events'[k].sn = k
    BY <1>1, <1>4 DEF TypeOK
  <2>3. QED
    BY <1>1, <1>2, <1>3, <1>4, <1>5, <2>1, <2>2 DEF TypeOK
<1>7. Stored'
  <2>1. IsFiniteSet(DOMAIN events')
    BY <1>4, FS_AddElement DEF Stored
  <2>2. Bounded(DOMAIN events')
    BY <1>4, BoundedAdd DEF Stored, TypeOK
  <2>3. honest => e = chain[0] /\ 0 \in DOMAIN chain
    BY <1>1, SentFacts
  <2>4. QED
    BY <1>1, <1>2, <1>3, <1>4, <2>1, <2>2, <2>3 DEF Stored
<1>8. Position'
  BY <1>1, <1>2, <1>3, <1>4, <1>5, NoneAssumption DEF Position
<1>9. HeadAbove'
  <2> SUFFICES ASSUME ledger'.head # None, ~ overwritten
               PROVE  ledger'.head \in DOMAIN events' /\ ledger'.head > 0
    BY <1>2, <1>3, <1>5 DEF HeadAbove
  <2>1. ledger # None /\ ledger'.head = ledger.head /\ ledger.head # None
    BY <1>5
  <2>2. QED
    BY <1>4, <2>1 DEF HeadAbove, Position
<1>10. Chained' /\ UpCertified'
  BY <1>2, <1>5, FirstFacts DEF Chained, ChainedTo, UpCertified, CertifiedTo
<1>11. OwnerHasKeys'
  BY <1>3 DEF OwnerHasKeys
<1>12. QED
  BY <1>2, <1>6, <1>7, <1>8, <1>9, <1>10, <1>11

(* The event after the subject is the one after current_sn; it follows a     *)
(* certified event.                                                          *)
LEMMA NextIsNext ==
  ASSUME CoreInv, NEW n \in DOMAIN chain, MayStoreNext(chain[n])
  PROVE  /\ mode = "up" /\ subject \in Subjects /\ subject # None
         /\ ledger # None /\ ledger.head = None /\ ledger.current \in Nat
         /\ n = ledger.current + 1 /\ n = subject.sn + 1
         /\ chain[n] \in Events /\ chain[n].sn = n
         /\ chain[n].req \in {f.req : f \in Events}
         /\ ledger.current \in DOMAIN chain /\ ledger.current \in DOMAIN events
         /\ events[ledger.current] = chain[ledger.current]
<1> USE DEF CoreInv
<1>1. /\ mode = "up" /\ ledger # None /\ ledger.current # None /\ chain[n].sn > ledger.current
      /\ chain[n].sn = subject.sn + 1 /\ ledger.head = None
  BY DEF MayStoreNext, NextTransfer, NextFact, NextEol, Ahead, Fresh, IsNext
<1>2. ledger.current \in Nat /\ subject # None /\ subject.sn <= ledger.current
  BY <1>1 DEF TypeOK, LedgerStates, Position
<1>3. subject \in Subjects /\ subject.sn \in Nat
  BY <1>2 DEF TypeOK, Subjects
<1>4. chain[n] \in Events /\ chain[n].sn = n /\ n \in Nat
  BY ChainFacts
<1>5. n = ledger.current + 1 /\ n = subject.sn + 1 /\ subject.sn = ledger.current
  BY <1>1, <1>2, <1>3, <1>4
<1>6. ledger.current \in DOMAIN chain /\ chain[n].prev = chain[ledger.current].id
  <2>1. n > 0 /\ n - 1 = ledger.current
    BY <1>2, <1>5
  <2>2. QED
    BY <2>1, ChainFacts
<1>7. ledger.current \in DOMAIN events /\ chain[n].prev = events[ledger.current].id
  BY <1>4, <1>5 DEF MayStoreNext, CheckValidationProof, ProofOf
<1>8. events[ledger.current] = chain[ledger.current]
  <2>1. events[ledger.current] \in Events /\ chain[ledger.current] \in Events
    BY <1>6, <1>7, ChainFacts DEF TypeOK
  <2>2. QED
    BY <1>6, <1>7, <2>1, SameHash
<1>9. QED
  BY <1>1, <1>2, <1>3, <1>4, <1>5, <1>6, <1>7, <1>8

(* All events below the next one are certified.                              *)
LEMMA NextIsCertified ==
  ASSUME CoreInv, NEW n \in DOMAIN chain, MayStoreNext(chain[n]), ~ HeadForgotten
  PROVE  \A k \in 0 .. ledger.current : events[k] = chain[k]
<1>1. /\ ledger # None /\ ledger.head = None /\ ledger.current \in Nat
      /\ events[ledger.current] = chain[ledger.current]
  BY NextIsNext
<1>2. CertifiedTo(ledger.current)
  BY <1>1 DEF CoreInv, UpCertified, UpToDate
<1>3. QED
  BY <1>1, <1>2 DEF CertifiedTo

(* external_event for the next event keeps the invariant.                    *)
LEMMA StoreNextKeeps ==
  ASSUME CoreInv, NEW n \in DOMAIN chain, StoreNext(chain[n])
  PROVE  CoreInv' /\ mode' = "up"
<1> DEFINE e == chain[n]
<1> USE DEF CoreInv
<1>1. /\ mode = "up" /\ subject \in Subjects /\ subject # None
      /\ ledger # None /\ ledger.head = None /\ ledger.current \in Nat
      /\ n = ledger.current + 1 /\ n = subject.sn + 1 /\ n \in Nat
      /\ e \in Events /\ e.sn = n /\ e.req \in {f.req : f \in Events}
      /\ ledger.current \in DOMAIN chain
  BY NextIsNext DEF StoreNext
<1>2. /\ subject' = AfterNext(e) /\ events' = Put(events, n, e) /\ known' = known \cup {e.req}
      /\ sigs' \subseteq sigs \cup {n} /\ keys' \subseteq keys /\ pending' \subseteq pending
      /\ ledger' = [current |-> n, head |-> None]
      /\ asked' \in {asked, n + 1} /\ announced' = n
      /\ UNCHANGED <<lceProof, refused, overwritten, mode, crashes, chain, isGov, honest, allowed>>
  BY <1>1 DEF StoreNext, Finish, Unchanged, scenario, KeysAfter
<1>3. /\ subject' \in Subjects /\ subject'.sn = n /\ subject' # None
      /\ subject'.owner = Us => subject'.hasKeys /\ subject'.key \in OurKeys
  BY <1>1, <1>2, AfterNextFacts, NoneAssumption DEF StoreNext, MayStoreNext
<1>4. /\ DOMAIN events' = DOMAIN events \cup {n} /\ events'[n] = e
      /\ \A z \in DOMAIN events : z # n => events'[z] = events[z]
  BY <1>2 DEF Put
<1>5. ledger' \in LedgerStates /\ ledger'.current = n /\ ledger' # None /\ ledger'.head = None
  BY <1>1, <1>2, NoneAssumption DEF LedgerStates
<1>6. TypeOK'
  <2>1. Proofs' = Proofs
    BY <1>2 DEF Proofs
  <2>2. \A k \in DOMAIN events' : events'[k] \in Events /\ events'[k].sn = k
    BY <1>1, <1>4 DEF TypeOK
  <2>3. QED
    BY <1>1, <1>2, <1>3, <1>4, <1>5, <2>1, <2>2 DEF TypeOK
<1>7. 0 .. ledger.current \subseteq DOMAIN events /\ 0 .. n \subseteq DOMAIN events'
  BY <1>1, <1>4, NoneAssumption DEF Position
<1>8. Stored'
  <2>1. IsFiniteSet(DOMAIN events')
    BY <1>4, FS_AddElement DEF Stored
  <2>2. Bounded(DOMAIN events')
    BY <1>1, <1>4, BoundedAdd DEF Stored, TypeOK
  <2>3. QED
    BY <1>1, <1>2, <1>3, <1>4, <1>7, <2>1, <2>2 DEF Stored
<1>9. Position'
  BY NoneAssumption, <1>1, <1>2, <1>3, <1>5, <1>7 DEF Position
<1>10. HeadAbove' /\ OwnerHasKeys'
  BY <1>3, <1>5 DEF HeadAbove, OwnerHasKeys
<1>11. Chained' /\ UpCertified'
  <2> SUFFICES ASSUME ~ HeadForgotten' PROVE ChainedTo(ledger.current)' /\ CertifiedTo(ledger.current)'
    BY DEF Chained, UpCertified
  <2>1. ~ HeadForgotten
    BY <1>2 DEF HeadForgotten
  <2>2. \A k \in 0 .. ledger.current : events[k] = chain[k]
    BY <2>1, NextIsCertified DEF StoreNext
  <2>3. \A k \in 0 .. n : events'[k] = chain[k]
    BY <1>1, <1>4, <1>7, <2>2
  <2>4. \A k \in 0 .. n : 0 .. k \subseteq 0 .. n
    BY <1>1
  <2>5. QED
    BY <1>2, <1>5, <2>3, <2>4 DEF ChainedTo, CertifiedTo
<1>12. QED
  BY <1>1, <1>2, <1>6, <1>8, <1>9, <1>10, <1>11

(* external_event keeps the invariant when it keeps an event as the head:    *)
(* the head it replaces is above the events of the subject.                  *)
LEMMA StoreLceKeeps ==
  ASSUME CoreInv, NEW e \in Sent, NEW p \in ProofsWith(e), Ahead(e), StoreLce(e, p),
         pending' \subseteq pending
  PROVE  CoreInv' /\ mode' = "up"
<1> DEFINE n == e.sn
<1> USE DEF CoreInv
<1>1. /\ mode = "up" /\ e.req \notin known /\ ledger # None /\ ledger.current # None
      /\ n > ledger.current /\ n > subject.sn /\ subject.active
      /\ ledger.head # None => n <= ledger.head
  BY DEF Ahead, Fresh, StoreLce
<1>2. /\ ledger.current \in Nat /\ subject \in Subjects /\ subject # None /\ subject.sn \in Nat
      /\ ledger \in LedgerStates
  BY <1>1 DEF TypeOK, LedgerStates, Position, Subjects
<1>3. /\ e \in Events /\ n \in Nat /\ n > 0 /\ e.req \in {f.req : f \in Events}
      /\ honest => n \in DOMAIN chain /\ e = chain[n]
      /\ p \in Proofs
  BY <1>1, <1>2, SentFacts, ProofsWithFacts
<1>4. ledger.head # None =>
        /\ ledger.head \in Nat /\ ledger.head >= n /\ ledger.head > ledger.current
        /\ honest => ledger.head # n
  <2> SUFFICES ASSUME ledger.head # None
               PROVE  /\ ledger.head \in Nat /\ ledger.head >= n /\ ledger.head > ledger.current
                      /\ honest => ledger.head # n
    OBVIOUS
  <2>1. ledger.head \in Nat /\ (honest => chain[ledger.head].req \in known)
    BY <1>1, <1>2 DEF Position, LedgerStates
  <2>2. honest => ledger.head # n
    BY <1>1, <1>3, <2>1
  <2>3. QED
    BY <1>1, <1>2, <1>3, <2>1, <2>2
<1>5. /\ known' = known \cup {e.req} /\ sigs' \subseteq sigs \cup {n} /\ lceProof' = p
      /\ ledger' = [ledger EXCEPT !.head = n] /\ asked' = 0
      /\ UNCHANGED <<subject, keys, refused, announced, mode, crashes, chain, isGov, honest, allowed>>
  BY DEF StoreLce, Finish, Unchanged, scenario
<1>6. /\ ledger' \in LedgerStates /\ ledger' # None /\ ledger'.head = n /\ n # None
      /\ ledger'.current = ledger.current
  BY <1>2, <1>3, <1>5, NoneAssumption DEF LedgerStates
<1>7. /\ overwritten' \in BOOLEAN
      /\ ~ overwritten' => ~ overwritten /\ n # ledger.head
      /\ overwritten' => overwritten \/ n = ledger.head
  BY DEF StoreLce
<1>8. /\ DOMAIN events' = IF ledger.head = None THEN DOMAIN events \cup {n}
                          ELSE (DOMAIN events \cup {n}) \ {ledger.head}
      /\ \A z \in DOMAIN events' : z # n => z \in DOMAIN events /\ events'[z] = events[z]
      /\ n \in DOMAIN events' => events'[n] = e
  BY DEF StoreLce, Put, Drop
<1>9. \A z \in DOMAIN events : z \in Nat /\ z < n => z \in DOMAIN events'
  BY <1>3, <1>4, <1>8
<1>10. TypeOK'
  <2>1. Proofs' = Proofs
    BY <1>5 DEF Proofs
  <2>2. \A k \in DOMAIN events' : events'[k] \in Events /\ events'[k].sn = k /\ k \in Nat
    BY <1>3, <1>8 DEF TypeOK
  <2>3. sigs' \subseteq Nat
    BY <1>3, <1>5 DEF TypeOK
  <2>4. QED
    BY <1>3, <1>5, <1>6, <1>7, <2>1, <2>2, <2>3 DEF TypeOK
<1>11. 0 .. subject.sn \subseteq DOMAIN events' /\ 0 .. ledger.current \subseteq DOMAIN events'
  BY <1>1, <1>2, <1>3, <1>9 DEF Stored, Position
<1>12. Stored'
  <2>1. IsFiniteSet(DOMAIN events \cup {n})
    BY FS_AddElement DEF Stored
  <2>2. IsFiniteSet(DOMAIN events')
    BY <1>8, <2>1, FS_RemoveElement
  <2>3. \A k \in DOMAIN events' : events'[k].req \in known'
    BY <1>5, <1>8 DEF Stored
  <2>4. honest => \A k \in DOMAIN events' : k \in DOMAIN chain /\ events'[k] = chain[k]
    BY <1>3, <1>8 DEF Stored
  <2>5. Bounded(DOMAIN events')
    BY <1>3, <1>8, BoundedAdd DEF Stored, TypeOK
  <2>6. honest => ~ overwritten'
    BY <1>3, <1>4, <1>7, NoneAssumption DEF Stored
  <2>7. QED
    BY <1>1, <1>5, <1>11, <2>2, <2>3, <2>4, <2>5, <2>6 DEF Stored
<1>13. Position'
  BY NoneAssumption, <1>1, <1>2, <1>3, <1>5, <1>6, <1>11 DEF Position
<1>14. HeadAbove'
  <2> SUFFICES ASSUME ~ overwritten'
               PROVE  n \in DOMAIN events' /\ n > subject.sn
                      /\ (subject.sn = ledger.current + 1 => n = ledger.current + 2)
    BY <1>5, <1>6 DEF HeadAbove
  <2>1. n \in DOMAIN events'
    BY <1>7, <1>8
  <2>2. ASSUME subject.sn = ledger.current + 1 PROVE n = ledger.current + 2
    <3>1. ledger.head # None
      BY <1>1, <1>2, <2>2 DEF Position
    <3>2. ledger.head = ledger.current + 2
      BY <1>1, <1>7, <2>2, <3>1 DEF HeadAbove
    <3>3. QED
      BY <1>1, <1>2, <1>3, <1>4, <2>2, <3>1, <3>2
  <2>3. QED
    BY <1>1, <2>1, <2>2
<1>15. Chained'
  <2> SUFFICES ASSUME ~ HeadForgotten' PROVE ChainedTo(ledger.current)'
    BY DEF Chained
  <2>1. ~ HeadForgotten
    BY <1>5, <1>7 DEF HeadForgotten
  <2>2. \A k \in 0 .. ledger.current : events'[k] = events[k]
    BY <1>1, <1>2, <1>3, <1>8, <1>11
  <2>3. \A k \in 0 .. ledger.current : 0 .. k \subseteq 0 .. ledger.current
    BY <1>2
  <2>4. QED
    BY <1>1, <1>5, <1>6, <2>1, <2>2, <2>3 DEF Chained, ChainedTo
<1>16. UpCertified' /\ OwnerHasKeys'
  BY <1>5, <1>6 DEF UpCertified, UpToDate, OwnerHasKeys
<1>17. QED
  BY <1>1, <1>5, <1>10, <1>12, <1>13, <1>14, <1>15, <1>16

(* external_event keeps the invariant when an event is all it knows.         *)
LEMMA FirstLceKeeps ==
  ASSUME CoreInv, NEW e \in Sent, NEW p \in ProofsWith(e), e.kind # "create", FirstLce(e, p)
  PROVE  CoreInv' /\ mode' = "up"
<1> DEFINE n == e.sn
<1> USE DEF CoreInv
<1>1. /\ mode = "up" /\ ledger = None /\ subject = None
  BY DEF FirstLce, Fresh, Position
<1>2. /\ e \in Events /\ n \in Nat /\ n > 0 /\ e.req \in {f.req : f \in Events} /\ p \in Proofs
      /\ honest => n \in DOMAIN chain /\ e = chain[n]
  BY SentFacts, EventFacts, ProofsWithFacts
<1>3. /\ known' = known \cup {e.req} /\ sigs' = sigs \cup {n}
      /\ lceProof' = p /\ events' = Put(events, n, e)
      /\ ledger' = [current |-> None, head |-> n] /\ asked' = 0
      /\ UNCHANGED <<subject, keys, pending, refused, overwritten, announced, mode, crashes, chain,
                     isGov, honest, allowed>>
  BY DEF FirstLce, Finish, Unchanged, scenario
<1>4. /\ ledger' \in LedgerStates /\ ledger' # None /\ ledger'.head = n /\ ledger'.current = None
      /\ n # None
  BY <1>2, <1>3, NoneAssumption DEF LedgerStates
<1>5. /\ DOMAIN events' = DOMAIN events \cup {n} /\ events'[n] = e
      /\ \A z \in DOMAIN events : z # n => events'[z] = events[z]
  BY <1>3 DEF Put
<1>6. TypeOK'
  <2>1. Proofs' = Proofs
    BY <1>3 DEF Proofs
  <2>2. \A k \in DOMAIN events' : events'[k] \in Events /\ events'[k].sn = k /\ k \in Nat
    BY <1>2, <1>5 DEF TypeOK
  <2>3. QED
    BY <1>2, <1>3, <1>4, <2>1, <2>2 DEF TypeOK
<1>7. Stored'
  <2>1. IsFiniteSet(DOMAIN events')
    BY <1>5, FS_AddElement DEF Stored
  <2>2. Bounded(DOMAIN events')
    BY <1>2, <1>5, BoundedAdd DEF Stored, TypeOK
  <2>3. QED
    BY <1>1, <1>2, <1>3, <1>5, <2>1, <2>2 DEF Stored
<1>8. Position'
  BY <1>1, <1>2, <1>3, <1>4 DEF Position
<1>9. HeadAbove' /\ Chained' /\ UpCertified' /\ OwnerHasKeys'
  BY <1>1, <1>2, <1>3, <1>4, <1>5 DEF HeadAbove, Chained, UpCertified, UpToDate, OwnerHasKeys
<1>10. QED
  BY <1>1, <1>3, <1>6, <1>7, <1>8, <1>9

-----------------------------------------------------------------------------
(* What external_intermediate_event writes before it tests the event: the    *)
(* entry after current_sn.                                                   *)
LEMMA StoreIntermediateFacts ==
  ASSUME CoreInv, NEW e \in Sent, StoreIntermediate(e)
  PROVE  /\ mode = "up" /\ e \in Events /\ e.kind \in {"fact", "transfer"}
         /\ ledger \in LedgerStates /\ ledger # None
         /\ ledger.current \in Nat /\ ledger.head \in Nat
         /\ e.sn = ledger.current + 1
         /\ subject \in Subjects /\ subject # None /\ subject.sn \in Nat
         /\ subject.sn <= e.sn /\ ledger.current <= subject.sn
         /\ subject.owner = Us => subject.hasKeys /\ subject.key \in OurKeys
         /\ DOMAIN events' = DOMAIN events \cup {e.sn} /\ events'[e.sn] = e
         /\ \A z \in DOMAIN events : z # e.sn => events'[z] = events[z]
         /\ 0 .. e.sn \subseteq DOMAIN events'
         /\ \A k \in 0 .. ledger.current : k \in DOMAIN events /\ events'[k] = events[k]
         /\ known \subseteq known'
         /\ ~ overwritten' => ~ overwritten /\ e.sn # ledger.head
         /\ ~ HeadForgotten' => ~ HeadForgotten
         /\ UNCHANGED <<sigs, mode, crashes, chain, isGov, honest, allowed>>
<1> USE DEF CoreInv
<1>1. /\ mode = "up" /\ e.kind \in {"fact", "transfer"}
      /\ ledger # None /\ ledger.head # None /\ ledger.current # None
      /\ e.sn = ledger.current + 1 /\ events' = Put(events, e.sn, e) /\ known \subseteq known'
      /\ UNCHANGED <<sigs, mode, crashes, chain, isGov, honest, allowed>>
  BY DEF StoreIntermediate, Fresh, Finish, Unchanged, scenario
<1>2. /\ ledger \in LedgerStates /\ ledger.current \in Nat /\ ledger.head \in Nat
      /\ subject # None /\ subject \in Subjects
      /\ subject.sn \in Nat /\ subject.sn <= ledger.current + 1 /\ ledger.current <= subject.sn
      /\ 0 .. ledger.current \subseteq DOMAIN events
  BY <1>1 DEF TypeOK, LedgerStates, Position, Subjects
<1>3. /\ DOMAIN events' = DOMAIN events \cup {e.sn} /\ events'[e.sn] = e
      /\ \A z \in DOMAIN events : z # e.sn => events'[z] = events[z]
  BY <1>1 DEF Put
<1>4. /\ 0 .. e.sn \subseteq DOMAIN events'
      /\ \A k \in 0 .. ledger.current : k \in DOMAIN events /\ events'[k] = events[k]
  BY <1>1, <1>2, <1>3
<1>5. ~ overwritten' => ~ overwritten /\ e.sn # ledger.head
  BY DEF StoreIntermediate
<1>6. ~ HeadForgotten' => ~ HeadForgotten
  BY <1>1, <1>5 DEF HeadForgotten
<1>7. QED
  BY <1>1, <1>2, <1>3, <1>4, <1>5, <1>6, SentFacts DEF OwnerHasKeys

(* ... and the database stays well-formed, if the subject is one whose       *)
(* events are there.                                                         *)
LEMMA StoreIntermediateKeeps ==
  ASSUME CoreInv, NEW e \in Sent, StoreIntermediate(e),
         subject' \in Subjects, 0 .. subject'.sn \subseteq DOMAIN events',
         ledger' \in LedgerStates, lceProof' \in {lceProof, None}, keys' \subseteq keys,
         asked' \in Nat \cup {asked}, announced' \in Nat \cup {announced},
         refused' \in BOOLEAN
  PROVE  TypeOK' /\ Stored'
<1> USE DEF CoreInv
<1>0. e.sn \in Nat /\ e.req \in {f.req : f \in Events}
      /\ (honest => e.sn \in DOMAIN chain /\ e = chain[e.sn])
  BY SentFacts
<1>1. /\ e \in Events /\ mode = "up"
      /\ DOMAIN events' = DOMAIN events \cup {e.sn} /\ events'[e.sn] = e
      /\ \A z \in DOMAIN events : z # e.sn => events'[z] = events[z]
      /\ UNCHANGED <<sigs, mode, crashes, chain, isGov, honest, allowed>>
  BY StoreIntermediateFacts
<1>2. known' = known \cup {e.req} /\ pending' = pending \ {e} /\ e.req \notin known
      /\ ledger # None /\ ledger.head # None
  BY DEF StoreIntermediate, Finish, Fresh
<1>3. overwritten' \in BOOLEAN /\ (overwritten' => overwritten \/ e.sn = ledger.head)
  BY DEF StoreIntermediate
<1>4. TypeOK'
  <2>1. Proofs' = Proofs
    BY <1>1 DEF Proofs
  <2>2. \A k \in DOMAIN events' : events'[k] \in Events /\ events'[k].sn = k /\ k \in Nat
    BY <1>0, <1>1 DEF TypeOK
  <2>3. QED
    BY <1>0, <1>1, <1>2, <1>3, <2>1, <2>2 DEF TypeOK
<1>5. Stored'
  <2>1. IsFiniteSet(DOMAIN events')
    BY <1>1, FS_AddElement DEF Stored
  <2>2. \A k \in DOMAIN events' : events'[k].req \in known'
    BY <1>1, <1>2 DEF Stored
  <2>3. honest => \A k \in DOMAIN events' : k \in DOMAIN chain /\ events'[k] = chain[k]
    BY <1>0, <1>1 DEF Stored
  <2>4. Bounded(DOMAIN events')
    BY <1>0, <1>1, BoundedAdd DEF Stored, TypeOK
  <2>5. honest => ~ overwritten'
    <3>1. honest => chain[ledger.head].req \in known
      BY <1>2 DEF Position
    <3>2. QED
      BY <1>0, <1>2, <1>3, <3>1 DEF Stored
  <2>6. QED
    BY <1>1, <2>1, <2>2, <2>3, <2>4, <2>5 DEF Stored
<1>6. QED
  BY <1>4, <1>5

(* external_intermediate_event keeps the invariant when the gap stays open.  *)
LEMMA IntermediateEventKeeps ==
  ASSUME CoreInv, NEW e \in Sent, IntermediateEvent(e)
  PROVE  CoreInv' /\ mode' = "up"
<1> USE DEF CoreInv
<1>1. /\ StoreIntermediate(e) /\ CanSource(e, subject, events[e.sn - 1])
      /\ ledger.head # ledger.current + 2 /\ subject' = Sourced(e, subject)
      /\ keys' \subseteq keys /\ ledger' = [ledger EXCEPT !.current = e.sn]
      /\ asked' = e.sn + 1 /\ UNCHANGED <<lceProof, announced>>
  BY DEF IntermediateEvent, KeysAfter
<1>2. /\ mode = "up" /\ e \in Events /\ e.kind \in {"fact", "transfer"}
      /\ ledger \in LedgerStates /\ ledger # None
      /\ ledger.current \in Nat /\ ledger.head \in Nat
      /\ e.sn = ledger.current + 1 /\ subject \in Subjects /\ subject # None
      /\ subject.sn \in Nat /\ ledger.current <= subject.sn
      /\ subject.owner = Us => subject.hasKeys /\ subject.key \in OurKeys
      /\ DOMAIN events' = DOMAIN events \cup {e.sn} /\ events'[e.sn] = e
      /\ \A z \in DOMAIN events : z # e.sn => events'[z] = events[z]
      /\ 0 .. e.sn \subseteq DOMAIN events'
      /\ \A k \in 0 .. ledger.current : k \in DOMAIN events /\ events'[k] = events[k]
      /\ known \subseteq known'
      /\ ~ overwritten' => ~ overwritten /\ e.sn # ledger.head
      /\ ~ HeadForgotten' => ~ HeadForgotten
      /\ UNCHANGED <<sigs, mode, crashes, chain, isGov, honest, allowed>>
  BY <1>1, StoreIntermediateFacts
<1>3. /\ subject' \in Subjects /\ subject'.sn = e.sn /\ subject' # None
      /\ subject'.owner = Us => subject'.hasKeys /\ subject'.key \in OurKeys
  BY <1>1, <1>2, SourcedFacts, NoneAssumption DEF TypeOK
<1>4. /\ ledger' \in LedgerStates /\ ledger' # None /\ ledger'.current = e.sn
      /\ ledger'.head = ledger.head /\ ledger.head # None
  BY <1>1, <1>2, NoneAssumption DEF LedgerStates
<1>5. TypeOK' /\ Stored'
  <2>1. refused' \in BOOLEAN
    BY DEF IntermediateEvent, TypeOK
  <2>2. QED
    BY <1>1, <1>2, <1>3, <1>4, <2>1, StoreIntermediateKeeps
<1>6. Position'
  BY <1>2, <1>3, <1>4, NoneAssumption DEF Position
<1>7. HeadAbove'
  <2> SUFFICES ASSUME ~ overwritten' PROVE ledger.head \in DOMAIN events' /\ ledger.head > e.sn
    BY <1>2, <1>3, <1>4 DEF HeadAbove
  <2>1. ledger.head \in DOMAIN events /\ ledger.head > subject.sn /\ ledger.head # e.sn
    BY <1>2, <1>4 DEF HeadAbove
  <2>2. QED
    BY <1>2, <2>1
<1>8. Chained'
  <2> SUFFICES ASSUME ~ HeadForgotten',
                      NEW k \in 0 .. e.sn, k \in DOMAIN chain, events'[k] = chain[k],
                      NEW j \in 0 .. k
               PROVE  events'[j] = chain[j]
    BY <1>2, <1>4 DEF Chained, ChainedTo
  <2>1. \A i \in 0 .. ledger.current :
          i \in DOMAIN chain /\ events[i] = chain[i] => \A l \in 0 .. i : events[l] = chain[l]
    BY <1>2, NoneAssumption DEF Chained, ChainedTo
  <2>2. CASE k = e.sn /\ j # k
    <3>1. k > 0 /\ k - 1 \in DOMAIN chain /\ chain[k].prev = chain[k - 1].id
      BY <1>2, <2>2, ChainFacts
    <3>2. e = chain[k] /\ e.prev = events[k - 1].id /\ k - 1 = ledger.current
      BY <1>1, <1>2, <2>2 DEF CanSource
    <3>3. events[k - 1] \in Events /\ chain[k - 1] \in Events
      BY <1>2, <3>1, <3>2, ChainFacts DEF TypeOK
    <3>4. events[k - 1] = chain[k - 1]
      BY <3>1, <3>2, <3>3, SameHash
    <3>5. j \in 0 .. k - 1
      BY <1>2, <2>2
    <3>6. QED
      BY <1>2, <2>1, <3>1, <3>2, <3>4, <3>5
  <2>3. CASE k # e.sn
    BY <1>2, <2>1, <2>3
  <2>4. QED
    BY <2>2, <2>3
<1>9. UpCertified' /\ OwnerHasKeys'
  BY <1>3, <1>4 DEF UpCertified, UpToDate, OwnerHasKeys
<1>10. QED
  BY <1>2, <1>5, <1>6, <1>7, <1>8, <1>9

(* external_intermediate_event keeps the invariant when it refuses the event *)
(* it has stored, or the head above it.                                      *)
LEMMA IntermediateUnsourcedKeeps ==
  ASSUME CoreInv, NEW e \in Sent, StoreIntermediate(e),
         UNCHANGED <<ledger, lceProof, announced, asked>>, keys' \subseteq keys, refused' \in BOOLEAN,
         subject' \in Subjects,
         subject'.sn = subject.sn \/ (subject'.sn = e.sn /\ ledger.head = ledger.current + 2),
         subject'.owner = Us => subject'.hasKeys /\ subject'.key \in OurKeys
  PROVE  CoreInv' /\ mode' = "up"
<1> USE DEF CoreInv
<1>2. /\ mode = "up" /\ ledger \in LedgerStates /\ ledger # None
      /\ ledger.current \in Nat /\ ledger.head \in Nat
      /\ e.sn = ledger.current + 1 /\ subject # None
      /\ subject.sn \in Nat /\ subject.sn <= e.sn /\ ledger.current <= subject.sn
      /\ \A z \in DOMAIN events : z # e.sn => events'[z] = events[z]
      /\ DOMAIN events' = DOMAIN events \cup {e.sn}
      /\ 0 .. e.sn \subseteq DOMAIN events'
      /\ \A k \in 0 .. ledger.current : k \in DOMAIN events /\ events'[k] = events[k]
      /\ known \subseteq known'
      /\ ~ overwritten' => ~ overwritten /\ e.sn # ledger.head
      /\ ~ HeadForgotten' => ~ HeadForgotten
      /\ UNCHANGED <<sigs, mode, crashes, chain, isGov, honest, allowed>>
  BY StoreIntermediateFacts
<1>3. subject' # None /\ ledger.head # None /\ ledger.current # None
  BY <1>2, NoneAssumption
<1>4. 0 .. subject'.sn \subseteq DOMAIN events'
  BY <1>2
<1>5. TypeOK' /\ Stored'
  BY <1>2, <1>4, StoreIntermediateKeeps
<1>6. Position'
  <2>1. /\ ledger.head > 0
        /\ honest => ledger.head \in DOMAIN chain /\ chain[ledger.head].req \in known'
    BY <1>2, <1>3 DEF Position
  <2>2. 0 .. ledger.current \subseteq DOMAIN events'
    BY <1>2
  <2>3. subject'.sn <= ledger.current + 1 /\ ledger.current <= subject'.sn
    BY <1>2
  <2>4. QED
    BY <1>2, <1>3, <2>1, <2>2, <2>3 DEF Position
<1>7. HeadAbove'
  <2> SUFFICES ASSUME ~ overwritten'
               PROVE  /\ ledger.head \in DOMAIN events' /\ ledger.head > subject'.sn
                      /\ subject'.sn = ledger.current + 1 => ledger.head = ledger.current + 2
    BY <1>2, <1>3 DEF HeadAbove
  <2>1. /\ ledger.head \in DOMAIN events /\ ledger.head > subject.sn
        /\ subject.sn = ledger.current + 1 => ledger.head = ledger.current + 2
    BY <1>2, <1>3 DEF HeadAbove
  <2>2. QED
    BY <1>2, <2>1
<1>8. Chained'
  <2>1. \A k \in 0 .. ledger.current : 0 .. k \subseteq 0 .. ledger.current
    BY <1>2
  <2>2. QED
    BY <1>2, <1>3, <2>1 DEF Chained, ChainedTo
<1>9. UpCertified' /\ OwnerHasKeys'
  BY <1>2, <1>3 DEF UpCertified, UpToDate, OwnerHasKeys
<1>10. QED
  BY <1>2, <1>5, <1>6, <1>7, <1>8, <1>9


(* external_intermediate_event keeps the invariant when it closes the gap:   *)
(* the head is the event its proof names, and vouches for those below.       *)
LEMMA ApplyHeadKeeps ==
  ASSUME CoreInv, NEW e \in Sent, StoreIntermediate(e),
         CanSource(e, subject, events[e.sn - 1]), ledger.head = ledger.current + 2,
         ApplyHead(Sourced(e, subject), events'), keys' \subseteq keys
  PROVE  CoreInv' /\ mode' = "up"
<1> DEFINE s == Sourced(e, subject)
           h == ledger.head
<1> USE DEF CoreInv
<1>1. /\ HeadFits(s, events') /\ subject' = Sourced(events'[h], s)
      /\ ledger' = [current |-> h, head |-> None]
      /\ lceProof' = None /\ announced' = h /\ asked' = asked
  BY DEF ApplyHead
<1>2. /\ mode = "up" /\ e \in Events /\ e.kind \in {"fact", "transfer"}
      /\ ledger \in LedgerStates /\ ledger # None
      /\ ledger.current \in Nat /\ h \in Nat
      /\ e.sn = ledger.current + 1 /\ subject \in Subjects /\ subject # None
      /\ subject.owner = Us => subject.hasKeys /\ subject.key \in OurKeys
      /\ DOMAIN events' = DOMAIN events \cup {e.sn} /\ events'[e.sn] = e
      /\ \A z \in DOMAIN events : z # e.sn => events'[z] = events[z]
      /\ 0 .. e.sn \subseteq DOMAIN events'
      /\ \A k \in 0 .. ledger.current : k \in DOMAIN events /\ events'[k] = events[k]
      /\ ~ HeadForgotten' => ~ HeadForgotten
      /\ UNCHANGED <<sigs, mode, crashes, chain, isGov, honest, allowed>>
  BY StoreIntermediateFacts
<1>3. /\ h = e.sn + 1 /\ h \in DOMAIN events /\ h \in DOMAIN events' /\ events'[h] = events[h]
      /\ h \in DOMAIN chain /\ events'[h] = chain[h]
  <2>1. h = e.sn + 1 /\ h \in DOMAIN events' /\ lceProof # None /\ lceProof.event = events'[h].id
    BY <1>1, <1>2 DEF HeadFits, CheckValidationProof
  <2>2. h \in DOMAIN events /\ events'[h] = events[h]
    BY <1>2, <2>1
  <2>3. lceProof \in Proofs /\ events[h] \in Events /\ events[h].sn = h
    BY <2>1, <2>2 DEF TypeOK
  <2>4. QED
    BY <2>1, <2>2, <2>3, ProofNames
<1>4. /\ chain[h] \in Events /\ chain[h].sn = h /\ chain[h].kind # "create"
      /\ e.sn \in DOMAIN chain /\ chain[h].prev = chain[e.sn].id /\ chain[e.sn] \in Events
      /\ chain[e.sn].sn = e.sn /\ ledger.current \in DOMAIN chain
      /\ chain[e.sn].prev = chain[ledger.current].id /\ chain[ledger.current] \in Events
  <2>0. h \in DOMAIN chain /\ h > 0 /\ TypeOK
    BY <1>2, <1>3
  <2>1. /\ chain[h] \in Events /\ chain[h].sn = h /\ chain[h].kind # "create"
        /\ h - 1 \in DOMAIN chain /\ chain[h].prev = chain[h - 1].id
    BY <2>0, ChainFacts
  <2>2. h - 1 = e.sn /\ e.sn - 1 = ledger.current
    BY <1>2, <1>3
  <2>3. /\ chain[e.sn] \in Events /\ chain[e.sn].sn = e.sn
        /\ e.sn - 1 \in DOMAIN chain /\ chain[e.sn].prev = chain[e.sn - 1].id
    <3>1. e.sn \in DOMAIN chain /\ e.sn > 0 /\ TypeOK
      BY <1>2, <2>1, <2>2
    <3>2. QED
      BY <3>1, ChainFacts
  <2>4. chain[ledger.current] \in Events
    BY <2>2, <2>3, ChainFacts
  <2>5. QED
    BY <2>1, <2>2, <2>3, <2>4
<1>5. e = chain[e.sn]
  <2>1. CanSource(events'[h], s, events'[h - 1]) /\ h - 1 = e.sn
    BY <1>1, <1>2, <1>3 DEF HeadFits
  <2>2. chain[h].prev = e.id
    BY <1>2, <1>3, <2>1 DEF CanSource
  <2>3. chain[e.sn].id = e.id
    BY <1>4, <2>2
  <2>4. QED
    BY <1>2, <1>4, <2>3, SameHash
<1>6. events[ledger.current] = chain[ledger.current]
  <2>1. e.prev = events[ledger.current].id /\ events[ledger.current] \in Events
    BY <1>2 DEF CanSource, TypeOK
  <2>2. QED
    BY <1>4, <1>5, <2>1, SameHash
<1>7. 0 .. h \subseteq DOMAIN events'
  BY <1>2, <1>3
<1>8. ~ HeadForgotten' => \A k \in 0 .. h : events'[k] = chain[k]
  <2> SUFFICES ASSUME ~ HeadForgotten' PROVE \A k \in 0 .. h : events'[k] = chain[k]
    OBVIOUS
  <2>1. ChainedTo(ledger.current)
    BY <1>2, NoneAssumption DEF Chained
  <2>2. \A k \in 0 .. ledger.current : events[k] = chain[k]
    BY <1>2, <1>4, <1>6, <2>1 DEF ChainedTo
  <2>3. QED
    BY <1>2, <1>3, <1>5, <2>2
<1>9. /\ s \in Subjects /\ s.sn = e.sn
      /\ s.owner = Us => s.hasKeys /\ s.key \in OurKeys
  BY <1>2, SourcedFacts DEF TypeOK
<1>10. /\ subject' \in Subjects /\ subject'.sn \in {h - 1, h}
       /\ subject'.sn = h \/ ~ subject'.active
       /\ subject'.owner = Us => subject'.hasKeys /\ subject'.key \in OurKeys
  <2>1. CanSource(chain[h], s, events'[h - 1]) /\ subject' = Sourced(chain[h], s)
    BY <1>1, <1>3 DEF HeadFits
  <2>2. /\ subject' \in Subjects
        /\ subject'.sn = IF chain[h].kind = "eol" THEN s.sn ELSE h
        /\ chain[h].kind = "eol" => ~ subject'.active
        /\ subject'.owner = Us => subject'.hasKeys /\ subject'.key \in OurKeys
    BY <1>4, <1>9, <2>1, SourcedFacts DEF TypeOK
  <2>3. s.sn = h - 1
    BY <1>2, <1>3, <1>9
  <2>4. QED
    BY <1>2, <2>2, <2>3
<1>11. /\ ledger' \in LedgerStates /\ ledger' # None /\ ledger'.head = None
       /\ ledger'.current = h /\ subject' # None /\ h # None
  BY <1>1, <1>2, <1>10, NoneAssumption DEF LedgerStates
<1>12. TypeOK' /\ Stored'
  <2>1. 0 .. subject'.sn \subseteq DOMAIN events'
    BY <1>2, <1>7, <1>10
  <2>2. refused' \in BOOLEAN
    BY DEF ApplyHead, TypeOK
  <2>3. QED
    BY <1>1, <1>2, <1>10, <1>11, <2>1, <2>2, StoreIntermediateKeeps
<1>13. Position'
  <2>1. subject'.sn <= h /\ subject'.sn <= h + 1 /\ (h <= subject'.sn \/ (~ subject'.active /\ h = subject'.sn + 1))
    BY <1>2, <1>10
  <2>2. QED
    BY <1>2, <1>7, <1>11, <2>1 DEF Position
<1>14. HeadAbove' /\ OwnerHasKeys'
  BY <1>10, <1>11 DEF HeadAbove, OwnerHasKeys
<1>15. Chained' /\ UpCertified'
  <2> SUFFICES ASSUME ~ HeadForgotten' PROVE ChainedTo(ledger.current)' /\ CertifiedTo(ledger.current)'
    BY DEF Chained, UpCertified
  <2>1. \A k \in 0 .. h : 0 .. k \subseteq 0 .. h
    BY <1>2
  <2>2. \A k \in 0 .. h : events'[k] = chain'[k]
    BY <1>2, <1>8
  <2>3. QED
    BY <1>2, <1>3, <1>11, <2>1, <2>2 DEF ChainedTo, CertifiedTo
<1>16. QED
  BY <1>2, <1>12, <1>13, <1>14, <1>15

(* external_intermediate_event keeps the invariant when the gap has only the *)
(* event in it: the head is applied, or refused.                             *)
LEMMA IntermediateBelowHeadKeeps ==
  ASSUME CoreInv, NEW e \in Sent, IntermediateBelowHead(e)
  PROVE  CoreInv' /\ mode' = "up"
<1>1. StoreIntermediate(e) /\ CanSource(e, subject, events[e.sn - 1])
      /\ ledger.head = ledger.current + 2
  BY DEF IntermediateBelowHead
<1>2. CASE ApplyHead(Sourced(e, subject), events')
             /\ keys' = KeysAfter(e) \cap KeysAfter(events[ledger.head])
  BY <1>1, <1>2, ApplyHeadKeeps DEF KeysAfter
<1>3. CASE RefuseHead(Sourced(e, subject), events') /\ keys' = KeysAfter(e)
  <2>1. /\ e \in Events /\ e.kind \in {"fact", "transfer"} /\ subject \in Subjects
        /\ subject.owner = Us => subject.hasKeys /\ subject.key \in OurKeys
    BY <1>1, StoreIntermediateFacts
  <2>2. /\ subject' = Sourced(e, subject) /\ UNCHANGED <<ledger, lceProof, announced, asked>>
        /\ keys' \subseteq keys /\ refused' \in BOOLEAN
    BY <1>3 DEF RefuseHead, KeysAfter
  <2>3. keys \subseteq OurKeys
    BY DEF CoreInv, TypeOK
  <2>4. /\ subject' \in Subjects /\ subject'.sn = e.sn
        /\ subject'.owner = Us => subject'.hasKeys /\ subject'.key \in OurKeys
    BY <1>1, <2>1, <2>2, <2>3, SourcedFacts
  <2>5. QED
    BY <1>1, <2>2, <2>4, IntermediateUnsourcedKeeps
<1>4. QED
  BY <1>2, <1>3 DEF IntermediateBelowHead

(* external_intermediate_event keeps the invariant for the first event: the  *)
(* head is the next one or further away.                                     *)
LEMMA IntermediateGenesisKeeps ==
  ASSUME CoreInv, NEW e \in Sent, IntermediateGenesis(e)
  PROVE  CoreInv' /\ mode' = "up"
<1> DEFINE s == FromGenesisEvent(e)
           h == ledger.head
<1> USE DEF CoreInv
<1>1. /\ mode = "up" /\ e.req \notin known /\ e.kind = "create"
      /\ ledger # None /\ h # None /\ ledger.current = None
      /\ events' = Put(events, 0, e) /\ known' = known \cup {e.req}
      /\ UNCHANGED <<sigs, pending, overwritten, mode, crashes, chain, isGov, honest, allowed>>
  BY DEF IntermediateGenesis, Fresh, CheckGenesis, Finish, Unchanged, scenario
<1>2. /\ e \in Events /\ e.sn = 0 /\ e.req \in {f.req : f \in Events}
      /\ 0 \in DOMAIN chain /\ chain[0] \in Events
      /\ honest => e = chain[0]
  BY <1>1, SentFacts, EventFacts, FirstFacts
<1>3. /\ ledger \in LedgerStates /\ h \in Nat /\ h > 0
      /\ honest => h \in DOMAIN chain /\ chain[h].req \in known
      /\ (HeadForgotten' <=> HeadForgotten)
  BY <1>1 DEF TypeOK, LedgerStates, Position, HeadForgotten
<1>4. /\ DOMAIN events' = DOMAIN events \cup {0} /\ events'[0] = e
      /\ \A z \in DOMAIN events : z # 0 => events'[z] = events[z]
  BY <1>1 DEF Put
<1>5. s \in Subjects /\ s.sn = 0 /\ s.owner # Us /\ s # None
  BY <1>1, <1>2, GenesisFacts
<1>6. ASSUME subject' \in Subjects, 0 .. subject'.sn \subseteq DOMAIN events',
             ledger' \in LedgerStates, lceProof' \in {lceProof, None}, keys' \subseteq keys,
             asked' \in Nat \cup {asked}, announced' \in Nat \cup {announced},
             refused' \in BOOLEAN
      PROVE  TypeOK' /\ Stored'
  <2>1. Proofs' = Proofs
    BY <1>1 DEF Proofs
  <2>2. \A k \in DOMAIN events' : events'[k] \in Events /\ events'[k].sn = k /\ k \in Nat
    BY <1>2, <1>4 DEF TypeOK
  <2>3. TypeOK'
    BY <1>1, <1>2, <1>6, <2>1, <2>2 DEF TypeOK
  <2>4. IsFiniteSet(DOMAIN events')
    BY <1>4, FS_AddElement DEF Stored
  <2>5. Bounded(DOMAIN events')
    BY <1>4, BoundedAdd DEF Stored, TypeOK
  <2>6. Stored'
    BY <1>1, <1>2, <1>4, <1>6, <2>4, <2>5 DEF Stored
  <2>7. QED
    BY <2>3, <2>6
<1>7. ~ overwritten => h \in DOMAIN events'
  BY <1>1, <1>4 DEF HeadAbove
<1>8. CASE h # 1 /\ subject' = s /\ ledger' = [ledger EXCEPT !.current = 0] /\ asked' = 1
           /\ UNCHANGED <<keys, lceProof, refused, announced>>
  <2>1. /\ ledger' \in LedgerStates /\ ledger' # None /\ ledger'.current = 0 /\ ledger'.head = h
        /\ subject' # None
    BY <1>3, <1>5, <1>8, NoneAssumption DEF LedgerStates
  <2>2. TypeOK' /\ Stored'
    <3>1. refused' \in BOOLEAN
      BY <1>8 DEF TypeOK
    <3>2. QED
      BY <1>4, <1>5, <1>6, <1>8, <2>1, <3>1
  <2>3. Position'
    BY <1>1, <1>2, <1>3, <1>4, <1>5, <1>8, <2>1, NoneAssumption DEF Position, Subjects
  <2>4. HeadAbove' /\ OwnerHasKeys'
    BY <1>1, <1>3, <1>5, <1>7, <1>8, <2>1 DEF HeadAbove, OwnerHasKeys
  <2>5. Chained' /\ UpCertified'
    BY <1>1, <2>1 DEF Chained, ChainedTo, UpCertified, UpToDate
  <2>6. QED
    BY <1>1, <2>2, <2>3, <2>4, <2>5
<1>9. CASE h = 1 /\ ApplyHead(s, events') /\ keys' = KeysAfter(events[1])
  <2>1. /\ HeadFits(s, events') /\ subject' = Sourced(events'[1], s)
        /\ ledger' = [current |-> 1, head |-> None]
        /\ lceProof' = None /\ announced' = 1 /\ asked' = asked /\ keys' \subseteq keys
    BY <1>9 DEF ApplyHead, KeysAfter
  <2>2. 1 \in DOMAIN events' /\ CanSource(events'[1], s, events'[0])
        /\ lceProof # None /\ lceProof.event = events'[1].id
    BY <1>9, <2>1 DEF HeadFits, CheckValidationProof
  <2>3. 1 \in DOMAIN events /\ events'[1] = events[1] /\ events[1] \in Events /\ events[1].sn = 1
    BY <1>4, <2>2 DEF TypeOK
  <2>4. 1 \in DOMAIN chain /\ events'[1] = chain[1]
    <3>1. lceProof \in Proofs
      BY <2>2 DEF TypeOK
    <3>2. QED
      BY <2>2, <2>3, <3>1, ProofNames
  <2>5. /\ chain[1] \in Events /\ chain[1].sn = 1 /\ chain[1].kind # "create"
        /\ chain[1].prev = chain[0].id
    <3>1. 1 > 0 /\ 1 - 1 = 0
      OBVIOUS
    <3>2. QED
      BY <2>4, <3>1, ChainFacts
  <2>6. e = chain[0]
    <3>1. e.id = chain[0].id
      BY <1>4, <2>2, <2>4, <2>5 DEF CanSource
    <3>2. QED
      BY <1>2, <3>1, SameHash
  <2>7. /\ subject' \in Subjects /\ subject'.sn \in {0, 1} /\ (subject'.sn = 1 \/ ~ subject'.active)
        /\ subject'.owner = Us => subject'.hasKeys /\ subject'.key \in OurKeys
    BY <1>5, <2>1, <2>2, <2>4, <2>5, SourcedFacts DEF TypeOK
  <2>8. /\ ledger' \in LedgerStates /\ ledger' # None /\ ledger'.current = 1 /\ ledger'.head = None
        /\ subject' # None
    BY <2>1, <2>7, NoneAssumption DEF LedgerStates
  <2>9. \A k \in 0 .. 1 : k \in DOMAIN events' /\ events'[k] = chain[k]
    BY <1>4, <2>2, <2>4, <2>6
  <2>10. TypeOK' /\ Stored'
    <3>1. refused' \in BOOLEAN
      BY <1>9 DEF ApplyHead, TypeOK
    <3>2. QED
      BY <1>6, <2>1, <2>7, <2>8, <2>9, <3>1
  <2>11. Position'
    BY <1>1, <2>7, <2>8, <2>9, NoneAssumption DEF Position
  <2>12. HeadAbove' /\ OwnerHasKeys'
    BY <2>7, <2>8 DEF HeadAbove, OwnerHasKeys
  <2>13. Chained' /\ UpCertified'
    <3>1. \A k \in 0 .. 1 : 0 .. k \subseteq 0 .. 1
      OBVIOUS
    <3>2. QED
      BY <1>1, <2>4, <2>8, <2>9, <3>1 DEF Chained, ChainedTo, UpCertified, CertifiedTo
  <2>14. QED
    BY <1>1, <2>10, <2>11, <2>12, <2>13
<1>10. CASE h = 1 /\ RefuseHead(s, events') /\ UNCHANGED keys
  <2>1. subject' = s /\ UNCHANGED <<ledger, lceProof, announced, asked, keys>> /\ subject' # None
    BY <1>5, <1>10, NoneAssumption DEF RefuseHead
  <2>2. TypeOK' /\ Stored'
    <3>1. refused' \in BOOLEAN
      BY <1>10 DEF RefuseHead
    <3>2. QED
      BY <1>3, <1>4, <1>5, <1>6, <2>1, <3>1
  <2>3. Position'
    BY <1>1, <1>3, <1>5, <2>1 DEF Position
  <2>4. HeadAbove' /\ OwnerHasKeys' /\ Chained' /\ UpCertified'
    BY <1>1, <1>3, <1>5, <1>7, <2>1 DEF HeadAbove, OwnerHasKeys, Chained, UpCertified, UpToDate
  <2>5. QED
    BY <1>1, <2>2, <2>3, <2>4
<1>11. QED
  BY <1>8, <1>9, <1>10 DEF IntermediateGenesis

-----------------------------------------------------------------------------
(* The node that stops in the next event leaves a database that fits.        *)
LEMMA StopsInNextKeeps ==
  ASSUME IndInv, NEW n \in DOMAIN chain, NEW w \in 1 .. 5, StopsInNext(chain[n], w)
  PROVE  IndInv'
<1> DEFINE e == chain[n]
<1> USE DEF IndInv, CoreInv
<1>1. /\ subject \in Subjects /\ subject # None
      /\ n = subject.sn + 1 /\ n = ledger.current + 1 /\ ledger.current \in Nat
      /\ e \in Events /\ e.sn = n /\ e.req \in {f.req : f \in Events} /\ n \in Nat
  BY NextIsNext, ChainFacts DEF StopsInNext
<1>2. /\ crashes < MaxCrashes /\ crashes' = crashes + 1 /\ mode' = "down"
      /\ sigs' = sigs \cup {n} /\ known' \subseteq known \cup {e.req} /\ known \subseteq known'
      /\ keys' \subseteq keys
      /\ ledger' = None /\ asked' = None /\ announced' = None
      /\ UNCHANGED <<lceProof, pending, refused, overwritten, chain, isGov, honest, allowed>>
  BY <1>1 DEF StopsInNext, Finish, KeysAfter, scenario
<1>3. /\ w >= 3 => events' = Put(events, n, e) /\ e.req \in known'
      /\ ~(w >= 3) => events' = events
      /\ IF w >= 4 THEN subject' = AfterNext(e) ELSE subject' = subject
  BY <1>1 DEF StopsInNext, Finish
<1>4. /\ AfterNext(e) \in Subjects /\ AfterNext(e).sn = n
      /\ AfterNext(e).owner = Us => AfterNext(e).hasKeys /\ AfterNext(e).key \in OurKeys
  BY <1>1, AfterNextFacts DEF StopsInNext, MayStoreNext
<1>5. /\ DOMAIN events \subseteq DOMAIN events' /\ DOMAIN events' \subseteq DOMAIN events \cup {n}
      /\ w >= 3 => n \in DOMAIN events' /\ events'[n] = e
      /\ \A z \in DOMAIN events' : \/ z \in DOMAIN events /\ events'[z] = events[z]
                                   \/ z = n /\ events'[z] = e /\ e.req \in known'
  BY <1>3 DEF Put
<1>6. TypeOK'
  <2>1. Proofs' = Proofs
    BY <1>2 DEF Proofs
  <2>2. \A k \in DOMAIN events' : events'[k] \in Events /\ events'[k].sn = k /\ k \in Nat
    BY <1>1, <1>5 DEF TypeOK
  <2>3. subject' \in Subjects
    BY <1>1, <1>3, <1>4
  <2>4. crashes' \in 0 .. MaxCrashes
    BY <1>2, LedgerAssumption DEF TypeOK
  <2>5. QED
    BY <1>1, <1>2, <2>1, <2>2, <2>3, <2>4 DEF TypeOK
<1>7. Stored'
  <2>1. IsFiniteSet(DOMAIN events')
    BY <1>5, FS_AddElement, FS_Subset DEF Stored
  <2>2. 0 .. subject.sn \subseteq DOMAIN events /\ subject.sn \in Nat
    BY <1>1 DEF Stored, Subjects
  <2>3. 0 .. subject'.sn \subseteq DOMAIN events'
    BY <1>1, <1>3, <1>4, <1>5, <2>2
  <2>4. Bounded(DOMAIN events')
    BY <1>1, <1>5, BoundedAdd DEF Stored, TypeOK
  <2>5. crashes' > 0
    BY <1>2 DEF TypeOK
  <2>6. QED
    BY <1>2, <1>5, <2>1, <2>3, <2>4, <2>5 DEF Stored
<1>8. Position' /\ HeadAbove' /\ Chained' /\ UpCertified' /\ OwnerHasKeys'
  BY <1>1, <1>2, <1>3, <1>4
     DEF Position, HeadAbove, Chained, UpCertified, UpToDate, OwnerHasKeys
<1>9. Resumable'
  <2>1. CASE ~ (w >= 3)
    <3>1. subject' = subject /\ events' = events
      BY <1>3, <2>1
    <3>2. QED
      BY <1>2, <3>1 DEF Resumable, CertifiedTo, ChainedTo
  <2>2. CASE w >= 3 /\ ~ (w >= 4)
    <3>1. subject' = subject /\ subject.sn + 1 \in DOMAIN events' /\ subject.sn \in Nat
      BY <1>1, <1>3, <1>5, <2>2 DEF Subjects
    <3>2. QED
      BY <3>1 DEF Resumable
  <2>3. CASE w >= 4
    <3> SUFFICES ASSUME ~ overwritten' PROVE CertifiedTo(subject.sn)' /\ ChainedTo(subject.sn)'
      BY DEF Resumable
    <3>1. subject'.sn = n
      BY <1>3, <1>4, <2>3
    <3>2. \A k \in 0 .. ledger.current : events[k] = chain[k]
      <4>1. ~ HeadForgotten
        BY <1>2 DEF HeadForgotten
      <4>2. QED
        BY <4>1, NextIsCertified DEF StopsInNext
    <3>3. \A k \in 0 .. n : events'[k] = chain[k]
      <4>1. 0 .. ledger.current \subseteq DOMAIN events
        <5>1. ledger.current = subject.sn
          BY <1>1 DEF Subjects
        <5>2. QED
          BY <1>1, <5>1 DEF Stored
      <4>2. events' = Put(events, n, e)
        BY <1>3, <2>3
      <4>3. \A k \in 0 .. ledger.current : events'[k] = events[k]
        BY <1>1, <4>1, <4>2 DEF Put
      <4>4. QED
        BY <1>1, <1>5, <2>3, <3>2, <4>3
    <3>4. \A k \in 0 .. n : 0 .. k \subseteq 0 .. n
      BY <1>1
    <3>5. QED
      BY <1>2, <3>1, <3>3, <3>4 DEF CertifiedTo, ChainedTo
  <2>4. QED
    BY <2>1, <2>2, <2>3
<1>10. QED
  BY <1>6, <1>7, <1>8, <1>9

(* Ledger::init finds the last event of a node that is down.                 *)
LEMMA LastEventFacts ==
  ASSUME TypeOK, Stored, subject # None
  PROVE  /\ LastEvent \in DOMAIN events /\ \A m \in DOMAIN events : m <= LastEvent
         /\ ~ Single => /\ PreLastEvent \in DOMAIN events /\ PreLastEvent # LastEvent
                        /\ \A m \in DOMAIN events : m # LastEvent => m <= PreLastEvent
<1>1. subject.sn \in Nat /\ 0 .. subject.sn \subseteq DOMAIN events
  BY DEF Stored, TypeOK, Subjects
<1>2. 0 \in DOMAIN events
  BY <1>1
<1>3. PICK N \in Nat : \A m \in DOMAIN events : m <= N
  BY DEF Stored, Bounded
<1>4. DOMAIN events \in SUBSET Nat
  BY DEF TypeOK
<1>5. \E x \in DOMAIN events : \A m \in DOMAIN events : m <= x
  BY <1>2, <1>3, <1>4, GreatestNumber
<1>6. LastEvent \in DOMAIN events /\ \A m \in DOMAIN events : m <= LastEvent
  BY <1>5 DEF LastEvent
<1>7. ASSUME ~ Single
      PROVE  /\ PreLastEvent \in DOMAIN events \ {LastEvent}
             /\ \A m \in DOMAIN events \ {LastEvent} : m <= PreLastEvent
  <2> DEFINE T == DOMAIN events \ {LastEvent}
  <2>1. T # {}
    <3> SUFFICES ASSUME T = {} PROVE FALSE
      OBVIOUS
    <3>1. DOMAIN events = {LastEvent}
      BY <1>6
    <3>2. QED
      BY <1>7, <3>1, FS_Singleton DEF Single
  <2>2. \E x \in T : \A m \in T : m <= x
    <3>1. T \in SUBSET Nat /\ \A m \in T : m <= N
      BY <1>3, <1>4
    <3> HIDE DEF T
    <3>2. QED
      BY <2>1, <3>1, GreatestNumber
  <2>3. QED
    BY <2>2 DEF PreLastEvent
<1>8. QED
  BY <1>6, <1>7

(* Ledger::init keeps the invariant: what it takes for ledger_state fits the *)
(* events in the database.                                                   *)
LEMMA RestartedKeeps ==
  ASSUME IndInv, NEW l \in LedgerStates, Restarted(l), subject # None, l.current = subject.sn,
         l.head = None => subject.sn = 0 \/ \A n \in DOMAIN events : n <= subject.sn,
         l.head # None => /\ l.head \in DOMAIN events /\ l.head > subject.sn
                          /\ subject.sn + 1 \notin DOMAIN events
  PROVE  CoreInv' /\ mode' = "up"
<1> USE DEF IndInv, CoreInv
<1>1. /\ mode = "down" /\ mode' = "up" /\ ledger' = l
      /\ UNCHANGED <<subject, events, sigs, lceProof, known, keys, pending, refused, overwritten, asked,
                     announced, crashes, chain, isGov, honest, allowed>>
  BY DEF Restarted, db, scenario
<1>2. /\ l # None /\ subject \in Subjects /\ subject.sn \in Nat /\ subject.sn # None
      /\ 0 .. subject.sn \subseteq DOMAIN events /\ crashes > 0
      /\ l.head # None => l.head \in Nat
  BY <1>1, NoneAssumption DEF TypeOK, Subjects, Stored, LedgerStates
<1>3. TypeOK'
  BY <1>1 DEF TypeOK, Proofs
<1>4. Stored'
  BY <1>1 DEF Stored
<1>5. Position'
  <2>1. /\ l.head # None => l.head > 0
        /\ l.head # None /\ honest => l.head \in DOMAIN chain /\ chain[l.head].req \in known
    <3>1. l.head # None => l.head > 0
      BY <1>2
    <3>2. ASSUME l.head # None, honest PROVE l.head \in DOMAIN chain /\ chain[l.head].req \in known
      BY <3>2 DEF Stored
    <3>3. QED
      BY <3>1, <3>2
  <2>2. QED
    BY <1>1, <1>2, <2>1 DEF Position
<1>6. HeadAbove' /\ OwnerHasKeys'
  BY <1>1, <1>2 DEF HeadAbove, OwnerHasKeys
<1>7. Chained' /\ UpCertified'
  <2> SUFFICES ASSUME ~ HeadForgotten
               PROVE  ChainedTo(subject.sn) /\ (l.head = None => CertifiedTo(subject.sn))
    BY <1>1 DEF Chained, UpCertified, UpToDate, HeadForgotten, ChainedTo, CertifiedTo
  <2>1. ~ overwritten
    BY <1>2 DEF HeadForgotten
  <2>2. CASE l.head = None /\ subject.sn = 0
    BY <2>2, FirstFacts DEF ChainedTo, CertifiedTo
  <2>3. CASE l.head = None /\ \A n \in DOMAIN events : n <= subject.sn
    <3>1. subject.sn + 1 \notin DOMAIN events
      BY <1>2, <2>3
    <3>2. QED
      BY <2>1, <2>3, <3>1 DEF Resumable
  <2>4. CASE l.head # None
    BY <2>1, <2>4 DEF Resumable
  <2>5. QED
    BY <2>2, <2>3, <2>4
<1>8. QED
  BY <1>1, <1>3, <1>4, <1>5, <1>6, <1>7

(* ... for every start.                                                      *)
LEMMA LedgerInitKeeps ==
  ASSUME IndInv, LedgerInit
  PROVE  IndInv'
<1> USE DEF IndInv
<1>1. CASE StartFails
  <2>1. CoreInv'
    BY <1>1 DEF StartFails, db, memory, scenario, CoreInv, TypeOK, Proofs, Stored, Position, HeadAbove,
       Chained, ChainedTo, UpCertified, CertifiedTo, UpToDate, HeadForgotten, OwnerHasKeys
  <2>2. Resumable'
    BY <1>1 DEF StartFails, db, scenario, Resumable, CertifiedTo, ChainedTo
  <2>3. QED
    BY <2>1, <2>2
<1>2. CASE StartWithoutSubject
  <2>1. CoreInv'
    BY <1>2 DEF StartWithoutSubject, Restarted, db, scenario, CoreInv, TypeOK, Proofs, Stored, Position,
       HeadAbove, Chained, UpCertified, UpToDate, OwnerHasKeys
  <2>2. Resumable'
    BY <1>2 DEF StartWithoutSubject, Restarted, db, Resumable
  <2>3. QED
    BY <2>1, <2>2
<1>3. TypeOK /\ Stored
  BY DEF CoreInv
<1>4. subject # None => subject.sn \in Nat /\ 0 .. subject.sn \subseteq DOMAIN events
  BY <1>3 DEF TypeOK, Stored, Subjects
<1>5. CASE StartWithGenesis
  <2> DEFINE l == [current |-> 0, head |-> None]
  <2>1. subject # None /\ Single /\ Restarted(l)
    BY <1>5 DEF StartWithGenesis
  <2>2. PICK x : DOMAIN events = {x}
    BY <1>3, <2>1, FS_Singleton DEF Single, Stored
  <2>3. subject.sn = 0
    <3>1. \A k \in 0 .. subject.sn : k = x
      BY <1>4, <2>1, <2>2
    <3>2. QED
      BY <1>4, <2>1, <3>1
  <2>4. l \in LedgerStates /\ l.current = subject.sn /\ l.head = None
    BY <2>3 DEF LedgerStates
  <2> HIDE DEF l
  <2>5. CoreInv' /\ mode' = "up"
    BY <2>1, <2>3, <2>4, RestartedKeeps
  <2>6. QED
    BY <2>5, UpIsResumable
<1>6. CASE StartUpToDate
  <2> DEFINE l == [current |-> LastEvent, head |-> None]
  <2>1. subject # None /\ Restarted(l) /\ subject.sn = LastEvent
    BY <1>6 DEF StartUpToDate, WrongSnInSubject
  <2>2. l \in LedgerStates /\ l.current = subject.sn /\ l.head = None
    BY <1>4, <2>1 DEF LedgerStates
  <2>3. \A m \in DOMAIN events : m <= subject.sn
    BY <1>3, <2>1, LastEventFacts
  <2> HIDE DEF l
  <2>4. CoreInv' /\ mode' = "up"
    BY <2>1, <2>2, <2>3, RestartedKeeps
  <2>5. QED
    BY <2>4, UpIsResumable
<1>7. CASE StartWithHead
  <2> DEFINE l == [current |-> PreLastEvent, head |-> LastEvent]
  <2>1. /\ subject # None /\ ~ Single /\ Restarted(l) /\ ~ Adjacent
        /\ subject.sn = PreLastEvent
    BY <1>7 DEF StartWithHead, WrongSnInSubject
  <2>2. /\ LastEvent \in DOMAIN events /\ PreLastEvent \in DOMAIN events
        /\ PreLastEvent # LastEvent /\ PreLastEvent <= LastEvent
        /\ \A m \in DOMAIN events : m # LastEvent => m <= PreLastEvent
    BY <1>3, <2>1, LastEventFacts
  <2>3. LastEvent \in Nat /\ PreLastEvent \in Nat
    BY <1>3, <2>2 DEF TypeOK
  <2>4. LastEvent > subject.sn /\ subject.sn + 1 \notin DOMAIN events
    BY <2>1, <2>2, <2>3 DEF Adjacent
  <2>5. l \in LedgerStates /\ l.current = subject.sn /\ l.head = LastEvent /\ l.head # None
    BY <2>1, <2>3, NoneAssumption DEF LedgerStates
  <2> HIDE DEF l
  <2>6. CoreInv' /\ mode' = "up"
    BY <2>1, <2>2, <2>4, <2>5, RestartedKeeps
  <2>7. QED
    BY <2>6, UpIsResumable
<1>8. QED
  BY <1>1, <1>2, <1>5, <1>6, <1>7 DEF LedgerInit

-----------------------------------------------------------------------------
(* A node that knows nothing.                                              *)
LEMMA InitIndInv == Init => IndInv
<1> SUFFICES ASSUME Init PROVE IndInv
  OBVIOUS
<1>1. /\ DOMAIN events = {} /\ IsFiniteSet(DOMAIN events) /\ Bounded(DOMAIN events)
      /\ pending \subseteq Events /\ subject = None /\ ledger = None
  BY FS_EmptySet DEF Init, Bounded
<1>2. TypeOK
  <2>1. {isGov, honest, allowed, refused, overwritten} \subseteq BOOLEAN
    BY DEF Init
  <2>2. QED
    BY <1>1, <2>1, LedgerAssumption DEF Init, TypeOK
<1>3. Stored
  BY <1>1 DEF Init, Stored
<1>4. QED
  BY <1>1, <1>2, <1>3 DEF IndInv, CoreInv, Resumable, Position, HeadAbove, Chained,
     UpCertified, UpToDate, OwnerHasKeys

(* A step that only changes what was asked for, or the witnesses, keeps the  *)
(* invariant.                                                                *)
LEMMA IdleKeeps ==
  ASSUME IndInv, UNCHANGED <<db, ledger, announced, mode, crashes, scenario>>,
         asked' \in Nat \cup {None}, allowed' \in BOOLEAN
  PROVE  IndInv'
<1>1. TypeOK'
  BY DEF IndInv, CoreInv, TypeOK, Proofs, db, scenario
<1>2. CoreInv'
  BY <1>1 DEF IndInv, CoreInv, db, scenario, Stored, Position, HeadAbove, Chained, ChainedTo,
     UpCertified, CertifiedTo, UpToDate, HeadForgotten, OwnerHasKeys
<1>3. Resumable'
  BY DEF IndInv, db, scenario, Resumable, CertifiedTo, ChainedTo
<1>4. QED
  BY <1>2, <1>3 DEF IndInv

(* A crash forgets ledger_state.                                             *)
LEMMA CrashKeeps ==
  ASSUME IndInv, Crash
  PROVE  IndInv'
<1>1. TypeOK'
  BY LedgerAssumption DEF IndInv, CoreInv, TypeOK, Proofs, Crash, db, scenario
<1>2. crashes' > 0
  BY DEF IndInv, CoreInv, TypeOK, Crash
<1>3. CoreInv'
  BY <1>1, <1>2 DEF IndInv, CoreInv, Crash, db, scenario, Stored, Position, HeadAbove, Chained,
     UpCertified, UpToDate, OwnerHasKeys
<1>4. Resumable'
  BY DEF IndInv, Crash, db, scenario, Resumable, CertifiedTo, ChainedTo
<1>5. QED
  BY <1>3, <1>4 DEF IndInv

(* external_event keeps the invariant, whatever event and proof it is given. *)
LEMMA ExternalEventKeeps ==
  ASSUME IndInv, NEW e \in Sent, ExternalEvent(e)
  PROVE  IndInv'
<1>0. CoreInv
  BY DEF IndInv
<1>1. CASE ExternalCreate(e)
  BY <1>0, <1>1, ExternalCreateKeeps, UpIsResumable DEF IndInv
<1>2. ASSUME NEW p \in ProofsWith(e), LceTransfer(e, p) \/ LceFact(e, p) \/ LceEol(e, p)
      PROVE  IndInv'
  <2>1. Ahead(e) /\ StoreLce(e, p) /\ pending' \subseteq pending
    BY <1>2 DEF LceTransfer, LceFact, LceEol
  <2>2. QED
    BY <1>0, <2>1, StoreLceKeeps, UpIsResumable DEF IndInv
<1>3. ASSUME NEW p \in ProofsWith(e),
             FirstLceTransfer(e, p) \/ FirstLceFact(e, p) \/ FirstLceEol(e, p)
      PROVE  IndInv'
  <2>1. FirstLce(e, p) /\ e.kind # "create"
    BY <1>3 DEF FirstLceTransfer, FirstLceFact, FirstLceEol
  <2>2. QED
    BY <1>0, <2>1, FirstLceKeeps, UpIsResumable DEF IndInv
<1>4. CASE GovernanceGap(e)
  <2>1. ledger # None /\ ledger.current # None /\ asked' = subject.sn + 1
    BY <1>4 DEF GovernanceGap, AskGovernance, Ahead
  <2>2. subject \in Subjects
    BY <1>0, <2>1 DEF CoreInv, Position, TypeOK
  <2>3. asked' \in Nat
    BY <2>1, <2>2 DEF Subjects
  <2>4. UNCHANGED <<db, ledger, announced, mode, crashes, scenario>> /\ allowed' \in BOOLEAN
    BY <1>0, <1>4 DEF GovernanceGap, AskGovernance, Unchanged, CoreInv, TypeOK
  <2>5. QED
    BY <2>3, <2>4, IdleKeeps
<1>5. CASE GovernanceUnknown(e)
  <2>1. /\ UNCHANGED <<db, ledger, announced, mode, crashes, scenario>> /\ asked' = 0
        /\ allowed' \in BOOLEAN
    BY <1>0, <1>5 DEF GovernanceUnknown, AskGovernance, Unchanged, CoreInv, TypeOK
  <2>2. QED
    BY <2>1, IdleKeeps
<1>6. QED
  BY <1>1, <1>2, <1>3, <1>4, <1>5 DEF ExternalEvent

(* external_intermediate_event keeps the invariant.                          *)
LEMMA IntermediateKeeps ==
  ASSUME IndInv, NEW e \in Sent, ExternalIntermediateEvent(e)
  PROVE  IndInv'
<1>0. CoreInv
  BY DEF IndInv
<1>1. CASE IntermediateUnsourced(e)
  <2>1. /\ StoreIntermediate(e) /\ UNCHANGED <<ledger, lceProof, announced, asked>>
        /\ keys' \subseteq keys /\ subject' = subject /\ refused' \in BOOLEAN
    BY <1>0, <1>1 DEF IntermediateUnsourced, CoreInv, TypeOK
  <2>2. /\ subject \in Subjects /\ subject # None
        /\ subject.owner = Us => subject.hasKeys /\ subject.key \in OurKeys
    BY <1>0, <2>1, StoreIntermediateFacts
  <2>3. CoreInv' /\ mode' = "up"
    BY <1>0, <2>1, <2>2, IntermediateUnsourcedKeeps
  <2>4. QED
    BY <2>3, UpIsResumable DEF IndInv
<1>2. CASE IntermediateEvent(e) \/ IntermediateBelowHead(e) \/ IntermediateGenesis(e)
  BY <1>0, <1>2, IntermediateEventKeeps, IntermediateBelowHeadKeeps, IntermediateGenesisKeeps,
     UpIsResumable DEF IndInv
<1>3. QED
  BY <1>1, <1>2 DEF ExternalIntermediateEvent

(* Every step keeps the inductive invariant.                               *)
LEMMA NextIndInv == IndInv /\ [Next]_vars => IndInv'
<1> SUFFICES ASSUME IndInv, [Next]_vars PROVE IndInv'
  OBVIOUS
<1>0. CoreInv /\ allowed \in BOOLEAN /\ asked \in Nat \cup {None}
  BY DEF IndInv, CoreInv, TypeOK
<1>1. CASE UNCHANGED vars
  BY <1>0, <1>1, IdleKeeps DEF vars, memory
<1>2. ASSUME NEW n \in 1 .. Last(chain), StoreNext(chain[n]) \/ \E w \in 1 .. 5 : StopsInNext(chain[n], w)
      PROVE  IndInv'
  <2>1. n \in DOMAIN chain
    BY <1>0, FirstFacts, ChainFacts DEF CoreInv
  <2>2. CASE StoreNext(chain[n])
    BY <1>0, <2>1, <2>2, StoreNextKeeps, UpIsResumable DEF IndInv
  <2>3. QED
    BY <1>2, <2>1, <2>2, StopsInNextKeeps
<1>3. CASE WitnessesChange
  <2>1. /\ UNCHANGED <<db, ledger, announced, mode, crashes, scenario>>
        /\ asked' \in Nat \cup {None} /\ allowed' \in BOOLEAN
    BY <1>0, <1>3 DEF WitnessesChange, memory
  <2>2. QED
    BY <2>1, IdleKeeps
<1>4. QED
  BY <1>1, <1>2, <1>3, ExternalEventKeeps, IntermediateKeeps, CrashKeeps, LedgerInitKeeps DEF Next

-----------------------------------------------------------------------------
(* Only what was received is stored, and a head is kept with a proof of an   *)
(* event of the subject (ledger.rs).                                         *)
THEOREM TypeCorrect == Spec => []TypeOK
<1>1. IndInv => TypeOK
  BY DEF IndInv, CoreInv
<1>2. QED
  BY <1>1, InitIndInv, NextIndInv, PTL DEF Spec

(* A node that takes itself for up to date holds exactly the certified       *)
(* events, whatever events it was sent and wherever it stopped, unless it    *)
(* holds a first event only or has lost a head (ledger.rs external_event,    *)
(* external_intermediate_event, init).                                       *)
THEOREM UpToDateHoldsCertified == Spec => []UpToDateIsCertified
<1>1. IndInv => UpToDateIsCertified
  <2> SUFFICES ASSUME IndInv, UpToDate, ~ HeadForgotten, NEW n \in 0 .. ledger.current
               PROVE  n \in DOMAIN events /\ (events[n] = chain[n] \/ ledger.current = 0)
    BY DEF UpToDateIsCertified
  <2>1. ledger.current # None
    BY DEF IndInv, CoreInv, Position, UpToDate
  <2>2. n \in DOMAIN events
    BY <2>1 DEF IndInv, CoreInv, Position, UpToDate
  <2>3. CertifiedTo(ledger.current)
    BY DEF IndInv, CoreInv, UpCertified
  <2>4. QED
    BY <2>2, <2>3 DEF CertifiedTo
<1>2. QED
  BY <1>1, InitIndInv, NextIndInv, PTL DEF Spec

(* A subject that changes hands to the node is one it has the key of         *)
(* (ledger.rs external_event, event_sourcing_transfer).                      *)
THEOREM OwnerCanSign == Spec => []OwnerHasKeys
<1>1. IndInv => OwnerHasKeys
  BY DEF IndInv, CoreInv
<1>2. QED
  BY <1>1, InitIndInv, NextIndInv, PTL DEF Spec

-----------------------------------------------------------------------------
(* Whatever an intermediate event makes of the subject, it does not fall     *)
(* behind.                                                                   *)
LEMMA IntermediateGrows ==
  ASSUME IndInv, IndInv', NEW e \in Sent, ExternalIntermediateEvent(e), subject # None
  PROVE  subject' # None /\ subject'.sn >= subject.sn
<1> USE DEF IndInv, CoreInv
<1>1. CASE IntermediateGenesis(e)
  <2>1. ledger # None /\ ledger.head # None /\ ledger.current = None /\ e.kind = "create"
    BY <1>1 DEF IntermediateGenesis, CheckGenesis
  <2>2. subject.sn = 0
    BY <2>1 DEF Position
  <2>3. FromGenesisEvent(e) # None
    BY <2>1, SentFacts, GenesisFacts
  <2>4. subject' # None
    <3>1. CASE ledger.head = 1 /\ ApplyHead(FromGenesisEvent(e), events')
      <4>1. ledger' # None /\ ledger'.current # None
        BY <3>1, NoneAssumption DEF ApplyHead, LedgerStates
      <4>2. QED
        BY <4>1 DEF Position
    <3>2. QED
      BY <1>1, <2>3, <3>1 DEF IntermediateGenesis, RefuseHead
  <2>5. subject'.sn \in Nat
    BY <2>4 DEF TypeOK, Subjects
  <2>6. QED
    BY <2>2, <2>4, <2>5
<1>2. CASE IntermediateUnsourced(e)
  <2>1. subject' = subject /\ subject.sn \in Nat
    BY <1>2 DEF IntermediateUnsourced, TypeOK, Subjects
  <2>2. QED
    BY <2>1
<1>3. ASSUME StoreIntermediate(e), CanSource(e, subject, events[e.sn - 1])
      PROVE  /\ Sourced(e, subject) \in Subjects /\ Sourced(e, subject).sn = e.sn
             /\ Sourced(e, subject).owner = Us =>
                  Sourced(e, subject).hasKeys /\ Sourced(e, subject).key \in OurKeys
             /\ e.sn \in Nat /\ subject.sn \in Nat /\ e.sn >= subject.sn
             /\ e.sn = ledger.current + 1 /\ ledger.current \in Nat
  <2>1. /\ e \in Events /\ e.kind \in {"fact", "transfer"} /\ subject \in Subjects
        /\ subject.sn \in Nat /\ subject.sn <= e.sn
        /\ e.sn = ledger.current + 1 /\ ledger.current \in Nat
        /\ subject.owner = Us => subject.hasKeys /\ subject.key \in OurKeys
    BY <1>3, StoreIntermediateFacts
  <2>2. keys \subseteq OurKeys
    BY DEF TypeOK
  <2>3. QED
    BY <1>3, <2>1, <2>2, SourcedFacts
<1>4. CASE IntermediateEvent(e)
  <2>1. /\ StoreIntermediate(e) /\ CanSource(e, subject, events[e.sn - 1])
        /\ subject' = Sourced(e, subject)
    BY <1>4 DEF IntermediateEvent
  <2>2. QED
    BY <1>3, <2>1, NoneAssumption
<1>5. CASE IntermediateBelowHead(e)
  <2> DEFINE s == Sourced(e, subject)
             h == ledger.head
  <2>1. /\ StoreIntermediate(e) /\ CanSource(e, subject, events[e.sn - 1]) /\ h = ledger.current + 2
        /\ ApplyHead(s, events') \/ RefuseHead(s, events')
    BY <1>5 DEF IntermediateBelowHead
  <2>2. /\ s \in Subjects /\ s.sn = e.sn /\ e.sn \in Nat /\ subject.sn \in Nat
        /\ e.sn >= subject.sn /\ h = e.sn + 1
        /\ s.owner = Us => s.hasKeys /\ s.key \in OurKeys
    BY <1>3, <2>1
  <2>3. CASE RefuseHead(s, events')
    BY <2>2, <2>3, NoneAssumption DEF RefuseHead
  <2>4. CASE ApplyHead(s, events')
    <3>1. /\ h \in DOMAIN events' /\ CanSource(events'[h], s, events'[h - 1])
          /\ subject' = Sourced(events'[h], s)
      BY <2>4 DEF ApplyHead, HeadFits
    <3>2. events'[h] \in Events /\ events'[h].sn = h /\ keys \subseteq OurKeys
      BY <3>1 DEF TypeOK
    <3>3. events'[h].kind # "create"
      BY <2>2, <3>2, EventFacts
    <3>4. subject' \in Subjects /\ subject'.sn \in {s.sn, h}
      BY <2>2, <3>1, <3>2, <3>3, SourcedFacts
    <3>5. QED
      BY <2>2, <3>4, NoneAssumption
  <2>5. QED
    BY <2>1, <2>3, <2>4
<1>6. QED
  BY <1>1, <1>2, <1>4, <1>5 DEF ExternalIntermediateEvent

(* The events of an up-to-date subject stay, and its sequence number never   *)
(* falls (ledger.rs external_event, external_intermediate_event).            *)
THEOREM HistoryIsKept == Spec => HistoryKept
<1> DEFINE EventsStay ==
             UpToDate => \A n \in 0 .. ledger.current : n \in DOMAIN events' /\ events'[n] = events[n]
           Grows == subject # None => subject' # None /\ subject'.sn >= subject.sn
<1>1. ASSUME IndInv, IndInv', [Next]_vars PROVE [EventsStay /\ Grows]_vars
  <2> USE <1>1 DEF IndInv, CoreInv
  <2>1. UpToDate => /\ ledger.current \in Nat /\ subject # None
                    /\ 0 .. ledger.current \subseteq DOMAIN events
    BY DEF UpToDate, Position, TypeOK, LedgerStates
  <2>2. subject # None => subject.sn \in Nat
    BY DEF TypeOK, Subjects
  <2>3. ASSUME UNCHANGED <<subject, events>> PROVE EventsStay /\ Grows
    BY <2>1, <2>2, <2>3
  <2>4. ASSUME NEW e \in Sent, ExternalEvent(e) PROVE EventsStay /\ Grows
    <3>1. CASE ExternalCreate(e)
      BY <2>1, <3>1 DEF ExternalCreate
    <3>2. ASSUME NEW p \in ProofsWith(e), LceTransfer(e, p) \/ LceFact(e, p) \/ LceEol(e, p)
          PROVE  EventsStay /\ Grows
      <4>1. e.sn > ledger.current /\ StoreLce(e, p)
        BY <3>2 DEF LceTransfer, LceFact, LceEol, Ahead
      <4>2. UpToDate => events' = Put(events, e.sn, e)
        BY <4>1 DEF StoreLce, UpToDate
      <4>3. e.sn \in Nat
        BY SentFacts
      <4>4. EventsStay
        BY <2>1, <4>1, <4>2, <4>3 DEF Put
      <4>5. Grows
        BY <2>2, <4>1 DEF StoreLce
      <4>6. QED
        BY <4>4, <4>5
    <3>3. CASE GovernanceGap(e) \/ GovernanceUnknown(e)
      BY <2>3, <3>3 DEF GovernanceGap, GovernanceUnknown, AskGovernance, db
    <3>4. ASSUME NEW p \in ProofsWith(e),
                 FirstLceTransfer(e, p) \/ FirstLceFact(e, p) \/ FirstLceEol(e, p)
          PROVE  EventsStay /\ Grows
      BY <2>2, <3>4 DEF FirstLceTransfer, FirstLceFact, FirstLceEol, FirstLce, UpToDate
    <3>5. QED
      BY <2>4, <3>1, <3>2, <3>3, <3>4 DEF ExternalEvent
  <2>5. ASSUME NEW e \in Sent, ExternalIntermediateEvent(e) PROVE EventsStay /\ Grows
    <3>1. ~ UpToDate
      BY <2>5 DEF ExternalIntermediateEvent, IntermediateEvent, IntermediateBelowHead,
         IntermediateUnsourced, IntermediateGenesis, StoreIntermediate, UpToDate
    <3>2. QED
      BY <2>5, <3>1, IntermediateGrows
  <2>6. ASSUME NEW n \in 1 .. Last(chain),
               StoreNext(chain[n]) \/ \E w \in 1 .. 5 : StopsInNext(chain[n], w)
        PROVE  EventsStay /\ Grows
    <3>0. n \in DOMAIN chain /\ MayStoreNext(chain[n])
      BY <2>6, FirstFacts, ChainFacts DEF StoreNext, StopsInNext
    <3>1. /\ chain[n].sn = n /\ n = ledger.current + 1 /\ n = subject.sn + 1 /\ subject # None
          /\ chain[n] \in Events /\ subject \in Subjects
      BY <3>0, NextIsNext
    <3>2. /\ events' = Put(events, n, chain[n]) \/ events' = events
          /\ subject' = AfterNext(chain[n]) \/ subject' = subject
      BY <2>6, <3>1 DEF StoreNext, StopsInNext
    <3>3. AfterNext(chain[n]) \in Subjects /\ AfterNext(chain[n]).sn = n
      BY <3>0, <3>1, AfterNextFacts DEF MayStoreNext
    <3>4. EventsStay
      BY <2>1, <3>1, <3>2 DEF Put
    <3>5. Grows
      BY <2>2, <3>1, <3>2, <3>3, NoneAssumption
    <3>6. QED
      BY <3>4, <3>5
  <2>7. CASE Crash \/ LedgerInit \/ WitnessesChange
    BY <2>3, <2>7 DEF Crash, LedgerInit, StartWithoutSubject, StartWithGenesis, StartUpToDate,
       StartWithHead, StartFails, Restarted, WitnessesChange, db
  <2>8. QED
    BY <2>4, <2>5, <2>6, <2>7 DEF Next
<1>2. QED
  BY <1>1, InitIndInv, NextIndInv, PTL DEF Spec, HistoryKept

-----------------------------------------------------------------------------

(* There is no head initially.                                             *)
LEMMA InitHeadProof == Init => HeadProof
<1> SUFFICES ASSUME Init PROVE HeadProof
  OBVIOUS
<1>1. DOMAIN events = {} /\ lceProof = None /\ ledger = None /\ mode = "up"
  BY DEF Init
<1>2. QED
  BY <1>1 DEF HeadProof, Gap

(* The next event is stored when there is no head.                           *)
LEMMA StoreNextHeadProof ==
  ASSUME IndInv, HeadProof, NEW n \in DOMAIN chain, StoreNext(chain[n])
  PROVE  HeadProof'
<1> DEFINE e == chain[n]
<1> USE DEF IndInv, CoreInv
<1>1. /\ subject \in Subjects /\ subject # None /\ n = subject.sn + 1 /\ ledger.head = None
      /\ e.sn = n /\ e \in Events /\ mode = "up" /\ subject.sn \in Nat
  BY NextIsNext DEF StoreNext, Subjects
<1>2. /\ subject' = AfterNext(e) /\ events' = Put(events, n, e)
      /\ ledger' = [current |-> n, head |-> None] /\ UNCHANGED <<lceProof, mode, crashes, chain>>
  BY <1>1 DEF StoreNext, Unchanged, scenario
<1>3. subject' \in Subjects /\ subject'.sn = n /\ subject' # None
  BY <1>1, <1>2, AfterNextFacts, NoneAssumption DEF StoreNext, MayStoreNext
<1>4. DOMAIN events' = DOMAIN events \cup {n} /\ DOMAIN events \subseteq Nat
  BY <1>2 DEF Put, TypeOK
<1>5. crashes = 0 => lceProof = None /\ \A k \in DOMAIN events' : k <= subject'.sn + 1
  BY <1>1, <1>3, <1>4 DEF HeadProof
<1>6. ~ Gap'
  BY <1>2 DEF Gap
<1>7. QED
  BY <1>1, <1>2, <1>3, <1>5, <1>6 DEF HeadProof

(* An external event leaves the proof with its head.                         *)
LEMMA ExternalEventHeadProof ==
  ASSUME IndInv, HeadProof, NEW e \in Sent, ExternalEvent(e)
  PROVE  HeadProof'
<1> DEFINE n == e.sn
<1> USE DEF IndInv, CoreInv
<1>1. e \in Events /\ n \in Nat
  BY SentFacts
<1>2. subject # None => subject.sn \in Nat
  BY DEF TypeOK, Subjects
<1>3. ledger # None => ledger \in LedgerStates
  BY DEF TypeOK
<1>4. CASE ExternalCreate(e)
  <2>1. /\ subject = None /\ subject' = FromGenesisEvent(e)
        /\ events' = Put(events, 0, e) /\ e.kind = "create"
        /\ ledger' = [current |-> 0, head |-> IF ledger = None THEN None ELSE ledger.head]
        /\ UNCHANGED <<lceProof, mode, crashes, chain, honest>>
    BY <1>4 DEF ExternalCreate, CheckGenesis, Unchanged, scenario
  <2>2. ledger' \in LedgerStates /\ ledger' # None /\ ledger'.current = 0
        /\ ledger'.head = IF ledger = None THEN None ELSE ledger.head
    BY <1>3, <2>1, NoneAssumption DEF LedgerStates
  <2>3. subject' # None /\ subject'.sn = 0
    BY <1>1, <2>1, GenesisFacts
  <2>4. DOMAIN events' = DOMAIN events \cup {0}
    BY <2>1 DEF Put
  <2>5. Gap' => Gap /\ ledger'.head = ledger.head
    BY <2>1, <2>2 DEF Gap, Position
  <2>6. mode = "up"
    BY <1>4 DEF ExternalCreate, Fresh
  <2>7. QED
    BY <2>1, <2>2, <2>3, <2>4, <2>5, <2>6 DEF HeadProof
<1>5. ASSUME NEW p \in ProofsWith(e), Ahead(e), StoreLce(e, p) PROVE HeadProof'
  <2>1. /\ mode = "up" /\ ledger # None /\ ledger.current # None
        /\ lceProof' = p /\ ledger' = [ledger EXCEPT !.head = n]
        /\ UNCHANGED <<subject, mode, crashes, chain, honest>>
    BY <1>5 DEF Ahead, Fresh, StoreLce, Unchanged, scenario
  <2>2. ledger' \in LedgerStates /\ ledger'.head = n /\ ledger' # None /\ n # None
    BY <1>1, <1>3, <2>1, NoneAssumption DEF LedgerStates
  <2>3. p # None /\ (honest => p = ProofOf(chain, n))
    BY ProofsWithFacts
  <2>4. DOMAIN events' = IF ledger.head = None THEN DOMAIN events \cup {n}
                         ELSE (DOMAIN events \cup {n}) \ {ledger.head}
    BY <1>5 DEF StoreLce, Put, Drop
  <2>5. crashes = 0 => \A k \in DOMAIN events' :
                         k = n \/ (subject # None /\ k <= subject.sn + 1)
    BY <2>4 DEF HeadProof
  <2>6. QED
    BY <2>1, <2>2, <2>3, <2>5 DEF HeadProof
<1>6. ASSUME NEW p \in ProofsWith(e), FirstLce(e, p) PROVE HeadProof'
  <2>1. /\ mode = "up" /\ ledger = None /\ events' = Put(events, n, e)
        /\ lceProof' = p /\ ledger' = [current |-> None, head |-> n]
        /\ UNCHANGED <<subject, mode, crashes, chain, honest>>
    BY <1>6 DEF FirstLce, Fresh, Unchanged, scenario
  <2>2. ledger' \in LedgerStates /\ ledger'.head = n /\ ledger' # None /\ n # None
    BY <1>1, <2>1, NoneAssumption DEF LedgerStates
  <2>3. p # None /\ (honest => p = ProofOf(chain, n))
    BY ProofsWithFacts
  <2>4. DOMAIN events' = DOMAIN events \cup {n}
    BY <2>1 DEF Put
  <2>5. subject = None
    BY <2>1 DEF Position
  <2>6. crashes = 0 => \A k \in DOMAIN events' : k = n
    BY <2>1, <2>4, <2>5 DEF HeadProof
  <2>7. QED
    BY <2>1, <2>2, <2>3, <2>6 DEF HeadProof
<1>7. CASE GovernanceGap(e) \/ GovernanceUnknown(e)
  BY <1>7 DEF GovernanceGap, GovernanceUnknown, AskGovernance, Unchanged, db, scenario,
     HeadProof, Gap
<1>8. QED
  BY <1>4, <1>5, <1>6, <1>7 DEF ExternalEvent, LceTransfer, LceFact, LceEol,
     FirstLceTransfer, FirstLceFact, FirstLceEol

(* An intermediate event below the head leaves the proof with it, until the  *)
(* head is applied.                                                          *)
LEMMA IntermediateHeadProof ==
  ASSUME IndInv, IndInv', HeadProof, NEW e \in Sent, ExternalIntermediateEvent(e)
  PROVE  HeadProof'
<1> USE DEF IndInv, CoreInv
<1>2. DOMAIN events \subseteq Nat /\ DOMAIN events' \subseteq Nat
  BY DEF TypeOK
<1>3. ASSUME StoreIntermediate(e)
      PROVE  /\ mode' = "up" /\ UNCHANGED <<mode, crashes, chain, honest>> /\ ledger # None
             /\ e.sn \in Nat /\ DOMAIN events' = DOMAIN events \cup {e.sn}
             /\ ledger.current \in Nat /\ ledger.head \in Nat /\ ledger \in LedgerStates
             /\ e.sn = ledger.current + 1 /\ ledger.current <= subject.sn
             /\ subject \in Subjects /\ subject # None /\ subject.sn \in Nat
             /\ subject' \in Subjects /\ subject' # None /\ subject'.sn \in Nat
             /\ subject'.sn >= subject.sn /\ e.sn <= subject'.sn + 1
  <2>1. /\ mode = "up" /\ UNCHANGED <<mode, crashes, chain, honest>> /\ ledger # None
        /\ DOMAIN events' = DOMAIN events \cup {e.sn}
        /\ ledger.current \in Nat /\ ledger.head \in Nat /\ ledger \in LedgerStates
        /\ e.sn = ledger.current + 1 /\ ledger.current <= subject.sn
        /\ subject \in Subjects /\ subject # None /\ subject.sn \in Nat
    BY <1>3, StoreIntermediateFacts
  <2>2. subject' # None /\ subject'.sn >= subject.sn
    BY <2>1, IntermediateGrows
  <2>3. subject' \in Subjects /\ subject'.sn \in Nat
    BY <2>2 DEF TypeOK, Subjects
  <2>4. QED
    BY <2>1, <2>2, <2>3
<1>4. ASSUME StoreIntermediate(e), ledger'.head = ledger.head, lceProof' = lceProof,
             ledger' # None, Gap' => Gap
      PROVE  HeadProof'
  <2>1. crashes = 0 => \A k \in DOMAIN events' :
                         \/ k <= subject'.sn + 1
                         \/ lceProof # None /\ k = ledger.head
    BY <1>2, <1>3, <1>4 DEF HeadProof
  <2>2. QED
    BY <1>3, <1>4, <2>1 DEF HeadProof
<1>5. CASE IntermediateEvent(e)
  <2>1. /\ StoreIntermediate(e) /\ ledger' = [ledger EXCEPT !.current = e.sn]
        /\ lceProof' = lceProof
    BY <1>5 DEF IntermediateEvent
  <2>2. /\ ledger'.head = ledger.head /\ ledger'.current = e.sn /\ ledger' \in LedgerStates
        /\ ledger' # None
    BY <1>3, <2>1, NoneAssumption DEF LedgerStates
  <2>3. Gap' => Gap
    BY <1>3, <2>1, <2>2, NoneAssumption DEF Gap
  <2>4. QED
    BY <1>4, <2>1, <2>2, <2>3
<1>6. CASE IntermediateUnsourced(e)
  BY <1>3, <1>4, <1>6 DEF IntermediateUnsourced, Gap
<1>7. CASE IntermediateBelowHead(e)
  <2>1. /\ StoreIntermediate(e) /\ ledger.head = ledger.current + 2
        /\ CanSource(e, subject, events[e.sn - 1])
    BY <1>7 DEF IntermediateBelowHead
  <2>2. CASE RefuseHead(Sourced(e, subject), events')
    BY <1>3, <1>4, <2>1, <2>2 DEF RefuseHead, Gap
  <2>3. CASE ApplyHead(Sourced(e, subject), events')
    <3>1. /\ ledger' = [current |-> ledger.head, head |-> None] /\ lceProof' = None
      BY <2>3 DEF ApplyHead
    <3>2. ledger' # None /\ ledger'.current = ledger.current + 2 /\ ledger'.head = None
      BY <1>3, <2>1, <3>1, NoneAssumption DEF LedgerStates
    <3>3. ledger.head <= subject'.sn + 1
      <4>1. subject'.sn >= ledger.current + 1
        <5>2. /\ e \in Events /\ e.kind \in {"fact", "transfer"} /\ subject \in Subjects
              /\ subject.owner = Us => subject.hasKeys /\ subject.key \in OurKeys
          BY <2>1, StoreIntermediateFacts
        <5> DEFINE s == Sourced(e, subject)
                   h == ledger.head
        <5>3. /\ s \in Subjects /\ s.sn = e.sn
              /\ s.owner = Us => s.hasKeys /\ s.key \in OurKeys
          BY <2>1, <5>2, SourcedFacts DEF TypeOK
        <5>4. /\ h \in DOMAIN events' /\ CanSource(events'[h], s, events'[h - 1])
              /\ subject' = Sourced(events'[h], s)
          BY <2>3 DEF ApplyHead, HeadFits
        <5>5. events'[h] \in Events /\ events'[h].sn = h /\ keys \subseteq OurKeys
          BY <5>4 DEF TypeOK
        <5>6. events'[h].kind # "create"
          BY <1>3, <2>1, <5>5, EventFacts
        <5>7. subject'.sn \in {s.sn, h}
          BY <5>3, <5>4, <5>5, <5>6, SourcedFacts
        <5>8. QED
          BY <1>3, <2>1, <5>3, <5>7
      <4>2. QED
        BY <1>3, <2>1, <4>1
    <3>4. crashes = 0 => \A k \in DOMAIN events' : k <= subject'.sn + 1
      BY <1>2, <1>3, <2>1, <3>3 DEF HeadProof
    <3>5. ~ Gap'
      BY <3>2 DEF Gap
    <3>6. QED
      BY <1>3, <2>1, <3>1, <3>4, <3>5 DEF HeadProof
  <2>4. QED
    BY <1>7, <2>2, <2>3 DEF IntermediateBelowHead
<1>8. CASE IntermediateGenesis(e)
  <2>1. /\ mode = "up" /\ e.req \notin known /\ e.kind = "create"
        /\ ledger # None /\ ledger.head # None /\ ledger.current = None
        /\ events' = Put(events, 0, e)
        /\ UNCHANGED <<mode, crashes, chain, honest>>
    BY <1>8 DEF IntermediateGenesis, Fresh, CheckGenesis, Unchanged, scenario
  <2>2. subject # None => subject.sn = 0
    BY <2>1 DEF Position
  <2>3. DOMAIN events' = DOMAIN events \cup {0}
    BY <2>1 DEF Put
  <2>4. Gap /\ ledger.head \in Nat /\ ledger.head > 0
    BY <2>1 DEF Gap, TypeOK, LedgerStates, Position
  <2>5. crashes = 0 => \A k \in DOMAIN events : k <= 1 \/ (lceProof # None /\ k = ledger.head)
    BY <2>2 DEF HeadProof
  <2>6. /\ FromGenesisEvent(e) \in Subjects /\ FromGenesisEvent(e).sn = 0
        /\ FromGenesisEvent(e) # None
    BY <2>1, SentFacts, GenesisFacts
  <2>7. CASE ledger' = [ledger EXCEPT !.current = 0] /\ lceProof' = lceProof
             /\ subject' = FromGenesisEvent(e)
    <3>1. ledger' # None /\ ledger'.head = ledger.head
      BY <2>1, <2>7, NoneAssumption DEF TypeOK, LedgerStates
    <3>2. QED
      BY <2>1, <2>3, <2>4, <2>5, <2>6, <2>7, <3>1 DEF HeadProof
  <2>8. CASE RefuseHead(FromGenesisEvent(e), events')
    BY <2>1, <2>3, <2>4, <2>5, <2>6, <2>8 DEF HeadProof, RefuseHead
  <2>9. CASE ledger.head = 1 /\ ApplyHead(FromGenesisEvent(e), events')
    <3>1. /\ ledger' = [current |-> 1, head |-> None] /\ lceProof' = None
      BY <2>9 DEF ApplyHead
    <3>2. ledger' # None /\ ledger'.current = 1 /\ ledger'.head = None
      BY <3>1, NoneAssumption DEF LedgerStates
    <3>3. subject' # None /\ subject' \in Subjects /\ subject'.sn \in Nat
      BY <3>2, NoneAssumption DEF Position, TypeOK, Subjects
    <3>4. crashes = 0 => \A k \in DOMAIN events' : k <= subject'.sn + 1
      BY <1>2, <2>3, <2>5, <2>9, <3>3
    <3>5. ~ Gap'
      BY <3>2 DEF Gap
    <3>6. QED
      BY <2>1, <3>1, <3>3, <3>4, <3>5 DEF HeadProof
  <2>10. QED
    BY <1>8, <2>7, <2>8, <2>9 DEF IntermediateGenesis
<1>9. QED
  BY <1>5, <1>6, <1>7, <1>8 DEF ExternalIntermediateEvent

(* A crash leaves no event above the next one but the head; init finds it.   *)
LEMMA RestartHeadProof ==
  ASSUME IndInv, HeadProof
  PROVE  /\ \A n \in DOMAIN chain, w \in 1 .. 5 : StopsInNext(chain[n], w) => HeadProof'
         /\ Crash \/ LedgerInit => HeadProof'
<1> USE DEF IndInv, CoreInv
<1>0. crashes \in Nat /\ DOMAIN events \subseteq Nat
  BY LedgerAssumption DEF TypeOK
<1>1. ASSUME NEW n \in DOMAIN chain, NEW w \in 1 .. 5, StopsInNext(chain[n], w) PROVE HeadProof'
  <2>1. /\ subject \in Subjects /\ subject # None /\ n = subject.sn + 1 /\ ledger.head = None
        /\ subject.sn \in Nat /\ chain[n] \in Events /\ chain[n].sn = n
    BY <1>1, NextIsNext DEF StopsInNext, Subjects
  <2>2. /\ crashes' = crashes + 1 /\ mode' = "down" /\ ledger' = None /\ lceProof' = lceProof
        /\ events' = Put(events, n, chain[n]) \/ events' = events
        /\ subject' = AfterNext(chain[n]) \/ subject' = subject
    BY <1>1, <2>1 DEF StopsInNext
  <2>3. AfterNext(chain[n]) \in Subjects /\ AfterNext(chain[n]).sn = n
    BY <1>1, <2>1, AfterNextFacts DEF StopsInNext, MayStoreNext
  <2>4. subject' # None /\ subject'.sn \in {n, subject.sn}
    BY <2>1, <2>2, <2>3, NoneAssumption
  <2>5. DOMAIN events' \subseteq DOMAIN events \cup {n}
    BY <2>2 DEF Put
  <2>6. crashes = 0 => \A k \in DOMAIN events' : k <= subject'.sn + 1
    BY <1>0, <2>1, <2>4, <2>5 DEF HeadProof
  <2>7. QED
    BY <1>0, <2>2, <2>4, <2>6 DEF HeadProof
<1>2. CASE Crash
  <2>1. /\ crashes' = crashes + 1 /\ mode' = "down" /\ ledger' = None
        /\ UNCHANGED <<subject, events, lceProof, chain, honest>>
    BY <1>2 DEF Crash, db, scenario
  <2>2. QED
    BY <1>0, <2>1 DEF HeadProof
<1>3. CASE StartFails
  BY <1>3 DEF StartFails, db, memory, scenario, HeadProof
<1>4. ASSUME NEW l, Restarted(l), l # None => l.head = None PROVE HeadProof'
  BY <1>0, <1>4 DEF Restarted, db, scenario, HeadProof, Gap
<1>5. CASE StartWithHead
  <2> DEFINE l == [current |-> PreLastEvent, head |-> LastEvent]
  <2>1. /\ subject # None /\ ~ Single /\ Restarted(l) /\ mode = "down"
        /\ subject.sn = PreLastEvent
    BY <1>5 DEF StartWithHead, Restarted, WrongSnInSubject
  <2>2. /\ ledger' = l /\ mode' = "up" /\ UNCHANGED <<subject, events, lceProof, crashes, chain, honest>>
        /\ crashes # 0 /\ l.head = LastEvent /\ l.current = PreLastEvent
    BY <2>1 DEF Restarted, db, scenario, HeadProof
  <2>3. /\ LastEvent \in DOMAIN events /\ PreLastEvent \in DOMAIN events
    BY <2>1, LastEventFacts
  <2>4. ASSUME crashes = 1, Gap'
        PROVE  lceProof # None /\ (honest => lceProof = ProofOf(chain, LastEvent))
    <3>1. LastEvent > PreLastEvent + 1
      BY <1>0, <2>2, <2>3, <2>4, NoneAssumption DEF Gap
    <3>2. QED
      BY <1>0, <2>1, <2>3, <2>4, <3>1 DEF HeadProof
  <2>5. QED
    BY <1>0, <2>2, <2>3, <2>4 DEF HeadProof
<1>6. QED
  BY <1>1, <1>2, <1>3, <1>4, <1>5 DEF LedgerInit, StartWithoutSubject, StartWithGenesis,
     StartUpToDate

(* Every step keeps the head with its proof.                               *)
LEMMA NextHeadProof == IndInv /\ IndInv' /\ HeadProof /\ [Next]_vars => HeadProof'
<1> SUFFICES ASSUME IndInv, IndInv', HeadProof, [Next]_vars PROVE HeadProof'
  OBVIOUS
<1>1. CASE UNCHANGED vars \/ WitnessesChange
  BY <1>1 DEF vars, WitnessesChange, db, memory, scenario, HeadProof, Gap
<1>2. ASSUME NEW n \in 1 .. Last(chain), StoreNext(chain[n]) \/ \E w \in 1 .. 5 : StopsInNext(chain[n], w)
      PROVE  HeadProof'
  <2>1. n \in DOMAIN chain
    BY FirstFacts, ChainFacts DEF IndInv, CoreInv
  <2>2. QED
    BY <1>2, <2>1, StoreNextHeadProof, RestartHeadProof
<1>3. QED
  BY <1>1, <1>2, ExternalEventHeadProof, IntermediateHeadProof, RestartHeadProof DEF Next

(* While events are missing below the head, the head and a proof are at      *)
(* hand, also after one restart; among honest nodes the proof is that of the *)
(* head (ledger.rs external_event, init).                                    *)
THEOREM GapCanBeClosed == Spec => []HeadIsKept
<1>1. ASSUME IndInv, HeadProof PROVE HeadIsKept
  <2> SUFFICES ASSUME GapBelowHead, crashes <= 1, ~ overwritten
               PROVE  /\ ledger.head \in DOMAIN events /\ lceProof # None
                      /\ honest => lceProof.sn = ledger.head /\ lceProof.event = events[ledger.head].id
    BY DEF HeadIsKept
  <2>1. ledger.head \in DOMAIN events
    BY <1>1 DEF GapBelowHead, IndInv, CoreInv, HeadAbove
  <2>2. lceProof # None /\ (honest => lceProof = ProofOf(chain, ledger.head))
    BY <1>1 DEF HeadProof, Gap, GapBelowHead
  <2>3. honest => events[ledger.head] = chain[ledger.head]
    BY <1>1, <2>1 DEF IndInv, CoreInv, Stored
  <2>4. QED
    BY <2>1, <2>2, <2>3 DEF ProofOf
<1>2. QED
  BY <1>1, InitIndInv, NextIndInv, InitHeadProof, NextHeadProof, PTL DEF Spec

-----------------------------------------------------------------------------
(* What the certified events make of the subject is defined up to every      *)
(* number: a least one where it were not would follow one where it is.       *)
LEMMA ReplayExists ==
  ASSUME NEW c, NEW N \in Nat
  PROVE  \E g : g = [n \in 0 .. N |->
                      IF n = 0 THEN FromGenesisEvent(c[0]) ELSE Replay(g[n - 1], c[n])]
<1> DEFINE IsReplay(g, m) ==
             g = [n \in 0 .. m |->
                   IF n = 0 THEN FromGenesisEvent(c[0]) ELSE Replay(g[n - 1], c[n])]
           T == {m \in Nat : ~ \E g : IsReplay(g, m)}
<1>1. ASSUME T # {} PROVE FALSE
  <2>1. T \in SUBSET Nat
    OBVIOUS
  <2>2. PICK x \in T : \A y \in T : x <= y
    <3> HIDE DEF T
    <3>1. QED
      BY <1>1, <2>1, LeastNumber
  <2>3. x \in Nat /\ ~ \E g : IsReplay(g, x)
    BY <2>2
  <2>4. CASE x = 0
    <3> DEFINE g == [n \in 0 .. 0 |-> FromGenesisEvent(c[0])]
    <3>1. \A n \in 0 .. 0 : n = 0
      OBVIOUS
    <3>2. IsReplay(g, 0)
      BY <3>1
    <3>3. QED
      BY <2>3, <2>4, <3>2
  <2>5. CASE x # 0
    <3>1. x - 1 \in Nat /\ x - 1 \notin T
      <4>1. x - 1 \in Nat /\ ~ (x <= x - 1)
        BY <2>3, <2>5
      <4> HIDE DEF T
      <4>2. QED
        BY <2>2, <4>1
    <3>2. PICK g : IsReplay(g, x - 1)
      BY <3>1
    <3> DEFINE h == [n \in 0 .. x |-> IF n < x THEN g[n] ELSE Replay(g[x - 1], c[x])]
    <3>3. \A n \in 0 .. x :
            h[n] = IF n = 0 THEN FromGenesisEvent(c[0]) ELSE Replay(h[n - 1], c[n])
      <4> SUFFICES ASSUME NEW n \in 0 .. x
                   PROVE  h[n] = IF n = 0 THEN FromGenesisEvent(c[0]) ELSE Replay(h[n - 1], c[n])
        OBVIOUS
      <4>1. \A k \in 0 .. x - 1 :
              g[k] = IF k = 0 THEN FromGenesisEvent(c[0]) ELSE Replay(g[k - 1], c[k])
        BY <3>2
      <4>2. CASE n = 0
        BY <2>3, <2>5, <4>1, <4>2
      <4>3. CASE n > 0 /\ n < x
        <5>1. n \in 0 .. x - 1 /\ n - 1 \in 0 .. x /\ n - 1 < x
          BY <2>3, <4>3
        <5>2. h[n] = g[n] /\ h[n - 1] = g[n - 1]
          BY <4>3, <5>1
        <5>3. QED
          BY <4>1, <4>3, <5>1, <5>2
      <4>4. CASE n = x
        <5>1. n - 1 \in 0 .. x /\ n - 1 < x /\ ~ (n < x)
          BY <2>3, <2>5, <4>4
        <5>2. h[n] = Replay(g[x - 1], c[x]) /\ h[n - 1] = g[x - 1]
          BY <4>4, <5>1
        <5>3. QED
          BY <2>5, <4>4, <5>2
      <4>5. QED
        BY <2>3, <4>2, <4>3, <4>4
    <3>4. h = [n \in 0 .. x |-> h[n]]
      OBVIOUS
    <3>5. IsReplay(h, x)
      <4> HIDE DEF h
      <4>1. QED
        BY <3>3, <3>4
    <3>6. QED
      BY <2>3, <3>5
  <2>6. QED
    BY <2>4, <2>5
<1>2. N \notin T
  BY <1>1
<1>3. QED
  BY <1>2

(* The subject after an event is made from the one before.                   *)
LEMMA ReplayedFacts ==
  ASSUME NEW c \in Chains
  PROVE  /\ Replayed(c)[0] = FromGenesisEvent(c[0])
         /\ \A n \in 1 .. Last(c) : Replayed(c)[n] = Replay(Replayed(c)[n - 1], c[n])
<1> DEFINE r == Replayed(c)
<1>1. DOMAIN c = 0 .. Last(c) /\ Last(c) \in Nat
  BY LedgerAssumption
<1>2. \E g : g = [n \in DOMAIN c |->
                   IF n = 0 THEN FromGenesisEvent(c[0]) ELSE Replay(g[n - 1], c[n])]
  <2>1. \A N \in Nat : \E g : g = [n \in 0 .. N |->
                   IF n = 0 THEN FromGenesisEvent(c[0]) ELSE Replay(g[n - 1], c[n])]
    BY ReplayExists, Zenon
  <2>2. QED
    BY <1>1, <2>1, Zenon
<1>3. r = [n \in DOMAIN c |-> IF n = 0 THEN FromGenesisEvent(c[0]) ELSE Replay(r[n - 1], c[n])]
  BY <1>2 DEF Replayed
<1>4. \A n \in DOMAIN c :
        r[n] = IF n = 0 THEN FromGenesisEvent(c[0]) ELSE Replay(r[n - 1], c[n])
  <2> HIDE DEF r
  <2>1. QED
    BY <1>3
<1>5. QED
  BY <1>1, <1>4

(* To set the sequence number that a subject has changes nothing.            *)
LEMMA SameSn ==
  ASSUME NEW s \in Subjects
  PROVE  [s EXCEPT !.sn = s.sn] = s
  BY DEF Subjects

(* event_sourcing makes of the subject what an event makes; only an end of   *)
(* life leaves the sequence number.                                          *)
LEMMA SourcedIsReplay ==
  ASSUME NEW s \in Subjects, NEW e, e.kind \in {"fact", "transfer", "eol"},
         e.kind \in {"transfer", "eol"} => e.approved
  PROVE  /\ [Sourced(e, s) EXCEPT !.sn = e.sn] = Replay(s, e)
         /\ e.kind # "eol" => Sourced(e, s) = Replay(s, e)
<1>1. CASE ~ e.approved
  BY <1>1 DEF Sourced, Replay, Subjects
<1>2. CASE e.approved /\ e.kind = "fact"
  BY <1>2 DEF Sourced, Replay, Subjects, UpdateSubject
<1>3. CASE e.approved /\ e.kind = "transfer"
  BY <1>3 DEF Sourced, Replay, Subjects, TransferSubject
<1>4. CASE e.approved /\ e.kind = "eol"
  BY <1>4 DEF Sourced, Replay, Subjects, EolEvent
<1>5. QED
  BY <1>1, <1>2, <1>3, <1>4

(* ... and so does external_event with the next event.                       *)
LEMMA NextIsReplay ==
  ASSUME subject \in Subjects, NEW e, e.kind \in {"fact", "transfer", "eol"},
         e.kind \in {"transfer", "eol"} => e.approved
  PROVE  AfterNext(e) = Replay(subject, e)
<1>1. CASE e.kind = "fact"
  BY <1>1 DEF AfterNext, Replay, Subjects, UpdateSubject
<1>2. CASE e.kind = "transfer"
  BY <1>2 DEF AfterNext, Replay, Subjects, TransferSubject
<1>3. CASE e.kind = "eol"
  BY <1>3 DEF AfterNext, Replay, Subjects, EolEvent
<1>4. QED
  BY <1>1, <1>2, <1>3

(* The next certified event makes what it makes of the subject before.       *)
LEMMA NextReplayed ==
  ASSUME TypeOK, NEW n \in DOMAIN chain, n > 0
  PROVE  /\ Replayed(chain)[n] = Replay(Replayed(chain)[n - 1], chain[n])
         /\ chain[n].kind \in {"fact", "transfer", "eol"}
         /\ chain[n].kind \in {"transfer", "eol"} => chain[n].approved
         /\ chain[n].sn = n
<1>1. /\ chain[n] \in Events /\ chain[n].sn = n /\ n \in 1 .. Last(chain) /\ chain \in Chains
      /\ chain[n].kind # "create"
  BY ChainFacts DEF TypeOK
<1>2. QED
  BY <1>1, ReplayedFacts, EventFacts DEF Kinds

(* While the node is up, what init would find is what the node has.          *)
LEMMA UpStoredReplay ==
  ASSUME IndInv', CertifiedReplay', mode' = "up"
  PROVE  StoredReplay'
<1> SUFFICES ASSUME ~ refused', ~ overwritten', subject' # None, subject'.sn + 1 \notin DOMAIN events',
                    subject'.sn \in DOMAIN chain', events'[subject'.sn] = chain'[subject'.sn]
             PROVE  ReplayedTo(subject.sn)'
  BY DEF StoredReplay
<1> USE DEF IndInv, CoreInv
<1>1. ledger' # None /\ ledger' \in LedgerStates /\ ~ HeadForgotten' /\ subject'.sn \in Nat
  BY DEF Position, TypeOK, Subjects, HeadForgotten
<1>2. ledger'.current # None /\ subject'.sn <= ledger'.current
  BY <1>1 DEF CertifiedReplay
<1>3. ledger'.current \in Nat /\ 0 .. ledger'.current \subseteq DOMAIN events'
  BY <1>1, <1>2 DEF LedgerStates, Position
<1>4. ledger'.current = subject'.sn
  BY <1>1, <1>2, <1>3
<1>5. QED
  BY <1>1, <1>2, <1>4 DEF CertifiedReplay

(* The subject that the event at current_sn left is the replayed one.        *)
LEMMA CurrentReplayed ==
  ASSUME IndInv, ReplayInv, honest \/ (~ refused /\ ~ HeadForgotten),
         ledger # None, ledger.current \in DOMAIN chain, ledger.current # None,
         events[ledger.current] = chain[ledger.current], subject.sn = ledger.current
  PROVE  subject = Replayed(chain)[ledger.current]
<1>1. subject \in Subjects /\ subject # None /\ subject.sn \in Nat
  BY DEF IndInv, CoreInv, Position, TypeOK, Subjects
<1>2. ReplayedTo(subject.sn)
  BY <1>1 DEF ReplayInv, CertifiedReplay, HonestReplay, EndedOneBehind
<1>3. QED
  BY <1>1, <1>2, SameSn DEF ReplayedTo

(* There is no subject initially.                                          *)
LEMMA InitReplayInv == Init => ReplayInv
  BY DEF Init, ReplayInv, CertifiedReplay, StoredReplay, HonestReplay

(* A subject that is the replayed one, and has its number, fits.             *)
LEMMA FitsReplay ==
  ASSUME NEW n \in DOMAIN chain, TypeOK', chain' = chain, subject' # None, subject'.sn = n,
         subject' = Replayed(chain)[n], ledger' = None \/ ledger'.current = n
  PROVE  ReplayInv'
<1>1. subject' \in Subjects
  BY DEF TypeOK
<1>2. [subject' EXCEPT !.sn = n] = subject'
  BY <1>1, SameSn
<1>3. n \in Nat /\ n # None
  BY <1>1, NoneAssumption DEF Subjects
<1>4. ReplayedTo(subject.sn)' /\ (ledger' # None => ReplayedTo(ledger.current)')
  BY <1>2 DEF ReplayedTo
<1>5. CertifiedReplay'
  BY <1>3, <1>4 DEF CertifiedReplay
<1>6. HonestReplay'
  BY <1>4 DEF HonestReplay, UpToDate
<1>7. StoredReplay'
  BY <1>4 DEF StoredReplay
<1>8. QED
  BY <1>5, <1>6, <1>7 DEF ReplayInv

(* A first event makes the subject, or it is not the certified one.          *)
LEMMA GenesisReplay ==
  ASSUME IndInv, IndInv', NEW e \in Sent, e.kind = "create", subject' = FromGenesisEvent(e),
         ledger' # None, ledger'.current = 0, events'[0] = e, mode' = "up",
         UNCHANGED <<chain, honest>>
  PROVE  ReplayInv'
<1> USE DEF IndInv, CoreInv
<1>1. /\ e \in Events /\ e.sn = 0 /\ (honest => e = chain[0]) /\ 0 \in DOMAIN chain
      /\ chain \in Chains
  BY SentFacts, EventFacts, FirstFacts
<1>2. subject'.sn = 0 /\ subject' # None
  BY <1>1, GenesisFacts
<1>3. CASE e = chain[0]
  <2>1. subject' = Replayed(chain)[0]
    BY <1>1, <1>3, ReplayedFacts
  <2>2. QED
    BY <1>1, <1>2, <2>1, FitsReplay
<1>4. CASE e # chain[0]
  <2>1. CertifiedReplay'
    BY <1>2, <1>4, NoneAssumption DEF CertifiedReplay
  <2>2. StoredReplay'
    BY <2>1, UpStoredReplay
  <2>3. HonestReplay'
    BY <1>1, <1>4 DEF HonestReplay
  <2>4. QED
    BY <2>1, <2>2, <2>3 DEF ReplayInv
<1>5. QED
  BY <1>3, <1>4

(* The next event makes of the subject what it makes of the replayed one,    *)
(* also if the node stops after it.                                          *)
LEMMA StoreNextReplay ==
  ASSUME IndInv, IndInv', ReplayInv, NEW n \in DOMAIN chain,
         StoreNext(chain[n]) \/ \E w \in 1 .. 5 : StopsInNext(chain[n], w)
  PROVE  ReplayInv'
<1> DEFINE e == chain[n]
<1> USE DEF IndInv, CoreInv
<1>0. MayStoreNext(e)
  BY DEF StoreNext, StopsInNext
<1>1. /\ ledger # None /\ ledger.head = None /\ ledger.current \in Nat
      /\ n = ledger.current + 1 /\ n = subject.sn + 1 /\ subject \in Subjects /\ subject # None
      /\ e \in Events /\ e.sn = n /\ ledger.current \in DOMAIN chain
      /\ events[ledger.current] = chain[ledger.current]
  BY <1>0, NextIsNext
<1>2. /\ n > 0 /\ n - 1 = ledger.current /\ n - 1 = subject.sn /\ ledger.current # None
      /\ n \in Nat
  BY <1>1, NoneAssumption DEF Subjects
<1>3. /\ UNCHANGED <<chain, refused, honest, overwritten>>
      /\ \/ subject' = AfterNext(e) /\ ledger' = [current |-> n, head |-> None] /\ crashes' = crashes
         \/ (subject' = AfterNext(e) \/ subject' = subject) /\ ledger' = None
  BY <1>1 DEF StoreNext, StopsInNext, Unchanged, scenario
<1>4. AfterNext(e) \in Subjects /\ AfterNext(e).sn = n /\ AfterNext(e) # None
  BY <1>0, <1>1, AfterNextFacts, NoneAssumption DEF MayStoreNext
<1>5. CASE honest \/ (~ refused /\ ~ HeadForgotten)
  <2>1. subject = Replayed(chain)[n - 1]
    BY <1>1, <1>2, <1>5, CurrentReplayed
  <2>2. AfterNext(e) = Replayed(chain)[n]
    <3>1. /\ Replayed(chain)[n] = Replay(subject, e)
          /\ e.kind \in {"fact", "transfer", "eol"}
          /\ e.kind \in {"transfer", "eol"} => e.approved
      BY <1>2, <2>1, NextReplayed
    <3>2. QED
      BY <1>1, <3>1, NextIsReplay
  <2>3. CASE subject' = AfterNext(e)
    <3>1. ledger' = None \/ ledger'.current = n
      BY <1>3
    <3>2. QED
      BY <1>3, <1>4, <2>2, <2>3, <3>1, FitsReplay
  <2>4. CASE subject' = subject /\ ledger' = None
    BY <1>1, <1>2, <1>3, <2>1, <2>4, FitsReplay
  <2>5. QED
    BY <1>3, <2>3, <2>4
<1>6. CASE ~ honest /\ (refused \/ HeadForgotten)
  <2>1. ledger' # None => crashes' = crashes
    BY <1>3
  <2>2. CertifiedReplay'
    BY <1>3, <1>6, <2>1 DEF CertifiedReplay, HeadForgotten
  <2>3. StoredReplay' /\ HonestReplay'
    BY <1>3, <1>6 DEF StoredReplay, HonestReplay, HeadForgotten
  <2>4. QED
    BY <2>2, <2>3 DEF ReplayInv
<1>7. QED
  BY <1>5, <1>6

(* external_event makes of the subject what the certified events make.       *)
LEMMA ExternalEventReplay ==
  ASSUME IndInv, IndInv', ReplayInv, NEW e \in Sent, ExternalEvent(e)
  PROVE  ReplayInv'
<1> DEFINE n == e.sn
<1> USE DEF IndInv, CoreInv
<1>1. n \in Nat /\ e \in Events
  BY SentFacts
<1>2. CASE ExternalCreate(e)
  <2>1. /\ e.kind = "create" /\ subject' = FromGenesisEvent(e) /\ events' = Put(events, 0, e)
        /\ ledger' = [current |-> 0, head |-> IF ledger = None THEN None ELSE ledger.head]
        /\ mode' = "up" /\ UNCHANGED <<chain, honest>>
    BY <1>2 DEF ExternalCreate, CheckGenesis, Fresh, Unchanged, scenario
  <2>2. ledger'.current = 0 /\ ledger' # None
    BY <2>1, NoneAssumption DEF TypeOK, LedgerStates
  <2>3. events'[0] = e
    BY <2>1 DEF Put
  <2>4. QED
    BY <2>1, <2>2, <2>3, GenesisReplay
<1>3. ASSUME NEW p \in ProofsWith(e), Ahead(e), StoreLce(e, p) PROVE ReplayInv'
  <2>1. /\ ledger # None /\ ledger.current # None /\ n > ledger.current /\ subject.active
        /\ ledger' = [ledger EXCEPT !.head = n] /\ mode' = "up"
        /\ UNCHANGED <<subject, chain, honest, refused, crashes>>
        /\ overwritten' = (overwritten \/ n = ledger.head)
    BY <1>3 DEF Ahead, Fresh, StoreLce, Unchanged, scenario
  <2>2. /\ ledger \in LedgerStates /\ ledger' \in LedgerStates /\ ledger' # None
        /\ ledger'.current = ledger.current /\ ledger'.head = n /\ n # None /\ ledger.current \in Nat
    BY <1>1, <2>1, NoneAssumption DEF TypeOK, LedgerStates
  <2>3. ledger.current \in DOMAIN events' /\ ledger.current # n
    BY <1>1, <2>1, <2>2 DEF Position
  <2>4. events'[ledger.current] = events[ledger.current]
    BY <1>3, <2>3 DEF StoreLce, Put, Drop
  <2>5. ~ HeadForgotten' => ~ HeadForgotten
    BY <2>1 DEF HeadForgotten
  <2>6. CertifiedReplay'
    BY <2>1, <2>2, <2>4, <2>5 DEF ReplayInv, CertifiedReplay, ReplayedTo
  <2>7. HonestReplay'
    BY <2>1, <2>2 DEF ReplayInv, HonestReplay, UpToDate, EndedOneBehind, ReplayedTo
  <2>8. QED
    BY <2>1, <2>6, <2>7, UpStoredReplay DEF ReplayInv
<1>4. ASSUME NEW p \in ProofsWith(e), FirstLce(e, p) PROVE ReplayInv'
  <2>1. /\ subject = None /\ subject' = None /\ ledger' = [current |-> None, head |-> n]
    BY <1>4 DEF FirstLce, Fresh, Position
  <2>2. ledger'.current = None
    BY <2>1
  <2>3. QED
    BY <2>1, <2>2 DEF ReplayInv, CertifiedReplay, StoredReplay, HonestReplay
<1>5. CASE GovernanceGap(e) \/ GovernanceUnknown(e)
  BY <1>5 DEF GovernanceGap, GovernanceUnknown, AskGovernance, Unchanged, db, scenario,
     ReplayInv, CertifiedReplay, StoredReplay, HonestReplay, HeadForgotten, UpToDate, EndedOneBehind,
     ReplayedTo
<1>6. QED
  BY <1>2, <1>3, <1>4, <1>5 DEF ExternalEvent, LceTransfer, LceFact, LceEol,
     FirstLceTransfer, FirstLceFact, FirstLceEol

(* A certified intermediate event that fits is applied to the subject of the *)
(* event before.                                                             *)
LEMMA IntermediateReplayed ==
  ASSUME IndInv, ReplayInv, honest \/ (~ refused /\ ~ HeadForgotten), NEW e \in Sent, StoreIntermediate(e),
         CanSource(e, subject, events[e.sn - 1]), e.sn \in DOMAIN chain, e = chain[e.sn]
  PROVE  /\ Sourced(e, subject) = Replayed(chain)[e.sn]
         /\ Sourced(e, subject) \in Subjects /\ Sourced(e, subject).sn = e.sn
<1> USE DEF IndInv, CoreInv
<1> DEFINE n == e.sn
<1>1. /\ e \in Events /\ e.kind \in {"fact", "transfer"}
      /\ ledger # None /\ ledger.head \in Nat
      /\ ledger.current \in Nat /\ n = ledger.current + 1
      /\ subject \in Subjects /\ subject # None /\ subject.sn \in Nat
      /\ subject.sn <= n /\ ledger.current <= subject.sn
      /\ subject.owner = Us => subject.hasKeys /\ subject.key \in OurKeys
      /\ \A k \in 0 .. ledger.current : k \in DOMAIN events
  BY StoreIntermediateFacts
<1>2. subject.sn = ledger.current
  <2>1. CASE ~ refused /\ ~ HeadForgotten
    BY <1>1, <2>1, NoneAssumption DEF ReplayInv, CertifiedReplay
  <2>2. CASE honest
    <3> SUFFICES ASSUME subject.sn = n PROVE FALSE
      BY <1>1
    <3>1. n \in DOMAIN events
      BY <1>1 DEF Stored
    <3>2. events[n] = e /\ events[n].req \in known
      BY <2>2, <3>1 DEF Stored
    <3>3. QED
      BY <3>2 DEF StoreIntermediate, Fresh
  <2>3. QED
    BY <2>1, <2>2
<1>3. /\ n > 0 /\ n - 1 = ledger.current /\ n - 1 \in DOMAIN chain
      /\ chain[n].prev = chain[n - 1].id
  <2>1. n > 0 /\ n - 1 = ledger.current
    BY <1>1
  <2>2. QED
    BY <2>1, ChainFacts
<1>4. events[ledger.current] = chain[ledger.current]
  <2>1. events[ledger.current].id = chain[ledger.current].id
    BY <1>3 DEF CanSource
  <2>2. events[ledger.current] \in Events /\ chain[ledger.current] \in Events
    BY <1>1, <1>3, ChainFacts DEF TypeOK
  <2>3. QED
    BY <2>1, <2>2, SameHash
<1>5. subject = Replayed(chain)[ledger.current]
  BY <1>1, <1>2, <1>3, <1>4, CurrentReplayed, NoneAssumption
<1>6. Replayed(chain)[n] = Replay(subject, e) /\ (e.kind = "transfer" => e.approved)
  BY <1>3, <1>5, NextReplayed
<1>7. Sourced(e, subject) = Replayed(chain)[n]
  BY <1>1, <1>6, SourcedIsReplay
<1>8. Sourced(e, subject) \in Subjects /\ Sourced(e, subject).sn = n
  BY <1>1, SourcedFacts DEF TypeOK
<1>9. QED
  BY <1>7, <1>8

(* A head that is applied to the subject of the event before it.             *)
LEMMA HeadReplayed ==
  ASSUME IndInv', mode' = "up", chain' = chain, NEW h \in DOMAIN chain, h > 0, TypeOK,
         NEW s \in Subjects, s.sn = h - 1, s = Replayed(chain)[h - 1],
         h \in DOMAIN events', subject' = Sourced(chain[h], s),
         ledger' = [current |-> h, head |-> None]
  PROVE  ReplayInv'
<1>1. /\ Replayed(chain)[h] = Replay(s, chain[h]) /\ chain[h].kind \in {"fact", "transfer", "eol"}
      /\ chain[h].kind \in {"transfer", "eol"} => chain[h].approved
      /\ chain[h].sn = h /\ h \in Nat
  BY NextReplayed, ChainFacts
<1>2. ledger' # None /\ ledger'.current = h /\ ledger'.head = None
  BY <1>1, NoneAssumption DEF LedgerStates
<1>3. subject' # None /\ subject' \in Subjects
  BY <1>1, <1>2, NoneAssumption DEF IndInv, CoreInv, Position, TypeOK
<1>4. [subject' EXCEPT !.sn = h] = Replayed(chain)[h]
  BY <1>1, SourcedIsReplay
<1>5. CASE chain[h].kind # "eol"
  <2>1. subject' = Replayed(chain)[h]
    BY <1>1, <1>5, SourcedIsReplay
  <2>2. subject'.sn = h
    BY <1>3, <1>4, <2>1 DEF Subjects
  <2>3. QED
    BY <1>2, <1>3, <2>1, <2>2, FitsReplay DEF IndInv, CoreInv
<1>6. CASE chain[h].kind = "eol"
  <2>1. subject' = EolEvent(s)
    BY <1>1, <1>6 DEF Sourced
  <2>2. subject'.sn = h - 1 /\ ~ subject'.active
    BY <2>1 DEF EolEvent, Subjects
  <2>3. subject'.sn + 1 = h
    BY <1>1, <2>2
  <2>4. ReplayedTo(ledger.current)' /\ ReplayedTo(subject.sn + 1)'
    BY <1>2, <1>4, <2>3 DEF ReplayedTo
  <2>5. EndedOneBehind'
    BY <1>2, <1>6, <2>2, <2>3, <2>4 DEF EndedOneBehind
  <2>6. QED
    <3>1. CertifiedReplay' /\ HonestReplay'
      BY <1>1, <1>2, <2>2, <2>4, <2>5, NoneAssumption DEF CertifiedReplay, HonestReplay
    <3>2. QED
      BY <3>1, UpStoredReplay DEF ReplayInv
<1>7. QED
  BY <1>5, <1>6

(* external_intermediate_event makes of the subject what the certified       *)
(* events make, until it refuses a head.                                     *)
LEMMA IntermediateReplay ==
  ASSUME IndInv, IndInv', ReplayInv, NEW e \in Sent, ExternalIntermediateEvent(e)
  PROVE  ReplayInv'
<1> USE DEF IndInv, CoreInv
<1>1. ASSUME StoreIntermediate(e)
      PROVE  /\ mode' = "up" /\ UNCHANGED <<chain, honest>>
             /\ ledger \in LedgerStates /\ ledger # None
             /\ ledger.current \in Nat /\ ledger.head \in Nat
             /\ ~ HeadForgotten' => ~ HeadForgotten
             /\ e.sn \in Nat /\ e.sn = ledger.current + 1
             /\ subject # None /\ subject \in Subjects
             /\ events'[e.sn] = e /\ events'[ledger.current] = events[ledger.current]
             /\ honest => e.sn \in DOMAIN chain /\ e = chain[e.sn]
  <2>1. /\ mode = "up" /\ UNCHANGED <<mode, chain, honest>>
        /\ ledger \in LedgerStates /\ ledger # None
        /\ ledger.current \in Nat /\ ledger.head \in Nat
        /\ ~ HeadForgotten' => ~ HeadForgotten
        /\ e.sn = ledger.current + 1 /\ subject # None /\ subject \in Subjects
        /\ events'[e.sn] = e
        /\ \A k \in 0 .. ledger.current : k \in DOMAIN events /\ events'[k] = events[k]
    BY <1>1, StoreIntermediateFacts
  <2>2. honest => e.sn \in DOMAIN chain /\ e = chain[e.sn]
    BY SentFacts
  <2>3. QED
    BY <2>1, <2>2
<1>2. CASE IntermediateUnsourced(e)
  <2>1. StoreIntermediate(e) /\ UNCHANGED <<subject, ledger, refused>>
    BY <1>2 DEF IntermediateUnsourced
  <2>2. QED
    <3>1. CertifiedReplay'
      BY <1>1, <2>1, NoneAssumption DEF ReplayInv, CertifiedReplay, ReplayedTo
    <3>2. HonestReplay'
      BY <1>1, <2>1, NoneAssumption DEF ReplayInv, HonestReplay, UpToDate, EndedOneBehind, ReplayedTo
    <3>3. QED
      BY <1>1, <2>1, <3>1, <3>2, UpStoredReplay DEF ReplayInv
<1>3. CASE IntermediateEvent(e)
  <2>1. /\ StoreIntermediate(e) /\ CanSource(e, subject, events[e.sn - 1])
        /\ subject' = Sourced(e, subject) /\ ledger' = [ledger EXCEPT !.current = e.sn]
        /\ refused' = refused
    BY <1>3 DEF IntermediateEvent
  <2>2. /\ ledger' # None /\ ledger'.current = e.sn /\ ledger'.head = ledger.head
        /\ ledger.head # None
    BY <1>1, <2>1, NoneAssumption DEF LedgerStates
  <2>3. subject' # None /\ subject'.sn = e.sn
    <3>1. /\ e \in Events /\ e.kind \in {"fact", "transfer"} /\ subject \in Subjects
          /\ subject.owner = Us => subject.hasKeys /\ subject.key \in OurKeys
      BY <2>1, StoreIntermediateFacts
    <3>2. QED
      BY <2>1, <3>1, SourcedFacts, NoneAssumption DEF TypeOK
  <2>4. CASE e.sn \in DOMAIN chain /\ e = chain[e.sn] /\ (honest \/ (~ refused /\ ~ HeadForgotten))
    BY <1>1, <2>1, <2>2, <2>3, <2>4, IntermediateReplayed, FitsReplay
  <2>5. CASE ~ (e.sn \in DOMAIN chain /\ e = chain[e.sn] /\ (honest \/ (~ refused /\ ~ HeadForgotten)))
    <3>1. CertifiedReplay'
      BY <1>1, <2>1, <2>2, <2>3, <2>5, NoneAssumption DEF CertifiedReplay
    <3>2. HonestReplay'
      BY <1>1, <2>1, <2>5 DEF HonestReplay
    <3>3. QED
      BY <1>1, <2>1, <3>1, <3>2, UpStoredReplay DEF ReplayInv
  <2>6. QED
    BY <2>4, <2>5
<1>4. CASE IntermediateBelowHead(e)
  <2> DEFINE s == Sourced(e, subject)
             h == ledger.head
  <2>1. /\ StoreIntermediate(e) /\ CanSource(e, subject, events[e.sn - 1]) /\ h = ledger.current + 2
        /\ ApplyHead(s, events') \/ RefuseHead(s, events')
    BY <1>4 DEF IntermediateBelowHead
  <2>2. CASE RefuseHead(s, events')
    <3>1. subject' = s /\ refused' = TRUE /\ ledger' = ledger /\ h # None
      BY <1>1, <2>1, <2>2, NoneAssumption DEF RefuseHead
    <3>2. honest => subject' = Replayed(chain)[e.sn] /\ subject' \in Subjects /\ subject'.sn = e.sn
      BY <1>1, <2>1, <3>1, IntermediateReplayed
    <3>3. honest => ReplayedTo(subject.sn)'
      BY <1>1, <2>1, <3>2, SameSn DEF ReplayedTo
    <3>4. QED
      <4>1. CertifiedReplay' /\ HonestReplay'
        BY <1>1, <2>1, <3>1, <3>3 DEF CertifiedReplay, HonestReplay, UpToDate
      <4>2. QED
        BY <1>1, <2>1, <4>1, UpStoredReplay DEF ReplayInv
  <2>3. CASE ApplyHead(s, events')
    <3>1. /\ h \in DOMAIN events' /\ subject' = Sourced(events'[h], s) /\ refused' = refused
          /\ ledger' = [current |-> h, head |-> None]
      BY <2>3 DEF ApplyHead, HeadFits
    <3>2. /\ UNCHANGED <<chain, honest>> /\ h \in Nat /\ e.sn = h - 1
          /\ e.sn \in Nat /\ h > 0 /\ events'[e.sn] = e /\ mode' = "up"
      BY <1>1, <2>1
    <3>3. ledger' # None /\ ledger'.current = h /\ ledger'.head = None
      BY <3>1, <3>2, NoneAssumption DEF LedgerStates
    <3>4. honest => ~ HeadForgotten'
      BY <3>2 DEF Stored, HeadForgotten
    <3>5. CASE ~ HeadForgotten' /\ (honest \/ ~ refused)
      <4>1. CertifiedTo(ledger.current)'
        BY <3>3, <3>5 DEF UpCertified, UpToDate
      <4>2. h \in DOMAIN chain /\ \A k \in 0 .. h : events'[k] = chain[k]
        BY <3>2, <3>3, <4>1 DEF CertifiedTo
      <4>3. h \in 0 .. h /\ e.sn \in 0 .. h
        BY <3>2
      <4>4. events'[h] = chain[h] /\ e = chain[e.sn] /\ e.sn \in DOMAIN chain
        BY <3>2, <4>2, <4>3, ChainFacts
      <4>5. honest \/ (~ refused /\ ~ HeadForgotten)
        BY <1>1, <2>1, <3>5
      <4>6. s = Replayed(chain)[h - 1] /\ s \in Subjects /\ s.sn = h - 1
        BY <2>1, <3>2, <4>4, <4>5, IntermediateReplayed
      <4>7. QED
        BY <3>1, <3>2, <4>2, <4>4, <4>6, HeadReplayed
    <3>6. CASE ~ (~ HeadForgotten' /\ (honest \/ ~ refused))
      <4>1. CertifiedReplay'
        BY <3>1, <3>6 DEF CertifiedReplay
      <4>2. HonestReplay'
        BY <3>2, <3>4, <3>6 DEF HonestReplay
      <4>3. QED
        BY <3>2, <4>1, <4>2, UpStoredReplay DEF ReplayInv
    <3>7. QED
      BY <3>5, <3>6
  <2>4. QED
    BY <2>1, <2>2, <2>3
<1>5. CASE IntermediateGenesis(e)
  <2> DEFINE s == FromGenesisEvent(e)
             h == ledger.head
  <2>1. /\ e.kind = "create" /\ ledger # None /\ h # None /\ ledger.current = None
        /\ events' = Put(events, 0, e) /\ mode' = "up"
        /\ UNCHANGED <<chain, honest, overwritten>>
    BY <1>5 DEF IntermediateGenesis, CheckGenesis, Fresh, Unchanged, scenario
  <2>2. /\ e \in Events /\ 0 \in DOMAIN chain /\ chain \in Chains
        /\ honest => e = chain[0]
    <3>1. e.sn = 0 /\ e \in Events /\ (honest => e = chain[e.sn])
      BY <2>1, SentFacts, EventFacts
    <3>2. QED
      BY <3>1, FirstFacts
  <2>3. s \in Subjects /\ s.sn = 0 /\ s # None /\ (e = chain[0] => s = Replayed(chain)[0])
    BY <2>1, <2>2, GenesisFacts, ReplayedFacts
  <2>4. events'[0] = e
    BY <2>1 DEF Put
  <2>5. CASE subject' = s /\ ledger' = [ledger EXCEPT !.current = 0]
    <3>1. ledger'.current = 0 /\ ledger' # None
      BY <2>1, <2>5, NoneAssumption DEF TypeOK, LedgerStates
    <3>2. QED
      BY <2>1, <2>4, <2>5, <3>1, GenesisReplay
  <2>6. CASE RefuseHead(s, events')
    <3>1. subject' = s /\ ledger' = ledger /\ refused'
      BY <2>6 DEF RefuseHead
    <3>2. honest => ReplayedTo(subject.sn)'
      BY <2>1, <2>2, <2>3, <3>1, SameSn DEF ReplayedTo
    <3>3. CertifiedReplay' /\ HonestReplay'
      BY <2>1, <3>1, <3>2 DEF CertifiedReplay, HonestReplay, UpToDate
    <3>4. QED
      BY <2>1, <3>3, UpStoredReplay DEF ReplayInv
  <2>7. CASE h = 1 /\ ApplyHead(s, events')
    <3>1. /\ 1 \in DOMAIN events' /\ subject' = Sourced(events'[1], s)
          /\ ledger' = [current |-> 1, head |-> None]
      BY <2>7 DEF ApplyHead, HeadFits
    <3>2. ledger' # None /\ ledger'.current = 1 /\ ledger'.head = None
      BY <3>1, NoneAssumption DEF LedgerStates
    <3>3. honest => ~ HeadForgotten'
      BY <2>1 DEF Stored, HeadForgotten
    <3>4. CASE ~ HeadForgotten'
      <4>1. CertifiedTo(ledger.current)'
        BY <3>2, <3>4 DEF UpCertified, UpToDate
      <4>2. 1 \in DOMAIN chain /\ events'[1] = chain[1] /\ events'[0] = chain[0]
        BY <2>1, <3>2, <4>1 DEF CertifiedTo
      <4>3. s.sn = 1 - 1 /\ s = Replayed(chain)[1 - 1]
        BY <2>3, <2>4, <4>2
      <4>4. QED
        BY <2>1, <2>3, <3>1, <4>2, <4>3, HeadReplayed
    <3>5. CASE HeadForgotten'
      <4>1. CertifiedReplay' /\ HonestReplay'
        BY <2>1, <3>3, <3>5 DEF CertifiedReplay, HonestReplay
      <4>2. QED
        BY <2>1, <4>1, UpStoredReplay DEF ReplayInv
    <3>6. QED
      BY <3>4, <3>5
  <2>8. QED
    BY <1>5, <2>5, <2>6, <2>7 DEF IntermediateGenesis
<1>6. QED
  BY <1>2, <1>3, <1>4, <1>5 DEF ExternalIntermediateEvent

(* A restart takes up the subject that the database has.                     *)
LEMMA RestartReplay ==
  ASSUME IndInv, IndInv', ReplayInv
  PROVE  Crash \/ LedgerInit => ReplayInv'
<1> USE DEF IndInv, CoreInv
<1>2. CASE Crash
  BY <1>2 DEF Crash, db, scenario, ReplayInv, CertifiedReplay, StoredReplay, HonestReplay, UpToDate,
     EndedOneBehind, ReplayedTo
<1>3. CASE StartFails
  BY <1>3 DEF StartFails, db, memory, scenario, ReplayInv, CertifiedReplay, StoredReplay, HonestReplay,
     HeadForgotten, UpToDate, EndedOneBehind, ReplayedTo
<1>4. CASE StartWithoutSubject
  BY <1>4 DEF StartWithoutSubject, Restarted, db, scenario, ReplayInv, CertifiedReplay, StoredReplay,
     HonestReplay
<1>5. ASSUME NEW l, Restarted(l), subject # None, l.current = subject.sn,
             subject.sn + 1 \notin DOMAIN events
      PROVE  ReplayInv'
  <2>1. /\ mode = "down" /\ ledger' = l
        /\ UNCHANGED <<subject, events, chain, honest, refused, overwritten, crashes>>
    BY <1>5 DEF Restarted, db, scenario
  <2>2. subject.sn \in Nat /\ subject.sn # None /\ crashes > 0
    BY <1>5, <2>1, NoneAssumption DEF Stored, TypeOK, Subjects
  <2>3. ~ HeadForgotten' => ~ overwritten
    BY <2>1, <2>2 DEF HeadForgotten
  <2>4. StoredReplay'
    BY <2>1 DEF ReplayInv, StoredReplay, ReplayedTo
  <2>5. CertifiedReplay'
    BY <1>5, <2>1, <2>2, <2>3 DEF ReplayInv, CertifiedReplay, StoredReplay, ReplayedTo
  <2>6. HonestReplay'
    <3>1. honest => ReplayedTo(subject.sn)
      BY <1>5 DEF ReplayInv, HonestReplay, EndedOneBehind
    <3>2. QED
      BY <1>5, <2>1, <3>1 DEF HonestReplay, ReplayedTo, UpToDate
  <2>7. QED
    BY <2>4, <2>5, <2>6 DEF ReplayInv
<1>6. ASSUME subject # None, mode = "down"
      PROVE  subject.sn \in Nat /\ 0 .. subject.sn \subseteq DOMAIN events
             /\ DOMAIN events \subseteq Nat
  BY <1>6 DEF TypeOK, Stored, Subjects
<1>7. CASE StartWithGenesis
  <2>1. subject # None /\ Single /\ Restarted([current |-> 0, head |-> None]) /\ mode = "down"
    BY <1>7 DEF StartWithGenesis, Restarted
  <2>2. PICK x : DOMAIN events = {x}
    BY <2>1, FS_Singleton DEF Single, Stored
  <2>3. 0 = x /\ subject.sn = x
    BY <1>6, <2>1, <2>2
  <2>4. subject.sn + 1 \notin DOMAIN events
    BY <2>2, <2>3
  <2>5. QED
    BY <1>5, <2>1, <2>3, <2>4
<1>8. CASE StartUpToDate
  <2>1. /\ subject # None /\ Restarted([current |-> LastEvent, head |-> None])
        /\ mode = "down" /\ subject.sn = LastEvent
    BY <1>8 DEF StartUpToDate, Restarted, WrongSnInSubject
  <2>2. \A m \in DOMAIN events : m <= LastEvent
    BY <2>1, LastEventFacts
  <2>3. subject.sn + 1 \notin DOMAIN events
    BY <1>6, <2>1, <2>2
  <2>4. QED
    BY <1>5, <2>1, <2>3
<1>9. CASE StartWithHead
  <2>1. /\ subject # None /\ ~ Single /\ Restarted([current |-> PreLastEvent, head |-> LastEvent])
        /\ mode = "down" /\ subject.sn = PreLastEvent /\ LastEvent # PreLastEvent + 1
    BY <1>9 DEF StartWithHead, Restarted, WrongSnInSubject, Adjacent
  <2>2. \A m \in DOMAIN events : m # LastEvent => m <= PreLastEvent
    BY <2>1, LastEventFacts
  <2>3. subject.sn + 1 \notin DOMAIN events
    BY <1>6, <2>1, <2>2
  <2>4. QED
    BY <1>5, <2>1, <2>3
<1>10. QED
  BY <1>2, <1>3, <1>4, <1>7, <1>8, <1>9 DEF LedgerInit

(* Every step keeps the subject what the events make of it.                *)
LEMMA NextReplayInv == IndInv /\ IndInv' /\ ReplayInv /\ [Next]_vars => ReplayInv'
<1> SUFFICES ASSUME IndInv, IndInv', ReplayInv, [Next]_vars PROVE ReplayInv'
  OBVIOUS
<1>1. CASE UNCHANGED vars \/ WitnessesChange
  BY <1>1 DEF vars, WitnessesChange, db, memory, scenario, ReplayInv, CertifiedReplay, StoredReplay,
     HonestReplay, HeadForgotten, UpToDate, EndedOneBehind, ReplayedTo
<1>2. ASSUME NEW n \in 1 .. Last(chain), StoreNext(chain[n]) \/ \E w \in 1 .. 5 : StopsInNext(chain[n], w)
      PROVE  ReplayInv'
  <2>1. n \in DOMAIN chain
    BY FirstFacts, ChainFacts DEF IndInv, CoreInv
  <2>2. QED
    BY <1>2, <2>1, StoreNextReplay
<1>3. QED
  BY <1>1, <1>2, ExternalEventReplay, IntermediateReplay, RestartReplay DEF Next

(* The subject of an up-to-date node is what the certified events make of    *)
(* it, or one number behind after an end of life (ledger.rs external_event,  *)
(* event_sourcing).                                                          *)
THEOREM SubjectIsWhatEventsMake == Spec => []SubjectIsReplay
<1>1. ASSUME IndInv, ReplayInv PROVE SubjectIsReplay
  <2> DEFINE m == ledger.current
             r == Replayed(chain)[m]
  <2> SUFFICES ASSUME UpToDate, ~ HeadForgotten, honest \/ ~ refused, events[m] = chain[m]
               PROVE  subject = r \/ OneBehind(subject, r)
    BY DEF SubjectIsReplay
  <2>1. /\ ledger # None /\ ledger.head = None /\ m # None /\ m \in Nat
        /\ subject \in Subjects /\ subject # None /\ subject.sn \in Nat /\ subject.sn <= m
        /\ m <= subject.sn \/ (~ subject.active /\ m = subject.sn + 1)
    BY <1>1 DEF UpToDate, IndInv, CoreInv, Position, TypeOK, LedgerStates, Subjects
  <2>2. m \in DOMAIN chain
    BY <1>1 DEF IndInv, CoreInv, UpCertified, CertifiedTo
  <2>3. ReplayedTo(m)
    <3>1. CASE ~ refused
      BY <1>1, <2>1, <2>2, <3>1 DEF ReplayInv, CertifiedReplay
    <3>2. CASE honest
      BY <1>1, <2>1, <3>2 DEF ReplayInv, HonestReplay, EndedOneBehind
    <3>3. QED
      BY <3>1, <3>2
  <2>4. CASE subject.sn = m
    BY <2>1, <2>3, <2>4, SameSn DEF ReplayedTo
  <2>5. CASE ~ subject.active /\ m = subject.sn + 1
    <3>1. r = [subject EXCEPT !.sn = subject.sn + 1]
      BY <2>3, <2>5 DEF ReplayedTo
    <3>2. ~ r.active
      BY <2>1, <2>5, <3>1 DEF Subjects
    <3>3. QED
      BY <3>1, <3>2 DEF OneBehind
  <2>6. QED
    BY <2>1, <2>4, <2>5
<1>2. QED
  BY <1>1, InitIndInv, NextIndInv, InitReplayInv, NextReplayInv, PTL DEF Spec
=============================================================================
