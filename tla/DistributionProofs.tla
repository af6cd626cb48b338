-------------------------- MODULE DistributionProofs --------------------------
(* Safety of the distribution for any nodes, any number of events, versions  *)
(* of the governance with any witnesses, late answers and crashes.  What a   *)
(* node has of an event (the head, a request to distribute, signatures, a    *)
(* task, an answer on its way) is about an event that exists and, except for *)
(* the head and the answer, that the node has stored itself.                 *)
EXTENDS Distribution, TLAPS

Sigs == [by : Nodes, sn : Int]

\* The state of a node, as far as a proof looks at it.
Types ==
  /\ scenario \in Scenarios
  /\ sn \in [Nodes -> Int]
  /\ head \in [Nodes -> Int \cup {None}]
  /\ gov \in [Nodes -> DOMAIN scenario.witnesses]
  /\ entry \in [Nodes -> [sn : Int, sigs : SUBSET Sigs] \cup {None}]
  /\ needed \in [Nodes -> Seq(Int)]
  /\ task \in [Nodes -> [sn : Int, to : SUBSET Nodes, want : SUBSET Nodes] \cup {None}]
  /\ up \in [Nodes -> BOOLEAN]

\* A head is of an event of the owner, and the ledger hands over what it stored.
KnownEvents ==
  \A n \in Nodes :
    /\ head[n] # None => head[n] \in -1 .. sn[Owner]
    /\ \A i \in 1 .. Len(needed[n]) : needed[n][i] \in 0 .. sn[n]

\* A signature is made by a node that has the event.
Made(x) == x \in Sigs /\ x.sn <= sn[x.by]

\* An answer that is late is about an event of the owner, with signatures that
\* were made.
LateAnswers ==
  \A m \in late :
    /\ m.to \in Nodes
    /\ m.sn \in Int /\ m.sn <= sn[Owner]
    /\ "sigs" \in DOMAIN m => \A x \in m.sigs : Made(x)

IndInv == Types /\ TypeOK /\ KnownEvents /\ SignaturesOfEvent /\ LateAnswers

(* A node that has nothing has nothing wrong.                                *)
LEMMA InitInv == Init => IndInv
<1> SUFFICES ASSUME Init PROVE IndInv
  OBVIOUS
<1> USE DistributionAssumption DEF Init
<1>1. Types
  BY DEF Types
<1>2. TypeOK
  BY DEF TypeOK
<1>3. KnownEvents
  BY DEF KnownEvents
<1>4. SignaturesOfEvent /\ LateAnswers
  BY DEF SignaturesOfEvent, LateAnswers
<1>5. QED
  BY <1>1, <1>2, <1>3, <1>4 DEF IndInv

(* The targets of a node are nodes.                                          *)
LEMMA TargetsAreNodes ==
  ASSUME Types, NEW n \in Nodes
  PROVE  GetTargets(n) \subseteq Nodes
  BY DistributionAssumption DEF Types, GetTargets, GetSigners

(* While the last event of every node stays or grows and the answers on      *)
(* their way are those that were, the answers are good.                      *)
LEMMA AnswersStay ==
  ASSUME Types, Types', LateAnswers, late' \subseteq late,
         \A n \in Nodes : sn[n] <= sn'[n]
  PROVE  LateAnswers'
<1> SUFFICES ASSUME NEW m \in late
             PROVE  /\ m.to \in Nodes
                    /\ m.sn \in Int /\ m.sn <= sn'[Owner]
                    /\ "sigs" \in DOMAIN m =>
                         \A x \in m.sigs : x \in Sigs /\ x.sn <= sn'[x.by]
  BY DEF LateAnswers, Made
<1>1. m.sn \in Int /\ m.sn <= sn'[Owner]
  BY DistributionAssumption DEF LateAnswers, Types
<1>2. ASSUME "sigs" \in DOMAIN m, NEW x \in m.sigs
      PROVE  x \in Sigs /\ x.sn <= sn'[x.by]
  <2>1. x \in Sigs /\ x.sn <= sn[x.by]
    BY <1>2 DEF LateAnswers, Made
  <2>2. x.by \in Nodes /\ x.sn \in Int
    BY <2>1 DEF Sigs
  <2>3. QED
    BY <2>1, <2>2 DEF Types
<1>3. QED
  BY <1>1, <1>2 DEF LateAnswers

(* A node stores a later event, one of the owner's or the owner's next.      *)
LEMMA StoreStep ==
  ASSUME IndInv, NEW n \in Nodes, NEW s \in Int, Store(n, s),
         s > sn[n], n # Owner => s <= sn[Owner],
         head' = head \/ head' = [head EXCEPT ![n] = None],
         late' \subseteq late, UNCHANGED <<gov, entry, task, up, scenario>>
  PROVE  IndInv'
<1> USE DistributionAssumption
<1>1. /\ sn' = [sn EXCEPT ![n] = s]
      /\ needed' = [needed EXCEPT ![n] = Append(@, s)]
  BY DEF Store
<1>2. Types'
  <2>1. needed' \in [Nodes -> Seq(Int)]
    BY <1>1 DEF IndInv, Types
  <2>2. head' \in [Nodes -> Int \cup {None}]
    BY DEF IndInv, Types
  <2>3. sn' \in [Nodes -> Int]
    BY <1>1 DEF IndInv, Types
  <2>4. UNCHANGED <<scenario, gov, entry, task, up>>
    OBVIOUS
  <2>5. QED
    BY <2>1, <2>2, <2>3, <2>4 DEF IndInv, Types
<1>3. /\ sn \in [Nodes -> Int] /\ sn' \in [Nodes -> Int]
      /\ \A m \in Nodes : sn[m] <= sn'[m]
  BY <1>1 DEF IndInv, Types
<1>4. \A m \in Nodes : sn[m] \in -1 .. sn[Owner]
  BY DEF IndInv, TypeOK
<1>5. \A m \in Nodes : sn'[m] \in -1 .. sn'[Owner]
  BY <1>1, <1>3, <1>4
<1>6. TypeOK'
  BY <1>3, <1>5 DEF IndInv, TypeOK, Types
<1>7. ASSUME NEW m \in Nodes, NEW i \in 1 .. Len(needed'[m])
      PROVE  needed'[m][i] \in 0 .. sn'[m]
  <2>1. CASE m = n /\ i = Len(needed[n]) + 1
    BY <1>1, <1>4, <2>1 DEF IndInv, Types
  <2>2. CASE ~ (m = n /\ i = Len(needed[n]) + 1)
    <3>1. i \in 1 .. Len(needed[m]) /\ needed'[m][i] = needed[m][i]
      BY <1>1, <1>7, <2>2 DEF IndInv, Types
    <3>2. needed[m][i] \in 0 .. sn[m]
      BY <3>1 DEF IndInv, KnownEvents
    <3>3. QED
      BY <1>3, <3>1, <3>2
  <2>3. QED
    BY <2>1, <2>2
<1>8. KnownEvents'
  <2>1. ASSUME NEW m \in Nodes, head'[m] # None PROVE head'[m] \in -1 .. sn'[Owner]
    <3>1. head'[m] = head[m] /\ head[m] \in Int
      BY <2>1 DEF IndInv, Types
    <3>2. QED
      BY <1>3, <2>1, <3>1 DEF IndInv, KnownEvents
  <2>2. QED
    BY <1>7, <2>1 DEF KnownEvents
<1>9. SignaturesOfEvent'
  <2>1. ASSUME NEW m \in Nodes, entry[m] # None, NEW x \in entry[m].sigs
        PROVE  x.sn = entry[m].sn /\ sn'[x.by] >= x.sn
    <3>1. x.by \in Nodes /\ x.sn \in Int
      BY <2>1 DEF IndInv, Types, Sigs
    <3>2. QED
      BY <1>3, <2>1, <3>1 DEF IndInv, SignaturesOfEvent
  <2>2. QED
    BY <2>1 DEF SignaturesOfEvent
<1>10. LateAnswers'
  BY <1>2, <1>3, AnswersStay DEF IndInv
<1>11. QED
  BY <1>2, <1>6, <1>8, <1>9, <1>10 DEF IndInv

(* Nothing that the invariant speaks of changes, but answers may be gone.    *)
LEMMA SameStep ==
  ASSUME IndInv, late' \subseteq late,
         UNCHANGED <<sn, head, gov, entry, needed, task, up, scenario>>
  PROVE  IndInv'
<1>1. Types' /\ TypeOK' /\ KnownEvents' /\ SignaturesOfEvent'
  BY DEF IndInv, Types, TypeOK, KnownEvents, SignaturesOfEvent
<1>2. \A n \in Nodes : sn[n] <= sn'[n]
  BY DEF IndInv, Types
<1>3. QED
  BY <1>1, <1>2, AnswersStay DEF IndInv

(* An answer is delayed.                                                     *)
LEMMA DelayStep ==
  ASSUME IndInv, NEW m, Delay(m), UNCHANGED <<node, scenario>>,
         m.to \in Nodes, m.sn \in Int, m.sn <= sn[Owner],
         "sigs" \in DOMAIN m => \A x \in m.sigs : Made(x)
  PROVE  IndInv'
<1>1. Types' /\ TypeOK' /\ KnownEvents' /\ SignaturesOfEvent'
  BY DEF node, IndInv, Types, TypeOK, KnownEvents, SignaturesOfEvent
<1>2. late' = late \cup {m} /\ sn' = sn
  BY DEF Delay, node
<1>3. \A k \in late :
        /\ k.to \in Nodes
        /\ k.sn \in Int /\ k.sn <= sn[Owner]
        /\ "sigs" \in DOMAIN k => \A x \in k.sigs : x \in Sigs /\ x.sn <= sn[x.by]
  BY DEF IndInv, LateAnswers, Made
<1>4. "sigs" \in DOMAIN m => \A x \in m.sigs : x \in Sigs /\ x.sn <= sn[x.by]
  BY DEF Made
<1>5. LateAnswers'
  BY <1>2, <1>3, <1>4 DEF LateAnswers, Made
<1>6. QED
  BY <1>1, <1>5 DEF IndInv

(* A node is sent an event of the owner.                                     *)
LEMMA EventStep ==
  ASSUME IndInv, NEW n \in Nodes, NEW s \in Int, s <= sn[Owner],
         ExternalEvent(n, s), late' \subseteq late, UNCHANGED scenario
  PROVE  IndInv'
<1> USE DistributionAssumption
<1>0. UNCHANGED <<gov, entry, task, up>>
  BY DEF ExternalEvent
<1>1. CASE Store(n, s) /\ s > sn[n] /\ UNCHANGED head
  BY <1>0, <1>1, StoreStep
<1>2. CASE s > sn[n] + 1 /\ head' = [head EXCEPT ![n] = s] /\ UNCHANGED <<sn, needed>>
  <2>1. Types'
    BY <1>0, <1>2 DEF IndInv, Types
  <2>2. TypeOK' /\ SignaturesOfEvent'
    BY <1>0, <1>2 DEF IndInv, TypeOK, SignaturesOfEvent
  <2>3. KnownEvents'
    <3>1. ASSUME NEW m \in Nodes, head'[m] # None PROVE head'[m] \in -1 .. sn'[Owner]
      <4>1. sn[n] \in -1 .. sn[Owner] /\ sn[Owner] \in Int
        BY DEF IndInv, Types, TypeOK
      <4>2. s \in -1 .. sn[Owner]
        BY <1>2, <4>1
      <4>3. QED
        BY <1>2, <3>1, <4>2 DEF IndInv, Types, KnownEvents
    <3>2. ASSUME NEW m \in Nodes, NEW i \in 1 .. Len(needed'[m])
          PROVE  needed'[m][i] \in 0 .. sn'[m]
      BY <1>2 DEF IndInv, KnownEvents
    <3>3. QED
      BY <3>1, <3>2 DEF KnownEvents
  <2>4. \A m \in Nodes : sn[m] <= sn'[m]
    BY <1>2 DEF IndInv, Types
  <2>5. QED
    BY <2>1, <2>2, <2>3, <2>4, AnswersStay DEF IndInv
<1>3. CASE UNCHANGED <<sn, head, needed>>
  BY <1>0, <1>3, SameStep
<1>4. QED
  BY <1>1, <1>2, <1>3 DEF ExternalEvent

(* A node asks another one for the last event, and is answered now or later. *)
LEMMA AskStep ==
  ASSUME IndInv, NEW n \in Nodes, NEW p \in Nodes, AskLce(n, p), UNCHANGED scenario
  PROVE  IndInv'
<1>1. sn[p] \in Int /\ sn[p] <= sn[Owner]
  BY DistributionAssumption DEF IndInv, Types, TypeOK
<1>2. CASE ExternalEvent(n, sn[p]) /\ UNCHANGED network
  BY <1>1, <1>2, EventStep DEF network
<1>3. CASE Delay([to |-> n, sn |-> sn[p]]) /\ UNCHANGED <<node, crashes>>
  <2> DEFINE m == [to |-> n, sn |-> sn[p]]
  <2>1. m.to \in Nodes /\ m.sn \in Int /\ m.sn <= sn[Owner] /\ "sigs" \notin DOMAIN m
    BY <1>1
  <2>2. Delay(m) /\ UNCHANGED node
    BY <1>3
  <2> HIDE DEF m
  <2>3. QED
    BY <2>1, <2>2, DelayStep
<1>4. QED
  BY <1>2, <1>3 DEF AskLce

(* The task of a running node is set, for an event it has, or taken away.    *)
LEMMA TaskStep ==
  ASSUME IndInv, NEW n \in Nodes, up'[n], \A m \in Nodes : up[m] => up'[m],
         \/ UNCHANGED task
         \/ task' = [task EXCEPT ![n] = None]
         \/ \E s \in 0 .. sn[n], to \in SUBSET Nodes : \E want \in SUBSET to :
              SendSignatureRequest(n, s, to, want)
  PROVE  /\ task' \in [Nodes -> [sn : Int, to : SUBSET Nodes, want : SUBSET Nodes] \cup {None}]
         /\ \A m \in Nodes : task'[m] # None =>
              /\ up'[m] /\ task'[m].sn \in 0 .. sn[m]
              /\ task'[m].want \subseteq task'[m].to /\ task'[m].to \subseteq Nodes
<1>0. sn[n] \in Int
  BY DEF IndInv, Types
<1>1. CASE UNCHANGED task
  BY <1>1 DEF IndInv, Types, TypeOK
<1>2. CASE task' = [task EXCEPT ![n] = None]
  BY <1>2 DEF IndInv, Types, TypeOK
<1>3. ASSUME NEW s \in 0 .. sn[n], NEW to \in SUBSET Nodes, NEW want \in SUBSET to,
             SendSignatureRequest(n, s, to, want)
      PROVE  /\ task' \in [Nodes -> [sn : Int, to : SUBSET Nodes, want : SUBSET Nodes] \cup {None}]
             /\ \A m \in Nodes : task'[m] # None =>
                  /\ up'[m] /\ task'[m].sn \in 0 .. sn[m]
                  /\ task'[m].want \subseteq task'[m].to /\ task'[m].to \subseteq Nodes
  <2> DEFINE t == [sn |-> s, to |-> to, want |-> want]
  <2>1. t \in [sn : Int, to : SUBSET Nodes, want : SUBSET Nodes]
    BY <1>0
  <2>2. t.sn = s /\ t.to = to /\ t.want = want
    OBVIOUS
  <2>3. task' = [task EXCEPT ![n] = t]
    BY <1>3 DEF SendSignatureRequest
  <2> HIDE DEF t
  <2>4. task' \in [Nodes -> [sn : Int, to : SUBSET Nodes, want : SUBSET Nodes] \cup {None}]
    BY <2>1, <2>3 DEF IndInv, Types
  <2>5. ASSUME NEW m \in Nodes, task'[m] # None
        PROVE  /\ up'[m] /\ task'[m].sn \in 0 .. sn[m]
               /\ task'[m].want \subseteq task'[m].to /\ task'[m].to \subseteq Nodes
    BY <2>2, <2>3, <2>5 DEF IndInv, Types, TypeOK
  <2>6. QED
    BY <2>4, <2>5
<1>4. QED
  BY <1>1, <1>2, <1>3

(* A step on the entry of a node and on its task, the ledger being the same. *)
LEMMA EntryStep ==
  ASSUME IndInv, NEW n \in Nodes, up'[n], \A m \in Nodes : up[m] => up'[m],
         up' \in [Nodes -> BOOLEAN],
         UNCHANGED <<sn, head, gov, scenario>>, late' \subseteq late,
         needed' \in [Nodes -> Seq(Int)],
         \A m \in Nodes : \A i \in 1 .. Len(needed'[m]) :
           needed'[m][i] \in 0 .. sn[m],
         \/ UNCHANGED task
         \/ task' = [task EXCEPT ![n] = None]
         \/ \E s \in 0 .. sn[n], to \in SUBSET Nodes : \E want \in SUBSET to :
              SendSignatureRequest(n, s, to, want),
         \/ UNCHANGED entry
         \/ entry' = [entry EXCEPT ![n] = None]
         \/ \E s \in 0 .. sn[n], sigs \in SUBSET {x \in Sigs : Made(x)} :
              /\ \A x \in sigs : x.sn = s
              /\ entry' = [entry EXCEPT ![n] = [sn |-> s, sigs |-> sigs]]
  PROVE  IndInv'
<1>1. /\ task' \in [Nodes -> [sn : Int, to : SUBSET Nodes, want : SUBSET Nodes] \cup {None}]
      /\ \A m \in Nodes : task'[m] # None =>
           /\ up'[m] /\ task'[m].sn \in 0 .. sn[m]
           /\ task'[m].want \subseteq task'[m].to /\ task'[m].to \subseteq Nodes
  BY TaskStep
<1>2. /\ entry' \in [Nodes -> [sn : Int, sigs : SUBSET Sigs] \cup {None}]
      /\ \A m \in Nodes : entry'[m] # None =>
           /\ entry'[m].sn \in 0 .. sn[m]
           /\ \A x \in entry'[m].sigs : x.sn = entry'[m].sn /\ sn[x.by] >= x.sn
  <2>0. /\ entry \in [Nodes -> [sn : Int, sigs : SUBSET Sigs] \cup {None}]
        /\ \A m \in Nodes : entry[m] # None =>
             /\ entry[m].sn \in 0 .. sn[m]
             /\ \A x \in entry[m].sigs : x.sn = entry[m].sn /\ sn[x.by] >= x.sn
    BY DEF IndInv, Types, TypeOK, SignaturesOfEvent
  <2>1. CASE UNCHANGED entry
    BY <2>0, <2>1
  <2>2. CASE entry' = [entry EXCEPT ![n] = None]
    BY <2>0, <2>2
  <2>3. ASSUME NEW s \in 0 .. sn[n], NEW sigs \in SUBSET {x \in Sigs : Made(x)},
               \A x \in sigs : x.sn = s,
               entry' = [entry EXCEPT ![n] = [sn |-> s, sigs |-> sigs]]
        PROVE  /\ entry' \in [Nodes -> [sn : Int, sigs : SUBSET Sigs] \cup {None}]
               /\ \A m \in Nodes : entry'[m] # None =>
                    /\ entry'[m].sn \in 0 .. sn[m]
                    /\ \A x \in entry'[m].sigs : x.sn = entry'[m].sn /\ sn[x.by] >= x.sn
    <3> DEFINE e == [sn |-> s, sigs |-> sigs]
    <3>1. sn[n] \in Int
      BY DEF IndInv, Types
    <3>2. e \in [sn : Int, sigs : SUBSET Sigs] /\ e.sn = s /\ e.sigs = sigs
      BY <3>1
    <3>3. \A x \in sigs : x.sn = s /\ sn[x.by] >= x.sn
      <4>1. SUFFICES ASSUME NEW x \in sigs PROVE x.sn = s /\ sn[x.by] >= x.sn
        OBVIOUS
      <4>2. x.sn = s /\ x \in Sigs /\ x.sn <= sn[x.by]
        BY <2>3 DEF Made
      <4>3. sn[x.by] \in Int /\ x.sn \in Int
        BY <4>2 DEF Sigs, IndInv, Types
      <4>4. QED
        BY <4>2, <4>3
    <3>4. entry' = [entry EXCEPT ![n] = e]
      BY <2>3
    <3> HIDE DEF e
    <3>5. entry' \in [Nodes -> [sn : Int, sigs : SUBSET Sigs] \cup {None}]
      BY <2>0, <3>2, <3>4
    <3>6. ASSUME NEW m \in Nodes, entry'[m] # None
          PROVE  /\ entry'[m].sn \in 0 .. sn[m]
                 /\ \A x \in entry'[m].sigs : x.sn = entry'[m].sn /\ sn[x.by] >= x.sn
      <4>1. CASE m = n
        <5>1. entry'[m] = e
          BY <2>0, <3>4, <4>1
        <5>2. QED
          BY <3>2, <3>3, <4>1, <5>1
      <4>2. CASE m # n
        <5>1. entry'[m] = entry[m]
          BY <2>0, <3>4, <4>2
        <5>2. QED
          BY <2>0, <3>6, <5>1
      <4>3. QED
        BY <4>1, <4>2
    <3>7. QED
      BY <3>5, <3>6
  <2>4. QED
    BY <2>1, <2>2, <2>3
<1>3. Types'
  <2>1. UNCHANGED <<scenario, sn, head, gov>>
    OBVIOUS
  <2>2. QED
    BY <1>1, <1>2, <2>1 DEF IndInv, Types
<1>4. TypeOK'
  <2>1. \A m \in Nodes : sn[m] \in -1 .. sn[Owner]
    BY DEF IndInv, TypeOK
  <2>2. QED
    BY <1>1, <1>2, <2>1 DEF TypeOK
<1>5. SignaturesOfEvent'
  BY <1>2 DEF SignaturesOfEvent
<1>6. KnownEvents'
  BY DEF IndInv, KnownEvents
<1>7. LateAnswers'
  <2>1. \A m \in Nodes : sn[m] <= sn'[m]
    BY DEF IndInv, Types
  <2>2. QED
    BY <1>3, <2>1, AnswersStay DEF IndInv
<1>8. QED
  BY <1>3, <1>4, <1>5, <1>6, <1>7 DEF IndInv

(* Signatures that were made are received.                                   *)
LEMMA ReceivedStep ==
  ASSUME IndInv, NEW n \in Nodes, NEW s, NEW sigs, \A x \in sigs : Made(x),
         SignaturesReceived(n, s, sigs), late' \subseteq late, UNCHANGED scenario
  PROVE  IndInv'
<1> DEFINE targets == GetTargets(n)
           all == entry[n].sigs \cup sigs
           remaining == (targets \ {n}) \ Signers(all)
           taken == /\ up[n] /\ entry[n] # None /\ entry[n].sn = s
                    /\ Signers(sigs) \subseteq targets
                    /\ \A x \in sigs : x.sn = s
<1>1. UNCHANGED <<sn, head, gov, needed, up>>
  BY DEF SignaturesReceived
<1>2. CASE ~ taken
  <2>1. UNCHANGED <<entry, task>>
    BY <1>2 DEF SignaturesReceived
  <2>2. QED
    BY <1>1, <2>1, SameStep
<1>3. CASE taken
  <2>1. entry[n] \in [sn : Int, sigs : SUBSET Sigs] /\ entry[n].sn = s
    BY <1>3 DEF IndInv, Types
  <2>2. s \in 0 .. sn[n]
    BY <1>3 DEF IndInv, TypeOK
  <2>3. /\ entry' = [entry EXCEPT ![n] = [sn |-> s, sigs |-> all]]
        /\ \/ task' = [task EXCEPT ![n] = None]
           \/ SendSignatureRequest(n, s, (targets \ {n}) \cup {Owner}, remaining)
    BY <1>3 DEF SignaturesReceived
  <2>4. all \in SUBSET {x \in Sigs : Made(x)}
    <3>1. ASSUME NEW x \in entry[n].sigs PROVE x \in Sigs /\ Made(x)
      <4>1. x \in Sigs /\ sn[x.by] >= x.sn
        BY <1>3, <2>1 DEF IndInv, SignaturesOfEvent
      <4>2. sn[x.by] \in Int /\ x.sn \in Int
        BY <4>1 DEF Sigs, IndInv, Types
      <4>3. QED
        BY <4>1, <4>2 DEF Made
    <3>2. QED
      BY <3>1 DEF Made
  <2>5. \A x \in all : x.sn = s
    BY <1>3 DEF IndInv, SignaturesOfEvent
  <2>6. targets \subseteq Nodes /\ Owner \in Nodes
    BY TargetsAreNodes, DistributionAssumption DEF IndInv
  <2>7. /\ (targets \ {n}) \cup {Owner} \in SUBSET Nodes
        /\ remaining \in SUBSET ((targets \ {n}) \cup {Owner})
    BY <2>6
  <2> HIDE DEF targets, all, remaining
  <2>8. /\ \A m \in Nodes : \A i \in 1 .. Len(needed'[m]) : needed'[m][i] \in 0 .. sn[m]
        /\ needed' \in [Nodes -> Seq(Int)]
    BY <1>1 DEF IndInv, KnownEvents, Types
  <2>9. up'[n] /\ \A m \in Nodes : up[m] => up'[m]
    BY <1>1, <1>3
  <2>10. up' \in [Nodes -> BOOLEAN]
    BY <1>1, Zenon DEF IndInv, Types
  <2>11. \/ task' = [task EXCEPT ![n] = None]
         \/ \E r \in 0 .. sn[n], to \in SUBSET Nodes : \E want \in SUBSET to :
              SendSignatureRequest(n, r, to, want)
    BY <2>2, <2>3, <2>7
  <2>12. \E r \in 0 .. sn[n], g \in SUBSET {x \in Sigs : Made(x)} :
              /\ \A x \in g : x.sn = r
              /\ entry' = [entry EXCEPT ![n] = [sn |-> r, sigs |-> g]]
    BY <2>2, <2>3, <2>4, <2>5
  <2>13. QED
    BY <1>1, <2>8, <2>9, <2>10, <2>11, <2>12, EntryStep
<1>4. QED
  BY <1>2, <1>3

(* The ledger's request to distribute an event is read.                      *)
LEMMA StartStep ==
  ASSUME IndInv, NEW n \in Nodes, StartDistribution(n), UNCHANGED scenario
  PROVE  IndInv'
<1> DEFINE s == Head(needed[n])
           targets == GetTargets(n) \ {n}
<1>1. /\ UNCHANGED <<sn, head, gov, up, late>> /\ up[n] /\ needed[n] # <<>>
      /\ needed' = [needed EXCEPT ![n] = Tail(@)]
      /\ entry' = [entry EXCEPT ![n] = [sn |-> s, sigs |-> {Sig(n, s)}]]
      /\ UNCHANGED task \/ SendSignatureRequest(n, s, targets, targets)
  BY DEF StartDistribution, network
<1>2. needed \in [Nodes -> Seq(Int)] /\ sn[n] \in Int
  BY DEF IndInv, Types
<1>3. s \in 0 .. sn[n]
  <2>1. 1 \in 1 .. Len(needed[n]) /\ s = needed[n][1]
    BY <1>1, <1>2
  <2>2. QED
    BY <2>1 DEF IndInv, KnownEvents
<1>4. targets \in SUBSET Nodes
  BY TargetsAreNodes DEF IndInv
<1>5. needed' \in [Nodes -> Seq(Int)]
  BY <1>1, <1>2
<1>6. ASSUME NEW m \in Nodes, NEW i \in 1 .. Len(needed'[m])
      PROVE  needed'[m][i] \in 0 .. sn[m]
  <2>1. \E j \in 1 .. Len(needed[m]) : needed'[m][i] = needed[m][j]
    <3>1. CASE m = n
      <4>1. needed'[m] = Tail(needed[m])
        BY <1>1, <1>2, <3>1
      <4>2. i + 1 \in 1 .. Len(needed[m]) /\ needed'[m][i] = needed[m][i + 1]
        BY <1>1, <1>2, <1>6, <3>1, <4>1
      <4>3. QED
        BY <4>2
    <3>2. CASE m # n
      BY <1>1, <1>2, <3>2
    <3>3. QED
      BY <3>1, <3>2
  <2>2. QED
    BY <2>1 DEF IndInv, KnownEvents
<1>7. {Sig(n, s)} \in SUBSET {x \in Sigs : Made(x)} /\ \A x \in {Sig(n, s)} : x.sn = s
  BY <1>2, <1>3 DEF Sig, Made, Sigs
<1>8. up'[n] /\ \A m \in Nodes : up[m] => up'[m]
  BY <1>1
<1>9. up' \in [Nodes -> BOOLEAN]
  BY <1>1, Zenon DEF IndInv, Types
<1> HIDE DEF s, targets
<1>10. \/ UNCHANGED task
       \/ \E r \in 0 .. sn[n], to \in SUBSET Nodes : \E want \in SUBSET to :
            SendSignatureRequest(n, r, to, want)
  BY <1>1, <1>3, <1>4
<1>11. \E r \in 0 .. sn[n], g \in SUBSET {x \in Sigs : Made(x)} :
          /\ \A x \in g : x.sn = r
          /\ entry' = [entry EXCEPT ![n] = [sn |-> r, sigs |-> g]]
  BY <1>1, <1>3, <1>7
<1>12. QED
  BY <1>1, <1>5, <1>6, <1>8, <1>9, <1>10, <1>11, EntryStep

(* The process of a node stops: its task and its channel are gone.           *)
LEMMA StopStep ==
  ASSUME IndInv, NEW n \in Nodes, Stop(n), UNCHANGED <<sn, gov, entry, late, scenario>>,
         head' \in [Nodes -> Int \cup {None}],
         \A m \in Nodes : head'[m] # None => head'[m] \in -1 .. sn[Owner]
  PROVE  IndInv'
<1>0. /\ task' = [task EXCEPT ![n] = None] /\ needed' = [needed EXCEPT ![n] = <<>>]
      /\ up' = [up EXCEPT ![n] = FALSE]
  BY DEF Stop
<1>1. Types'
  <2>1. task' \in [Nodes -> [sn : Int, to : SUBSET Nodes, want : SUBSET Nodes] \cup {None}]
    BY <1>0 DEF IndInv, Types
  <2>2. needed' \in [Nodes -> Seq(Int)]
    BY <1>0 DEF IndInv, Types
  <2>3. up' \in [Nodes -> BOOLEAN]
    BY <1>0 DEF IndInv, Types
  <2>4. UNCHANGED <<scenario, sn, gov, entry>>
    OBVIOUS
  <2>5. QED
    BY <2>1, <2>2, <2>3, <2>4 DEF IndInv, Types
<1>2. TypeOK'
  <2>1. ASSUME NEW m \in Nodes, task'[m] # None
        PROVE  m # n /\ task'[m] = task[m] /\ up'[m] = up[m]
    BY <1>0, <2>1 DEF IndInv, Types
  <2>2. QED
    BY <2>1 DEF IndInv, TypeOK
<1>3. KnownEvents'
  <2>1. ASSUME NEW m \in Nodes, NEW i \in 1 .. Len(needed'[m])
        PROVE  needed'[m][i] \in 0 .. sn[m]
    <3>1. CASE m = n
      BY <1>0, <2>1, <3>1 DEF IndInv, Types
    <3>2. CASE m # n
      BY <1>0, <2>1, <3>2 DEF IndInv, Types, KnownEvents
    <3>3. QED
      BY <3>1, <3>2
  <2>2. QED
    BY <2>1 DEF KnownEvents
<1>4. SignaturesOfEvent' /\ LateAnswers'
  BY DEF IndInv, SignaturesOfEvent, LateAnswers, Made
<1>5. QED
  BY <1>1, <1>2, <1>3, <1>4 DEF IndInv

(* The restart of a node and its notice of a new version take up the         *)
(* signatures of an event it has, forget them, or do nothing.                *)
LEMMA ResumeStep ==
  ASSUME IndInv, NEW n \in Nodes, up' = [up EXCEPT ![n] = TRUE],
         UNCHANGED <<sn, head, gov, needed, late, scenario>>,
         UNCHANGED entry \/ entry' = [entry EXCEPT ![n] = None],
         \/ UNCHANGED task
         \/ \E to \in SUBSET GetTargets(n) : \E want \in SUBSET to :
              sn[n] # -1 /\ SendSignatureRequest(n, sn[n], to, want)
  PROVE  IndInv'
<1>1. up \in [Nodes -> BOOLEAN] /\ needed \in [Nodes -> Seq(Int)]
  BY DEF IndInv, Types
<1>2. up' \in [Nodes -> BOOLEAN]
  BY <1>1
<1>3. up'[n] /\ \A m \in Nodes : up[m] => up'[m]
  BY <1>1
<1>4. \A m \in Nodes : \A i \in 1 .. Len(needed'[m]) : needed'[m][i] \in 0 .. sn[m]
  BY DEF IndInv, KnownEvents
<1>5. GetTargets(n) \subseteq Nodes
  BY TargetsAreNodes DEF IndInv
<1>6. sn[n] # -1 => sn[n] \in 0 .. sn[n]
  BY DistributionAssumption DEF IndInv, Types, TypeOK
<1>7. \/ UNCHANGED task
      \/ \E s \in 0 .. sn[n], to \in SUBSET Nodes : \E want \in SUBSET to :
           SendSignatureRequest(n, s, to, want)
  BY <1>5, <1>6
<1>8. QED
  BY <1>1, <1>2, <1>3, <1>4, <1>7, EntryStep

(* A node reads an announcement of the governance.                           *)
LEMMA UpdatedStep ==
  ASSUME IndInv, NEW n \in Nodes, GovernanceUpdated(n), UNCHANGED scenario
  PROVE  IndInv'
<1> DEFINE targets == GetTargets(n)
           remaining == targets \ Signers(entry[n].sigs)
<1>1. UNCHANGED <<sn, head, gov, late>> /\ up[n] = TRUE
  <2>1. up[n] \in BOOLEAN
    BY DEF IndInv, Types
  <2>2. QED
    BY <2>1 DEF GovernanceUpdated, network
<1>2. UNCHANGED up => up' = [up EXCEPT ![n] = TRUE]
  BY <1>1 DEF IndInv, Types
<1>3. CASE entry' = [entry EXCEPT ![n] = None] /\ UNCHANGED <<needed, task, up>>
  BY <1>1, <1>2, <1>3, ResumeStep
<1>4. CASE /\ sn[n] # -1
           /\ UNCHANGED task \/ SendSignatureRequest(n, sn[n], targets, remaining)
           /\ UNCHANGED <<entry, needed, up>>
  <2>1. targets \in SUBSET GetTargets(n) /\ remaining \in SUBSET targets
    OBVIOUS
  <2> HIDE DEF targets, remaining
  <2>2. QED
    BY <1>1, <1>2, <1>4, <2>1, ResumeStep
<1>5. CASE Stop(n) /\ UNCHANGED entry
  <2>1. /\ head' \in [Nodes -> Int \cup {None}]
        /\ \A m \in Nodes : head'[m] # None => head'[m] \in -1 .. sn[Owner]
    BY <1>1 DEF IndInv, Types, KnownEvents
  <2>2. QED
    BY <1>1, <1>5, <2>1, StopStep
<1>6. QED
  BY <1>3, <1>4, <1>5 DEF GovernanceUpdated

(* init of a node that starts again.                                         *)
LEMMA RestartStep ==
  ASSUME IndInv, NEW n \in Nodes, Restart(n), UNCHANGED scenario
  PROVE  IndInv'
<1> DEFINE targets == GetTargets(n)
           remaining == (targets \ {n}) \ Signers(entry[n].sigs)
<1>1. UNCHANGED <<sn, head, gov, needed, late>> /\ up' = [up EXCEPT ![n] = TRUE]
  BY DEF Restart, network
<1>2. CASE entry[n] = None \/ entry[n].sn # sn[n]
  <2>1. UNCHANGED <<entry, task>>
    BY <1>2 DEF Restart
  <2>2. QED
    BY <1>1, <2>1, ResumeStep
<1>3. CASE ~ (entry[n] = None \/ entry[n].sn # sn[n])
  <2>1. sn[n] # -1
    BY <1>3 DEF IndInv, TypeOK
  <2>2. \/ entry' = [entry EXCEPT ![n] = None] /\ UNCHANGED task
        \/ /\ UNCHANGED entry
           /\ UNCHANGED task \/ SendSignatureRequest(n, sn[n], targets \ {n}, remaining)
    BY <1>3 DEF Restart
  <2>3. targets \ {n} \in SUBSET GetTargets(n) /\ remaining \in SUBSET (targets \ {n})
    OBVIOUS
  <2> HIDE DEF targets, remaining
  <2>4. QED
    BY <1>1, <2>1, <2>2, <2>3, ResumeStep
<1>4. QED
  BY <1>2, <1>3

(* The process of a node goes.                                               *)
LEMMA CrashStep ==
  ASSUME IndInv, NEW n \in Nodes, Crash(n), UNCHANGED scenario
  PROVE  IndInv'
<1>1. /\ Stop(n) /\ UNCHANGED <<sn, gov, entry, late>>
      /\ head' = [head EXCEPT ![n] = IF sn[n] = -1 /\ head[n] # None THEN -1 ELSE head[n]]
  BY DEF Crash, network
<1>2. head' \in [Nodes -> Int \cup {None}]
  BY <1>1 DEF IndInv, Types
<1>3. ASSUME NEW m \in Nodes, head'[m] # None PROVE head'[m] \in -1 .. sn[Owner]
  <2>1. -1 \in -1 .. sn[Owner]
    BY DistributionAssumption DEF IndInv, Types, TypeOK
  <2>2. head'[m] = -1 \/ head'[m] = head[m]
    BY <1>1 DEF IndInv, Types
  <2>3. QED
    BY <1>3, <2>1, <2>2 DEF IndInv, KnownEvents
<1>4. QED
  BY <1>1, <1>2, <1>3, StopStep

(* What the ledger of a node does on its own.                                *)
LEMMA LedgerSteps ==
  ASSUME IndInv, LedgerStep, UNCHANGED scenario
  PROVE  IndInv'
<1>1. CASE OwnEvent
  <2>1. Owner \in Nodes /\ sn[Owner] + 1 \in Int /\ sn[Owner] + 1 > sn[Owner]
    BY DistributionAssumption DEF IndInv, Types
  <2>2. QED
    BY <1>1, <2>1, StoreStep DEF OwnEvent, network
<1>2. ASSUME NEW n \in Nodes, GovernanceUpdate(n) PROVE IndInv'
  <2>1. UNCHANGED <<sn, head, entry, needed, task, up, late, scenario>>
    BY <1>2 DEF GovernanceUpdate, network
  <2>2. gov' \in [Nodes -> DOMAIN scenario.witnesses]
    BY <1>2 DEF GovernanceUpdate, IndInv, Types
  <2>3. Types'
    BY <2>1, <2>2 DEF IndInv, Types
  <2>4. QED
    BY <2>1, <2>3 DEF IndInv, TypeOK, KnownEvents, SignaturesOfEvent, LateAnswers, Made
<1>3. ASSUME NEW n \in Nodes, CatchUp(n) PROVE IndInv'
  <2>1. head[n] \in Int /\ head[n] \in -1 .. sn[Owner] /\ head[n] # -1 /\ sn[n] = -1
    BY <1>3 DEF CatchUp, IndInv, Types, KnownEvents
  <2>2. head[n] > sn[n] /\ head[n] <= sn[Owner]
    BY <2>1, DistributionAssumption DEF IndInv, Types
  <2>3. QED
    BY <1>3, <2>1, <2>2, StoreStep DEF CatchUp, network
<1>4. QED
  BY <1>1, <1>2, <1>3 DEF LedgerStep

(* What the preauthorised subjects of a node make it do.                     *)
LEMMA AuthorizedSteps ==
  ASSUME IndInv, AuthorizedSubjectsStep, UNCHANGED scenario
  PROVE  IndInv'
<1>1. ASSUME NEW n \in Nodes, NewAuthorizedSubject(n) PROVE IndInv'
  BY <1>1, SameStep DEF NewAuthorizedSubject, network
<1>2. ASSUME NEW n \in Nodes, AskForAll(n) PROVE IndInv'
  <2>1. PICK p \in scenario.providers[n] : AskLce(n, p)
    BY <1>2 DEF AskForAll
  <2>2. p \in Nodes
    BY DistributionAssumption DEF IndInv, Types
  <2>3. QED
    BY <2>1, <2>2, AskStep
<1>3. QED
  BY <1>1, <1>2 DEF AuthorizedSubjectsStep

(* The task of n asks m: m answers with signatures or asks back.             *)
LEMMA TickStep ==
  ASSUME IndInv, NEW n \in Nodes, NEW m \in Nodes, Tick(n, m), UNCHANGED scenario
  PROVE  IndInv'
<1> DEFINE sigs == {s \in entry[m].sigs : s.by \in task[n].want}
<1>1. CASE GiveSignatures(n, m)
  <2>1. entry[m] # None /\ task[n] # None
    BY <1>1 DEF GiveSignatures, Tick
  <2>2. \A x \in sigs : Made(x)
    <3>1. SUFFICES ASSUME NEW x \in entry[m].sigs PROVE Made(x)
      OBVIOUS
    <3>2. x \in Sigs /\ sn[x.by] >= x.sn
      BY <2>1 DEF IndInv, Types, SignaturesOfEvent
    <3>3. sn[x.by] \in Int /\ x.sn \in Int
      BY <3>2 DEF Sigs, IndInv, Types
    <3>4. QED
      BY <3>2, <3>3 DEF Made
  <2>3. CASE SignaturesReceived(n, task[n].sn, sigs) /\ UNCHANGED network
    <3> HIDE DEF sigs
    <3>1. QED
      BY <2>2, <2>3, ReceivedStep DEF network
  <2>4. CASE Delay([to |-> n, sn |-> task[n].sn, sigs |-> sigs]) /\ UNCHANGED node
    <3> DEFINE a == [to |-> n, sn |-> task[n].sn, sigs |-> sigs]
    <3>1. task[n].sn \in Int /\ task[n].sn <= sn[Owner]
      BY <2>1, DistributionAssumption DEF IndInv, Types, TypeOK
    <3>2. a.to \in Nodes /\ a.sn \in Int /\ a.sn <= sn[Owner] /\ \A x \in a.sigs : Made(x)
      BY <2>2, <3>1
    <3>3. Delay(a) /\ UNCHANGED node
      BY <2>4
    <3> HIDE DEF a, sigs
    <3>4. QED
      BY <3>2, <3>3, DelayStep
  <2>5. QED
    BY <1>1, <2>3, <2>4 DEF GiveSignatures
<1>2. CASE AskLce(m, n)
  BY <1>2, AskStep
<1>3. QED
  BY <1>1, <1>2 DEF Tick, ProvideSignatures

(* An answer arrives late.                                                   *)
LEMMA LateStep ==
  ASSUME IndInv, NEW m \in late, LateAnswer(m), UNCHANGED scenario
  PROVE  IndInv'
<1>1. /\ m.to \in Nodes /\ m.sn \in Int /\ m.sn <= sn[Owner]
      /\ "sigs" \in DOMAIN m => \A x \in m.sigs : Made(x)
  BY DEF IndInv, LateAnswers
<1>2. late' \subseteq late
  BY DEF LateAnswer
<1>3. CASE "sigs" \in DOMAIN m
  <2>1. SignaturesReceived(m.to, m.sn, m.sigs)
    BY <1>3 DEF LateAnswer
  <2>2. QED
    BY <1>1, <1>2, <1>3, <2>1, ReceivedStep
<1>4. CASE "sigs" \notin DOMAIN m
  <2>1. ExternalEvent(m.to, m.sn)
    BY <1>4 DEF LateAnswer
  <2>2. QED
    BY <1>1, <1>2, <2>1, EventStep
<1>5. QED
  BY <1>3, <1>4

(* Every step keeps the invariant.                                           *)
LEMMA NextInv == IndInv /\ [Next]_vars => IndInv'
<1> SUFFICES ASSUME IndInv, [Next]_vars PROVE IndInv'
  OBVIOUS
<1>1. CASE UNCHANGED vars
  BY <1>1, SameStep DEF vars, node, network
<1>2. CASE LedgerStep /\ UNCHANGED scenario
  BY <1>2, LedgerSteps
<1>3. CASE AuthorizedSubjectsStep /\ UNCHANGED scenario
  BY <1>3, AuthorizedSteps
<1>4. CASE DistributionStep /\ UNCHANGED scenario
  BY <1>4, StartStep, UpdatedStep, TickStep, LateStep DEF DistributionStep
<1>5. CASE FaultStep /\ UNCHANGED scenario
  BY <1>5, CrashStep, RestartStep DEF FaultStep
<1>6. QED
  BY <1>1, <1>2, <1>3, <1>4, <1>5 DEF Next

-----------------------------------------------------------------------------
(* No node is ahead of the owner, and what a node distributes or asks for    *)
(* signatures of is an event it has stored, asked of nodes and by a node     *)
(* that runs (distribution/inner_manager.rs).                                *)
THEOREM TypeCorrect == Spec => []TypeOK
<1>1. IndInv => TypeOK
  BY DEF IndInv
<1>2. QED
  BY <1>1, InitInv, NextInv, PTL DEF Spec

(* The witness signatures a node keeps of an event are of this event and by  *)
(* nodes that have stored it, however late answers are and whoever becomes   *)
(* or ceases to be a witness (distribution/inner_manager.rs                  *)
(* signatures_received).                                                     *)
THEOREM SignaturesOfEventHolds == Spec => []SignaturesOfEvent
<1>1. IndInv => SignaturesOfEvent
  BY DEF IndInv
<1>2. QED
  BY <1>1, InitInv, NextInv, PTL DEF Spec
=============================================================================
