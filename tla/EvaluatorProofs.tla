---------------------------- MODULE EvaluatorProofs ----------------------------
(***************************************************************************)
(* Safety of the governance and of the evaluator next to it, for any       *)
(* nodes, patches that fit the schema of a governance, contracts, capacity *)
(* of the broadcast channel and crashes.  GovInv is about the governance   *)
(* and its history alone; EvalInv says where the compiler, the runner and  *)
(* the answers have what they hold from.                                   *)
(***************************************************************************)
EXTENDS Evaluator, FiniteSetTheorems, SequenceTheorems,
        WellFoundedInduction, TLAPS

(* Documents: every field is the initial one or comes from a patch.        *)
Values ==
  {InitialState[f] : f \in Fields}
    \cup UNION {{p[f] : f \in DOMAIN p} : p \in Patches}
Documents == [Fields -> Values]
Governances == [sn : Nat, owner : Nodes, properties : Documents]
GovEvents == [patch : Patches \cup {NoPatch}, approved : BOOLEAN]

GovTypes ==
  /\ chain \in Seq(GovEvents) /\ was \in Seq(Governances) /\ gov \in Governances
  /\ Len(chain) = gov.sn /\ Len(was) = gov.sn + 1

(* What get_signers and get_quorum rely on when they read a document.      *)
WellFormed(doc) ==
  /\ \A f \in Fields : IsList(doc[f])
  /\ \A i \in DOMAIN doc.policies, stage \in Stages : IsQuorum(doc.policies[i][stage])

(* Every version passed the contract, and follows from the one before if   *)
(* its event was approved.                                                 *)
History ==
  /\ was[gov.sn + 1] = gov /\ was[1].properties = InitialState
  /\ \A v \in 0 .. gov.sn :
       WellFormed(was[v + 1].properties) /\ CheckGovernanceState(was[v + 1].properties)
  /\ \A i \in 1 .. gov.sn : chain[i].approved =>
       was[i + 1].properties = ApplyPatch(was[i].properties, chain[i].patch)

GovInv == GovTypes /\ History

-----------------------------------------------------------------------------
(* Documents.                                                              *)

(* The four parts of the document a governance starts with.                *)
LEMMA InitialFields ==
  /\ InitialState \in Documents
  /\ InitialState.members = <<>> /\ InitialState.schemas = <<>>
  /\ InitialState.roles = <<[role |-> "WITNESS", schema |-> "governance",
                             who |-> <<"MEMBERS">>, namespace |-> <<>>]>>
  /\ InitialState.policies =
       <<[id |-> "governance", approve |-> <<"MAJORITY">>,
          evaluate |-> <<"MAJORITY">>, validate |-> <<"MAJORITY">>]>>
<1>1. InitialState \in [Fields -> {InitialState[f] : f \in Fields}]
  BY DEF InitialState, Fields
<1>2. InitialState \in Documents
  BY <1>1 DEF Documents, Values
<1>3. QED
  BY <1>2 DEF InitialState

(* The initial document passes the contract of governances.                *)
LEMMA InitialDocument ==
  WellFormed(InitialState) /\ CheckGovernanceState(InitialState)
<1> DEFINE d == InitialState
<1>1. /\ d.members = <<>> /\ d.schemas = <<>>
      /\ DOMAIN d.roles = {1} /\ Len(d.roles) = 1 /\ DOMAIN d.policies = {1}
      /\ Len(d.policies) = 1
      /\ d.roles[1].schema = "governance" /\ d.roles[1].who[1] = "MEMBERS"
      /\ d.policies[1].id = "governance"
      /\ d.policies[1].approve[1] = "MAJORITY" /\ d.policies[1].evaluate[1] = "MAJORITY"
      /\ d.policies[1].validate[1] = "MAJORITY"
  BY InitialFields
<1>2. DOMAIN d.members = {} /\ DOMAIN d.schemas = {}
  BY <1>1
<1> HIDE DEF d
<1>3. Field(d.policies, "id") = {"governance"} /\ Field(d.schemas, "id") = {}
  BY <1>1, <1>2 DEF Field
<1>4. CheckMembers(d) /\ CheckSchemas(d) /\ CheckPolicies(d)
  BY <1>1, <1>2, <1>3 DEF CheckMembers, CheckSchemas, CheckPolicies, Distinct
<1>5. CheckRoles(d)
  BY <1>1, <1>3 DEF CheckRoles
<1>6. IsList(d.members) /\ IsList(d.schemas) /\ IsList(d.roles) /\ IsList(d.policies)
  BY <1>1, <1>2 DEF IsList
<1>7. \A i \in DOMAIN d.policies, stage \in Stages : IsQuorum(d.policies[i][stage])
  BY <1>1 DEF Stages, IsQuorum
<1>8. WellFormed(d)
  BY <1>6, <1>7 DEF WellFormed, Fields
<1>9. QED
  BY <1>4, <1>5, <1>8 DEF CheckGovernanceState, d

(* A patched document is a document.                                       *)
LEMMA PatchedDocument ==
  ASSUME NEW d \in Documents, WellFormed(d), NEW p \in Patches
  PROVE  ApplyPatch(d, p) \in Documents /\ WellFormed(ApplyPatch(d, p))
<1> DEFINE e == ApplyPatch(d, p)
<1>1. e = [f \in Fields |-> IF f \in DOMAIN p THEN p[f] ELSE d[f]]
  BY DEF ApplyPatch, Documents
<1>2. \A f \in DOMAIN p : p[f] \in Values
  BY DEF Values
<1>3. e \in Documents
  BY <1>1, <1>2 DEF Documents
<1>4. \A f \in Fields : IsList(e[f])
  BY <1>1, PatchAssumption DEF WellFormed
<1>5. "policies" \in Fields
  BY DEF Fields
<1>6. e.policies = IF "policies" \in DOMAIN p THEN p.policies ELSE d.policies
  BY <1>1, <1>5
<1> HIDE DEF e
<1>7. \A i \in DOMAIN e.policies, stage \in Stages : IsQuorum(e.policies[i][stage])
  BY <1>6, PatchAssumption DEF WellFormed
<1>8. QED
  BY <1>3, <1>4, <1>7 DEF WellFormed, e

(* An event without effect leaves the document.                            *)
LEMMA EmptyPatch ==
  ASSUME NEW d \in Documents
  PROVE  ApplyPatch(d, NoPatch) = d
  BY DEF ApplyPatch, NoPatch, Documents

-----------------------------------------------------------------------------
(* The governance.                                                         *)

(* The history of a new governance.                                        *)
LEMMA GovInitInv == GovInit => GovInv
<1> SUFFICES ASSUME GovInit PROVE GovInv
  OBVIOUS
<1>1. /\ chain = <<>> /\ was = <<gov>> /\ gov.sn = 0 /\ gov.owner = Creator
      /\ gov.properties = InitialState
      /\ gov = [sn |-> 0, owner |-> Creator, properties |-> InitialState]
  BY DEF GovInit
<1>2. gov \in Governances
  BY <1>1, CreatorAssumption, InitialFields DEF Governances
<1>3. GovTypes
  BY <1>1, <1>2 DEF GovTypes
<1>4. \A v \in 0 .. gov.sn : v = 0
  BY <1>1
<1>5. was[1] = gov
  BY <1>1
<1>6. History
  BY <1>1, <1>4, <1>5, InitialDocument DEF History
<1>7. QED
  BY <1>3, <1>6 DEF GovInv

(* The event that is stored, and the versions there were.                  *)
LEMMA StoreKeeps ==
  ASSUME GovTypes, NEW e \in GovEvents, NEW o \in Nodes, NEW d \in Documents,
         Store(e, o, d)
  PROVE  /\ GovTypes' /\ gov'.sn = gov.sn + 1 /\ gov'.properties = d
         /\ was'[gov.sn + 2] = gov' /\ chain'[gov.sn + 1] = e
         /\ \A v \in 0 .. gov.sn : was'[v + 1] = was[v + 1]
         /\ \A i \in 1 .. gov.sn : chain'[i] = chain[i]
<1>1. gov.sn \in Nat /\ gov' = [sn |-> gov.sn + 1, owner |-> o, properties |-> d]
  BY DEF GovTypes, Governances, Store
<1>2. gov' \in Governances /\ gov'.sn = gov.sn + 1 /\ gov'.properties = d
  BY <1>1 DEF Governances
<1>3. PICK g \in Governances : g = gov'
  BY <1>2
<1>4. chain' = Append(chain, e) /\ was' = Append(was, g)
  BY <1>3 DEF Store
<1>5. /\ chain' \in Seq(GovEvents) /\ Len(chain') = gov.sn + 1
      /\ \A i \in 1 .. gov.sn : chain'[i] = chain[i]
      /\ chain'[gov.sn + 1] = e
  BY <1>4, AppendProperties DEF GovTypes
<1>6. /\ was' \in Seq(Governances) /\ Len(was') = gov.sn + 2
      /\ \A i \in 1 .. gov.sn + 1 : was'[i] = was[i]
      /\ was'[gov.sn + 2] = g
  <2>1. /\ was' \in Seq(Governances) /\ Len(was') = Len(was) + 1
        /\ \A i \in 1 .. Len(was) : was'[i] = was[i]
        /\ was'[Len(was) + 1] = g
    BY <1>4, AppendProperties DEF GovTypes
  <2>2. Len(was) + 1 = gov.sn + 2 /\ Len(was) = gov.sn + 1
    BY <1>1 DEF GovTypes
  <2>3. QED
    BY <2>1, <2>2
<1>7. \A v \in 0 .. gov.sn : was'[v + 1] = was[v + 1]
  BY <1>1, <1>6
<1>8. GovTypes'
  BY <1>1, <1>2, <1>5, <1>6 DEF GovTypes
<1>9. QED
  BY <1>2, <1>3, <1>5, <1>6, <1>7, <1>8

(* Storing the next event keeps the history.                               *)
LEMMA StoreStep ==
  ASSUME GovInv, NEW e \in GovEvents, NEW o \in Nodes, NEW d \in Documents,
         Store(e, o, d), WellFormed(d), CheckGovernanceState(d),
         e.approved => d = ApplyPatch(gov.properties, e.patch)
  PROVE  GovInv'
<1>1. /\ GovTypes' /\ gov'.sn = gov.sn + 1 /\ gov'.properties = d
      /\ was'[gov.sn + 2] = gov' /\ chain'[gov.sn + 1] = e
      /\ \A v \in 0 .. gov.sn : was'[v + 1] = was[v + 1]
      /\ \A i \in 1 .. gov.sn : chain'[i] = chain[i]
  BY StoreKeeps DEF GovInv
<1>2. gov.sn \in Nat
  BY DEF GovInv, GovTypes, Governances
<1>3. was'[gov'.sn + 1] = gov' /\ was'[1].properties = InitialState
  <2>1. gov'.sn + 1 = gov.sn + 2 /\ 0 \in 0 .. gov.sn /\ 0 + 1 = 1
    BY <1>1, <1>2
  <2>2. was'[1] = was[1]
    BY <1>1, <2>1
  <2>3. QED
    BY <1>1, <2>1, <2>2 DEF GovInv, History
<1>4. ASSUME NEW v \in 0 .. gov'.sn
      PROVE  WellFormed(was'[v + 1].properties) /\ CheckGovernanceState(was'[v + 1].properties)
  <2>1. CASE v = gov.sn + 1
    <3>1. was'[v + 1].properties = d
      BY <1>1, <1>2, <2>1
    <3>2. QED
      BY <3>1
  <2>2. CASE v \in 0 .. gov.sn
    <3>1. was'[v + 1] = was[v + 1]
      BY <1>1, <2>2
    <3>2. QED
      BY <2>2, <3>1 DEF GovInv, History
  <2>3. QED
    BY <1>1, <1>2, <1>4, <2>1, <2>2
<1>5. ASSUME NEW i \in 1 .. gov'.sn, chain'[i].approved
      PROVE  was'[i + 1].properties = ApplyPatch(was'[i].properties, chain'[i].patch)
  <2>1. CASE i = gov.sn + 1
    <3>1. i + 1 = gov.sn + 2 /\ i - 1 \in 0 .. gov.sn /\ (i - 1) + 1 = i
      BY <1>2, <2>1
    <3>2. was'[i + 1].properties = d /\ was'[i] = was[i] /\ chain'[i] = e
      BY <1>1, <2>1, <3>1
    <3>3. was[i] = gov
      BY <2>1 DEF GovInv, History
    <3>4. QED
      BY <1>5, <3>2, <3>3
  <2>2. CASE i \in 1 .. gov.sn
    <3>1. i \in 0 .. gov.sn /\ i - 1 \in 0 .. gov.sn /\ (i - 1) + 1 = i
      BY <1>2, <2>2
    <3>2. was'[i + 1] = was[i + 1] /\ was'[i] = was[i] /\ chain'[i] = chain[i]
      BY <1>1, <2>2, <3>1
    <3>3. QED
      BY <1>5, <2>2, <3>2 DEF GovInv, History
  <2>3. QED
    BY <1>1, <1>2, <1>5, <2>1, <2>2
<1>6. QED
  BY <1>1, <1>3, <1>4, <1>5 DEF GovInv, History

(* The event, owner and document that a step of the governance stores.     *)
LEMMA GovStores ==
  ASSUME GovInv, GovNext
  PROVE  \E e \in GovEvents, o \in Nodes, d \in Documents :
           /\ Store(e, o, d) /\ WellFormed(d) /\ CheckGovernanceState(d)
           /\ e.approved => d = ApplyPatch(gov.properties, e.patch)
<1> DEFINE none == [patch |-> NoPatch, approved |-> TRUE]
<1>1. /\ gov.properties \in Documents /\ gov.owner \in Nodes /\ gov.sn \in 0 .. gov.sn
  BY DEF GovInv, GovTypes, Governances
<1>2. WellFormed(gov.properties) /\ CheckGovernanceState(gov.properties)
  BY <1>1 DEF GovInv, History
<1>3. /\ none \in GovEvents /\ gov.properties = ApplyPatch(gov.properties, none.patch)
  BY <1>1, EmptyPatch DEF GovEvents
<1>4. CASE \E n \in Nodes : StoreTransfer(n)
  <2>1. PICK n \in Nodes : StoreTransfer(n)
    BY <1>4
  <2>2. Store(none, n, gov.properties)
    BY <2>1 DEF StoreTransfer
  <2>3. QED
    BY <1>1, <1>2, <1>3, <2>2
<1>5. CASE \E n \in Nodes, p \in Patches, approved \in BOOLEAN : StoreFact(n, p, approved)
  <2>1. PICK n \in Nodes, p \in Patches, approved \in BOOLEAN : StoreFact(n, p, approved)
    BY <1>5
  <2> DEFINE doc == ApplyPatch(gov.properties, p)
             ev == [patch |-> p, approved |-> approved]
             new == IF approved THEN doc ELSE gov.properties
  <2>2. doc \in Documents /\ WellFormed(doc)
    BY <1>1, <1>2, PatchedDocument
  <2>3. \/ Store(none, gov.owner, gov.properties)
        \/ CheckGovernanceState(doc) /\ Store(ev, gov.owner, new)
    BY <2>1 DEF StoreFact
  <2>4. ev \in GovEvents /\ ev.patch = p /\ ev.approved = approved
    BY DEF GovEvents
  <2>5. CASE Store(none, gov.owner, gov.properties)
    BY <1>1, <1>2, <1>3, <2>5
  <2>6. CASE CheckGovernanceState(doc) /\ Store(ev, gov.owner, new)
    <3>1. /\ new \in Documents /\ WellFormed(new) /\ CheckGovernanceState(new)
          /\ ev.approved => new = ApplyPatch(gov.properties, ev.patch)
      BY <1>1, <1>2, <2>2, <2>4, <2>6
    <3> HIDE DEF ev, new
    <3>2. QED
      BY <1>1, <2>4, <2>6, <3>1
  <2>7. QED
    BY <2>3, <2>5, <2>6
<1>6. QED
  BY <1>4, <1>5 DEF GovNext

(* Facts and transfers keep the history.                                   *)
LEMMA GovNextInv ==
  ASSUME GovInv, GovNext
  PROVE  GovInv'
  BY GovStores, StoreStep

(* Version v and all before it were approved.                              *)
Approved(v) == \A i \in 1 .. v : chain[i].approved

(* A later version changes none of the versions there are.                 *)
LEMMA VersionsStay ==
  ASSUME GovInv, GovNext \/ UNCHANGED govVars
  PROVE  /\ gov.sn \in Nat /\ gov'.sn \in Nat /\ gov.sn <= gov'.sn
         /\ \A v \in 0 .. gov.sn :
              was'[v + 1] = was[v + 1] /\ (Approved(v)' <=> Approved(v))
<1>1. gov.sn \in Nat
  BY DEF GovInv, GovTypes, Governances
<1>2. CASE GovNext
  <2>1. PICK e \in GovEvents, o \in Nodes, d \in Documents : Store(e, o, d)
    BY <1>2, GovStores
  <2>2. /\ gov'.sn = gov.sn + 1
        /\ \A v \in 0 .. gov.sn : was'[v + 1] = was[v + 1]
        /\ \A i \in 1 .. gov.sn : chain'[i] = chain[i]
    BY <2>1, StoreKeeps DEF GovInv
  <2>3. ASSUME NEW v \in 0 .. gov.sn PROVE Approved(v)' <=> Approved(v)
    <3>1. \A i \in 1 .. v : chain'[i] = chain[i]
      BY <1>1, <2>2
    <3>2. QED
      BY <3>1 DEF Approved
  <2>4. QED
    BY <1>1, <2>2, <2>3
<1>3. CASE UNCHANGED govVars
  BY <1>1, <1>3 DEF govVars, Approved
<1>4. QED
  BY <1>2, <1>3

(* The least of a set of numbers.                                          *)
LEMMA LeastNumber ==
  ASSUME NEW T \in SUBSET Nat, T # {}
  PROVE  \E x \in T : \A y \in T : x <= y
<1>1. IsWellFoundedOn(OpToRel(<, Nat), Nat)
  BY NatLessThanWellFounded
<1>2. PICK x \in T : \A y \in T : ~ (<<y, x>> \in OpToRel(<, Nat))
  BY <1>1, WFMin
<1>3. \A y \in T : ~ (y < x)
  BY <1>2 DEF OpToRel
<1>4. QED
  BY <1>3

(* The replay of approved events makes every version what it was: a least  *)
(* one that differs would follow one that does not.                        *)
LEMMA ReplayExact ==
  ASSUME GovInv, NEW v \in 0 .. gov.sn, Approved(v)
  PROVE  Replay(v) = was[v + 1].properties
<1> DEFINE g == [i \in 0 .. v |-> was[i + 1].properties]
           IsReplay(f) == f = [i \in 0 .. v |-> IF i = 0 THEN InitialState
                                 ELSE ApplyPatch(f[i - 1], chain[i].patch)]
           after == CHOOSE f : IsReplay(f)
           T == {i \in 0 .. v : after[i] # g[i]}
<1>1. gov.sn \in Nat /\ v \in Nat
  BY DEF GovInv, GovTypes, Governances
<1>2. ASSUME NEW i \in 0 .. v
      PROVE  g[i] = IF i = 0 THEN InitialState ELSE ApplyPatch(g[i - 1], chain[i].patch)
  <2>1. CASE i = 0
    BY <2>1 DEF GovInv, History
  <2>2. CASE i # 0
    <3>1. i \in 1 .. v /\ i \in 1 .. gov.sn /\ i - 1 \in 0 .. v /\ (i - 1) + 1 = i
      BY <1>1, <2>2
    <3>2. chain[i].approved
      BY <3>1 DEF Approved
    <3>3. was[i + 1].properties = ApplyPatch(was[i].properties, chain[i].patch)
      BY <3>1, <3>2 DEF GovInv, History
    <3>4. g[i - 1] = was[i].properties
      BY <3>1
    <3>5. QED
      BY <2>2, <3>3, <3>4
  <2>3. QED
    BY <2>1, <2>2
<1>3. IsReplay(g)
  BY <1>2
<1>4. IsReplay(after)
  BY <1>3
<1>5. \A i \in 0 .. v :
        after[i] = IF i = 0 THEN InitialState ELSE ApplyPatch(after[i - 1], chain[i].patch)
  <2> HIDE DEF after
  <2>1. QED
    BY <1>4
<1> HIDE DEF g, after
<1>6. T = {}
  <2> SUFFICES ASSUME T # {} PROVE FALSE
    OBVIOUS
  <2>1. T \in SUBSET Nat
    BY <1>1
  <2>2. PICK x \in T : \A y \in T : x <= y
    <3> HIDE DEF T
    <3>1. QED
      BY <2>1, LeastNumber
  <2>3. x \in 0 .. v /\ after[x] # g[x]
    BY <2>2
  <2>4. x # 0
    BY <1>2, <1>5, <2>3
  <2>5. x - 1 \in 0 .. v /\ ~ (x <= x - 1)
    BY <1>1, <2>3, <2>4
  <2>6. x - 1 \notin T
    <3> HIDE DEF T
    <3>1. QED
      BY <2>2, <2>5
  <2>7. after[x - 1] = g[x - 1]
    BY <2>5, <2>6
  <2>8. QED
    BY <1>2, <1>5, <2>3, <2>4, <2>7
<1>7. v \in 0 .. v /\ v \notin T
  BY <1>1, <1>6
<1>8. after[v] = g[v]
  BY <1>7
<1>9. QED
  BY <1>7, <1>8 DEF Replay, g, after

(* What governance_event_sourcing says of a version.                       *)
LEMMA SourcedVersion ==
  ASSUME GovInv, NEW v \in 0 .. gov.sn, Approved(v)
  PROVE  GovernanceEventSourcing(v).properties = was[v + 1].properties
<1>1. CASE v = gov.sn
  BY <1>1 DEF GovInv, History, GovernanceEventSourcing
<1>2. CASE v # gov.sn
  BY <1>2, ReplayExact DEF GovernanceEventSourcing
<1>3. QED
  BY <1>1, <1>2

(* A replay gives the versions of the history.                             *)
LEMMA FinalVersions == GovInv => VersionsAreFinalUnlessRejected
<1> DEFINE then(v) == was[v + 1]
           signers(s, stage, v) == GetSigners(s, <<>>, stage, v)
           Same(s, stage, v) ==
             \/ signers(s, stage, v) = SignersOf(then(v), s, <<>>, stage)
             \/ /\ v < gov.sn /\ then(v).owner # Creator
                /\ GetSignersAux(then(v).properties, s, <<>>, stage) = {}
                /\ signers(s, stage, v) = {Creator}
<1>1. ASSUME GovInv, NEW v \in 0 .. gov.sn, \A i \in 1 .. v : chain[i].approved
      PROVE  GovernanceEventSourcing(v).properties = then(v).properties
  BY <1>1, SourcedVersion DEF Approved
<1>2. ASSUME GovInv, NEW v \in 0 .. gov.sn, \A i \in 1 .. v : chain[i].approved,
             NEW s \in Schemas(v), NEW stage \in Stages
      PROVE  Same(s, stage, v)
  <2> DEFINE g == GovernanceEventSourcing(v)
             named == GetSignersAux(then(v).properties, s, <<>>, stage)
  <2>1. g.properties = then(v).properties
    BY <1>1, <1>2
  <2>2. signers(s, stage, v) = SignersOf(g, s, <<>>, stage)
    BY DEF GetSigners, Stages
  <2>3. signers(s, stage, v) = IF named = {} THEN {g.owner} ELSE named
    BY <2>1, <2>2 DEF SignersOf
  <2>4. SignersOf(then(v), s, <<>>, stage) =
          IF named = {} THEN {then(v).owner} ELSE named
    BY DEF SignersOf
  <2>5. CASE v = gov.sn
    <3>1. g.owner = then(v).owner
      BY <1>2, <2>5 DEF GovInv, History, GovernanceEventSourcing
    <3>2. QED
      BY <2>3, <2>4, <3>1
  <2>6. CASE v # gov.sn
    <3>1. g.owner = Creator
      BY <2>6 DEF GovernanceEventSourcing
    <3>2. v < gov.sn
      BY <1>2, <2>6 DEF GovInv, GovTypes, Governances
    <3> HIDE DEF named, g
    <3>3. CASE named = {}
      <4>1. signers(s, stage, v) = {Creator}
        BY <2>3, <3>1, <3>3
      <4>2. SignersOf(then(v), s, <<>>, stage) = {then(v).owner}
        BY <2>4, <3>3
      <4>3. QED
        BY <3>2, <3>3, <4>1, <4>2 DEF named
    <3>4. CASE named # {}
      BY <2>3, <2>4, <3>4
    <3>5. QED
      BY <3>3, <3>4
  <2>7. QED
    BY <2>5, <2>6
<1>3. QED
  BY <1>1, <1>2 DEF VersionsAreFinalUnlessRejected

-----------------------------------------------------------------------------
(* Signers and quorums of the last version.                                *)

(* A list has finitely many values of a field.                             *)
LEMMA FieldFinite ==
  ASSUME NEW s, IsList(s), NEW f
  PROVE  IsFiniteSet(Field(s, f))
<1> DEFINE h == [i \in 1 .. Len(s) |-> s[i][f]]
<1>1. Len(s) \in Nat /\ DOMAIN s = 1 .. Len(s)
  BY DEF IsList
<1>2. IsFiniteSet(1 .. Len(s))
  BY <1>1, FS_Interval
<1>3. h \in Surjection(1 .. Len(s), Field(s, f))
  BY <1>1 DEF Surjection, Field
<1> HIDE DEF h
<1>4. QED
  BY <1>2, <1>3, FS_Surjection

(* In a document that passed the contract every name of a role is one of a *)
(* member, so that the signers are members.                                *)
LEMMA SignersAreMembers ==
  ASSUME NEW doc, CheckGovernanceState(doc), NEW schema, NEW namespace, NEW stage
  PROVE  GetSignersAux(doc, schema, namespace, stage) \subseteq Field(doc.members, "id")
<1> DEFINE ms     == Matching(doc, schema, namespace, stage)
           ids    == Field(doc.members, "id")
           names  == Field(doc.members, "name")
           who(i) == doc.roles[i].who
           ends   == {i \in ms : who(i) \in Everybody}
           read   == {i \in ms : \A j \in ends : i < j}
           Ids(i) == IF who(i)[1] = "ID" THEN {who(i)[2]} \cap ids
                     ELSE IF who(i)[1] = "NAME" THEN {MemberNamed(doc, who(i)[2])}
                     ELSE {}
<1>1. ms \subseteq DOMAIN doc.roles
  BY DEF Matching
<1>2. \A i \in DOMAIN doc.roles : who(i)[1] = "NAME" => who(i)[2] \in names
  BY DEF CheckGovernanceState, CheckRoles
<1>3. \A i \in read : who(i)[1] = "NAME" => who(i)[2] \in names
  BY <1>1, <1>2
<1>4. \A n \in names : MemberNamed(doc, n) \in ids
  BY DEF MemberNamed, Field
<1>5. \A i \in read : Ids(i) \subseteq ids
  BY <1>3, <1>4
<1>6. GetSignersAux(doc, schema, namespace, stage) =
        IF \E i \in read : who(i)[1] = "NAME" /\ who(i)[2] \notin names
        THEN {"invalid name"}
        ELSE IF ends # {} THEN ids ELSE UNION {Ids(i) : i \in read}
  BY DEF GetSignersAux
<1>7. GetSignersAux(doc, schema, namespace, stage) \in {ids, UNION {Ids(i) : i \in read}}
  <2> HIDE DEF read, ends, ids, names, Ids, who
  <2>1. QED
    BY <1>3, <1>6
<1>8. UNION {Ids(i) : i \in read} \subseteq ids
  <2> HIDE DEF read, ids, Ids
  <2>1. QED
    BY <1>5
<1>9. QED
  BY <1>7, <1>8

(* The signers of a schema and a stage of the last version.                *)
LEMMA LastSigners ==
  ASSUME GovInv, NEW schema, NEW stage \in Stages
  PROVE  LET signers == GetSigners(schema, <<>>, stage, gov.sn)
         IN  /\ signers # {} /\ IsFiniteSet(signers)
             /\ Cardinality(signers) \in Nat /\ Cardinality(signers) >= 1
             /\ \/ signers \subseteq Field(gov.properties.members, "id")
                \/ signers = {gov.owner}
<1> DEFINE doc == gov.properties
           s == GetSignersAux(doc, schema, <<>>, stage)
           signers == GetSigners(schema, <<>>, stage, gov.sn)
<1>1. stage # "witness"
  BY DEF Stages
<1>2. signers = IF s = {} THEN {gov.owner} ELSE s
  BY <1>1 DEF GetSigners, SignersOf, GovernanceEventSourcing
<1>3. gov.sn \in 0 .. gov.sn /\ was[gov.sn + 1].properties = doc
  BY DEF GovInv, GovTypes, Governances, History
<1>4. WellFormed(doc) /\ CheckGovernanceState(doc)
  BY <1>3 DEF GovInv, History
<1>5. IsFiniteSet(Field(doc.members, "id"))
  BY <1>4, FieldFinite DEF WellFormed, Fields
<1>6. s \subseteq Field(doc.members, "id")
  BY <1>4, SignersAreMembers
<1> HIDE DEF s, signers
<1>7. IsFiniteSet(s)
  BY <1>5, <1>6, FS_Subset
<1>8. IsFiniteSet(signers) /\ signers # {}
  BY <1>2, <1>7, FS_Singleton
<1>9. Cardinality(signers) \in Nat /\ Cardinality(signers) >= 1
  BY <1>8, FS_CardinalityType, FS_EmptySet
<1>10. QED
  BY <1>2, <1>6, <1>8, <1>9 DEF signers

(* A product grows with its factors.                                       *)
LEMMA ProductMonotonic ==
  ASSUME NEW a \in Nat, NEW b \in Nat, a <= b, NEW n \in Nat
  PROVE  n * a <= n * b
<1> DEFINE T == {k \in Nat : ~ (k * a <= k * b)}
<1>1. T = {}
  <2> SUFFICES ASSUME T # {} PROVE FALSE
    OBVIOUS
  <2>1. T \in SUBSET Nat
    OBVIOUS
  <2>2. PICK x \in T : \A y \in T : x <= y
    <3> HIDE DEF T
    <3>1. QED
      BY <2>1, LeastNumber
  <2>3. x \in Nat /\ ~ (x * a <= x * b)
    BY <2>2
  <2>4. x # 0
    BY <2>3
  <2>5. x - 1 \in Nat /\ ~ (x <= x - 1)
    BY <2>3, <2>4
  <2>6. x - 1 \notin T
    <3> HIDE DEF T
    <3>1. QED
      BY <2>2, <2>5
  <2>7. (x - 1) * a <= (x - 1) * b
    BY <2>5, <2>6
  <2>8. x * a = (x - 1) * a + a /\ x * b = (x - 1) * b + b
    BY <2>3
  <2>9. (x - 1) * a \in Int /\ (x - 1) * b \in Int
    BY <2>5
  <2>10. QED
    BY <2>3, <2>7, <2>8, <2>9
<1>2. QED
  BY <1>1

(* A share of at most the whole is at most the whole, also rounded up.     *)
LEMMA ShareOfWhole ==
  ASSUME NEW n \in Nat, NEW a \in Nat, NEW b \in Nat \ {0}, a <= b
  PROVE  CeilOfShare(n, a, b) <= n
<1> DEFINE x == n * a + b - 1
           q == x \div b
<1>1. n * a <= n * b /\ n * a \in Nat /\ n * b \in Nat
  BY ProductMonotonic
<1>2. x \in Nat /\ x < n * b + b
  BY <1>1
<1>3. (n + 1) * b = n * b + b
  OBVIOUS
<1> HIDE DEF x
<1>4. q \in Nat /\ q * b <= x
  BY <1>2
<1> HIDE DEF q
<1>5. ASSUME n + 1 <= q PROVE FALSE
  <2>1. b * (n + 1) <= b * q
    BY <1>4, <1>5, ProductMonotonic
  <2>2. b * (n + 1) = (n + 1) * b /\ b * q = q * b
    BY <1>4
  <2>3. QED
    BY <1>1, <1>2, <1>3, <1>4, <2>1, <2>2
<1>6. q <= n
  BY <1>4, <1>5
<1>7. QED
  BY <1>6 DEF CeilOfShare, q, x

(* The quorum of a schema and a stage of the last version.                 *)
LEMMA LastQuorum ==
  ASSUME GovInv, NEW s \in Schemas(gov.sn), NEW stage \in Stages
  PROVE  LET n == Cardinality(GetSigners(s, <<>>, stage, gov.sn))
             q == PolicyQuorum(gov.properties, s, stage)
         IN  /\ q[1] = "MAJORITY" => GetQuorum(s, <<>>, stage, gov.sn) = n \div 2 + 1
             /\ q[1] # "FIXED" => GetQuorum(s, <<>>, stage, gov.sn) <= n
<1> DEFINE n == Cardinality(GetSigners(s, <<>>, stage, gov.sn))
           q == PolicyQuorum(gov.properties, s, stage)
<1>1. n \in Nat /\ n >= 1
  BY LastSigners
<1>2. gov.sn \in 0 .. gov.sn /\ was[gov.sn + 1] = gov
  BY DEF GovInv, GovTypes, Governances, History
<1>3. WellFormed(gov.properties)
  BY <1>2 DEF GovInv, History
<1>4. s \in Field(gov.properties.policies, "id")
  BY <1>2 DEF Schemas
<1>5. IsQuorum(q)
  <2>1. PICK i \in DOMAIN gov.properties.policies : gov.properties.policies[i].id = s
    BY <1>4 DEF Field
  <2> DEFINE j == CHOOSE k \in DOMAIN gov.properties.policies :
                    gov.properties.policies[k].id = s
  <2>2. j \in DOMAIN gov.properties.policies
    BY <2>1
  <2> HIDE DEF j
  <2>3. IsQuorum(gov.properties.policies[j][stage])
    BY <1>3, <2>2 DEF WellFormed
  <2>4. QED
    BY <2>3 DEF PolicyQuorum, j
<1>6. GetQuorum(s, <<>>, stage, gov.sn) =
        CASE q[1] = "MAJORITY"   -> n \div 2 + 1
          [] q[1] = "FIXED"      -> q[2]
          [] q[1] = "PERCENTAGE" -> CeilOfShare(n, q[2], q[3])
  BY DEF GetQuorum, GovernanceEventSourcing
<1> HIDE DEF n, q
<1>7. CASE q[1] = "MAJORITY"
  <2>1. GetQuorum(s, <<>>, stage, gov.sn) = n \div 2 + 1
    BY <1>6, <1>7
  <2>2. n \div 2 + 1 <= n
    BY <1>1
  <2>3. QED
    BY <2>1, <2>2 DEF n, q
<1>8. CASE q[1] = "PERCENTAGE"
  <2>1. /\ GetQuorum(s, <<>>, stage, gov.sn) = CeilOfShare(n, q[2], q[3])
        /\ q[2] \in Nat /\ q[3] \in Nat \ {0} /\ q[2] <= q[3]
    BY <1>5, <1>6, <1>8 DEF IsQuorum
  <2>2. CeilOfShare(n, q[2], q[3]) <= n
    BY <1>1, <2>1, ShareOfWhole
  <2>3. QED
    BY <1>8, <2>1, <2>2 DEF n, q
<1>9. QED
  BY <1>5, <1>7, <1>8 DEF IsQuorum, n, q

(* Quorums can be met in the last version.                                 *)
LEMMA QuorumsFit == GovInv => QuorumCanBeMet
<1> SUFFICES ASSUME GovInv, NEW s \in Schemas(gov.sn), NEW stage \in Stages
             PROVE  LET signers == GetSigners(s, <<>>, stage, gov.sn)
                    IN  /\ signers # {}
                        /\ \/ signers \subseteq Field(gov.properties.members, "id")
                           \/ signers = {gov.owner}
                        /\ PolicyQuorum(gov.properties, s, stage)[1] # "FIXED"
                             => GetQuorum(s, <<>>, stage, gov.sn) <= Cardinality(signers)
  BY DEF QuorumCanBeMet
<1>1. QED
  BY LastSigners, LastQuorum

(* A majority is more than half.                                           *)
LEMMA MajoritiesIntersect == GovInv => MajorityIntersects
<1> SUFFICES ASSUME GovInv, NEW s \in Schemas(gov.sn),
                    PolicyQuorum(gov.properties, s, "validate") = <<"MAJORITY">>
             PROVE  2 * GetQuorum(s, <<>>, "validate", gov.sn)
                      > Cardinality(GetSigners(s, <<>>, "validate", gov.sn))
  BY DEF MajorityIntersects
<1> DEFINE n == Cardinality(GetSigners(s, <<>>, "validate", gov.sn))
<1>1. "validate" \in Stages /\ PolicyQuorum(gov.properties, s, "validate")[1] = "MAJORITY"
  BY DEF Stages
<1>2. GetQuorum(s, <<>>, "validate", gov.sn) = n \div 2 + 1 /\ n \in Nat
  BY <1>1, LastQuorum, LastSigners
<1> HIDE DEF n
<1>3. 2 * (n \div 2 + 1) > n
  BY <1>2
<1>4. QED
  BY <1>2, <1>3 DEF n

-----------------------------------------------------------------------------
(* The compiler and the runner.                                            *)

(* Version v has a contract for the schema, with this source.              *)
HasContract(v, schema, raw) ==
  LET ss == was[v + 1].properties.schemas
  IN  \E i \in DOMAIN ss : ss[i].id = schema /\ ss[i].contract = raw

(* ... as far as it can be known when events were rejected.                *)
FromVersion(v, schema, raw) == Approved(v) => HasContract(v, schema, raw)

(* A list of contracts that version v has.                                 *)
ContractsOf(v, todo) ==
  LET items == {todo[i] : i \in DOMAIN todo}
  IN  todo \in Seq(items) /\ \A c \in items : HasContract(v, c.schema, c.raw)

NoticesInv ==
  /\ notices \in Seq(Nat) /\ Len(notices) <= BufferSize
  /\ \A i \in 1 .. Len(notices) : notices[i] <= gov.sn

CompilingInv ==
  compiling # None =>
    /\ compiling = [version |-> compiling.version, todo |-> compiling.todo]
    /\ compiling.version \in 0 .. gov.sn
    /\ Approved(compiling.version) => ContractsOf(compiling.version, compiling.todo)

ContractsInv ==
  \A s \in DOMAIN contracts :
    /\ contracts[s].version \in 0 .. gov.sn /\ contracts[s].raw \notin BadSources
    /\ FromVersion(contracts[s].version, s, contracts[s].raw)

EvaluatingInv ==
  evaluating # None =>
    /\ evaluating = [schema |-> evaluating.schema, version |-> evaluating.version,
                     source |-> evaluating.source]
    /\ evaluating.schema \in SchemaIds /\ evaluating.version \in 0 .. gov.sn
    /\ evaluating.source # None /\ evaluating.schema # "governance" =>
         FromVersion(evaluating.version, evaluating.schema, evaluating.source)

AnswerInv ==
  /\ answer # None => answer.schema \in SchemaIds /\ answer.version \in 0 .. gov.sn
  /\ EvaluatedByItsVersion

EvalInv ==
  NoticesInv /\ CompilingInv /\ ContractsInv /\ EvaluatingInv /\ AnswerInv

(* TypeOK is part of the two invariants.                                   *)
LEMMA TypesFollow == GovInv /\ EvalInv => TypeOK
  BY DEF GovInv, GovTypes, EvalInv, NoticesInv, ContractsInv, AnswerInv, TypeOK

(* Nothing is announced, compiled or answered initially.                   *)
LEMMA InitEvalInv == Init => EvalInv
<1> SUFFICES ASSUME Init PROVE EvalInv
  OBVIOUS
<1>1. NoticesInv
  BY BufferAssumption DEF Init, NoticesInv
<1>2. CompilingInv /\ EvaluatingInv /\ AnswerInv
  BY DEF Init, CompilingInv, EvaluatingInv, AnswerInv, EvaluatedByItsVersion
<1>3. DOMAIN contracts = {}
  BY DEF Init
<1>4. QED
  BY <1>1, <1>2, <1>3 DEF EvalInv, ContractsInv

(* What a version has it keeps.                                            *)
LEMMA ContractsStay ==
  ASSUME GovInv, GovNext \/ UNCHANGED govVars
  PROVE  \A v \in 0 .. gov.sn : \A schema, raw :
           /\ v \in 0 .. gov'.sn
           /\ HasContract(v, schema, raw)' <=> HasContract(v, schema, raw)
           /\ FromVersion(v, schema, raw)' <=> FromVersion(v, schema, raw)
<1>1. /\ gov.sn \in Nat /\ gov'.sn \in Nat /\ gov.sn <= gov'.sn
      /\ \A v \in 0 .. gov.sn :
           was'[v + 1] = was[v + 1] /\ (Approved(v)' <=> Approved(v))
  BY VersionsStay
<1> SUFFICES ASSUME NEW v \in 0 .. gov.sn, NEW schema, NEW raw
             PROVE  /\ v \in 0 .. gov'.sn
                    /\ HasContract(v, schema, raw)' <=> HasContract(v, schema, raw)
                    /\ FromVersion(v, schema, raw)' <=> FromVersion(v, schema, raw)
  OBVIOUS
<1>2. v \in 0 .. gov'.sn /\ was'[v + 1] = was[v + 1] /\ (Approved(v)' <=> Approved(v))
  BY <1>1
<1>3. HasContract(v, schema, raw)' <=> HasContract(v, schema, raw)
  BY <1>2 DEF HasContract
<1>4. QED
  BY <1>2, <1>3 DEF FromVersion

(* A later version leaves what is in progress alone.                       *)
LEMMA CompilingStays ==
  ASSUME GovInv, CompilingInv, GovNext \/ UNCHANGED govVars, UNCHANGED compiling
  PROVE  CompilingInv'
<1> SUFFICES ASSUME compiling # None PROVE CompilingInv'
  BY DEF CompilingInv
<1>1. PICK v \in 0 .. gov.sn : v = compiling.version
  BY DEF CompilingInv
<1>2. PICK todo : todo = compiling.todo
  OBVIOUS
<1>3. /\ v \in 0 .. gov'.sn
      /\ Approved(v)' <=> Approved(v)
  BY ContractsStay, VersionsStay
<1>4. \A schema, raw : HasContract(v, schema, raw)' <=> HasContract(v, schema, raw)
  BY ContractsStay
<1>5. Approved(v) => ContractsOf(v, todo)
  BY <1>1, <1>2 DEF CompilingInv
<1>6. ContractsOf(v, todo)' <=> ContractsOf(v, todo)
  BY <1>4 DEF ContractsOf
<1>7. compiling' = [version |-> compiling'.version, todo |-> compiling'.todo]
  BY DEF CompilingInv
<1>8. v = compiling'.version /\ todo = compiling'.todo
  BY <1>1, <1>2
<1>9. QED
  BY <1>3, <1>5, <1>6, <1>7, <1>8 DEF CompilingInv, ContractsOf, HasContract, Approved

(* A later version leaves the stored contracts alone.                      *)
LEMMA ContractsInvStays ==
  ASSUME GovInv, ContractsInv, GovNext \/ UNCHANGED govVars, UNCHANGED contracts
  PROVE  ContractsInv'
<1> SUFFICES ASSUME NEW s \in DOMAIN contracts
             PROVE  /\ contracts'[s].version \in 0 .. gov'.sn
                    /\ contracts'[s].raw \notin BadSources
                    /\ FromVersion(contracts[s].version, s, contracts[s].raw)'
  BY DEF ContractsInv
<1>1. PICK v \in 0 .. gov.sn : v = contracts[s].version
  BY DEF ContractsInv
<1>2. PICK raw : raw = contracts[s].raw
  OBVIOUS
<1>3. raw \notin BadSources /\ FromVersion(v, s, raw)
  BY <1>1, <1>2 DEF ContractsInv
<1>4. v \in 0 .. gov'.sn /\ FromVersion(v, s, raw)'
  BY <1>3, ContractsStay
<1>5. v = contracts'[s].version /\ raw = contracts'[s].raw
  BY <1>1, <1>2
<1>6. QED
  BY <1>3, <1>4, <1>5 DEF FromVersion, HasContract, Approved

(* A later version leaves the request in progress alone.                   *)
LEMMA EvaluatingStays ==
  ASSUME GovInv, EvaluatingInv, GovNext \/ UNCHANGED govVars, UNCHANGED evaluating
  PROVE  EvaluatingInv'
<1> SUFFICES ASSUME evaluating # None PROVE EvaluatingInv'
  BY DEF EvaluatingInv
<1>1. PICK v \in 0 .. gov.sn : v = evaluating.version
  BY DEF EvaluatingInv
<1>2. PICK schema : schema = evaluating.schema
  OBVIOUS
<1>3. PICK source : source = evaluating.source
  OBVIOUS
<1>4. /\ evaluating' = [schema |-> evaluating'.schema, version |-> evaluating'.version,
                        source |-> evaluating'.source]
      /\ schema \in SchemaIds
      /\ source # None /\ schema # "governance" => FromVersion(v, schema, source)
  BY <1>1, <1>2, <1>3 DEF EvaluatingInv
<1>5. /\ v \in 0 .. gov'.sn
      /\ source # None /\ schema # "governance" => FromVersion(v, schema, source)'
  BY <1>4, ContractsStay
<1>6. v = evaluating'.version /\ schema = evaluating'.schema /\ source = evaluating'.source
  BY <1>1, <1>2, <1>3
<1>7. QED
  BY <1>4, <1>5, <1>6 DEF EvaluatingInv, FromVersion, HasContract, Approved

(* What EvaluatedByItsVersion says of an answer.                           *)
AnswerFits(v, schema, source, against) ==
  schema # "governance" /\ Approved(v) =>
    /\ schema \in Field(was[v + 1].properties.schemas, "id")
    /\ source = SchemaAt(v, schema).contract
    /\ against \in {"none", SchemaAt(v, schema).schema}

(* A later version leaves the last answer right.                           *)
LEMMA AnswerStays ==
  ASSUME GovInv, AnswerInv, GovNext \/ UNCHANGED govVars, UNCHANGED answer
  PROVE  AnswerInv'
<1> SUFFICES ASSUME answer # None PROVE AnswerInv'
  BY DEF AnswerInv, EvaluatedByItsVersion
<1>1. PICK v \in 0 .. gov.sn : v = answer.version
  BY DEF AnswerInv
<1>2. /\ v \in 0 .. gov'.sn /\ was'[v + 1] = was[v + 1]
      /\ Approved(v)' <=> Approved(v)
  BY ContractsStay, VersionsStay
<1>3. PICK schema : schema = answer.schema
  OBVIOUS
<1>4. PICK source : source = answer.source
  OBVIOUS
<1>5. PICK against : against = answer.against
  OBVIOUS
<1>6. AnswerFits(v, schema, source, against) /\ schema \in SchemaIds
  BY <1>1, <1>3, <1>4, <1>5 DEF AnswerInv, EvaluatedByItsVersion, AnswerFits, Approved
<1>7. SchemaAt(v, schema)' = SchemaAt(v, schema)
  BY <1>2 DEF SchemaAt
<1>8. AnswerFits(v, schema, source, against)'
  BY <1>2, <1>6, <1>7 DEF AnswerFits
<1>9. /\ v = answer'.version /\ schema = answer'.schema /\ source = answer'.source
      /\ against = answer'.against
  BY <1>1, <1>3, <1>4, <1>5
<1>10. EvaluatedByItsVersion'
  BY <1>8, <1>9 DEF EvaluatedByItsVersion, AnswerFits, Approved, SchemaAt
<1>11. QED
  BY <1>2, <1>6, <1>9, <1>10 DEF AnswerInv

-----------------------------------------------------------------------------
(* The steps.                                                              *)

(* An announcement is of a version the governance has.                     *)
LEMMA NoticesStep ==
  ASSUME GovInv, NoticesInv, StoreEvent
  PROVE  NoticesInv'
<1>1. /\ gov.sn \in Nat /\ gov'.sn \in Nat /\ gov.sn <= gov'.sn
  BY VersionsStay DEF StoreEvent
<1>2. /\ notices \in Seq(Nat) /\ Len(notices) <= BufferSize /\ BufferSize \in Nat \ {0}
      /\ \A i \in 1 .. Len(notices) : notices[i] <= gov.sn
  BY BufferAssumption DEF NoticesInv
<1>3. \/ notices' = <<>>
      \/ Len(notices) < BufferSize /\ notices' = Append(notices, gov'.sn)
      \/ Len(notices) >= BufferSize /\ notices' = Append(Tail(notices), gov'.sn)
  BY <1>2 DEF StoreEvent, GovernanceUpdated
<1>4. CASE notices' = <<>>
  BY <1>2, <1>4 DEF NoticesInv
<1>5. CASE Len(notices) < BufferSize /\ notices' = Append(notices, gov'.sn)
  BY <1>1, <1>2, <1>5 DEF NoticesInv
<1>6. CASE Len(notices) >= BufferSize /\ notices' = Append(Tail(notices), gov'.sn)
  <2>1. notices # <<>>
    BY <1>2, <1>6
  <2>2. /\ Tail(notices) \in Seq(Nat) /\ Len(Tail(notices)) = Len(notices) - 1
        /\ \A i \in 1 .. Len(Tail(notices)) : Tail(notices)[i] <= gov.sn
    BY <1>2, <2>1
  <2>3. PICK rest \in Seq(Nat) : rest = Tail(notices)
    BY <2>2
  <2>4. /\ notices' \in Seq(Nat) /\ Len(notices') = Len(rest) + 1
        /\ \A i \in 1 .. Len(rest) : notices'[i] = rest[i]
        /\ notices'[Len(rest) + 1] = gov'.sn
    BY <1>1, <1>6, <2>3
  <2>5. Len(notices') <= BufferSize
    BY <1>2, <2>2, <2>3, <2>4
  <2>6. \A i \in 1 .. Len(notices') : notices'[i] <= gov'.sn
    <3>1. \A i \in 1 .. Len(rest) : rest[i] \in Nat /\ rest[i] <= gov.sn
      BY <2>2, <2>3
    <3>2. \A i \in 1 .. Len(rest) : notices'[i] <= gov'.sn
      <4>1. SUFFICES ASSUME NEW i \in 1 .. Len(rest) PROVE notices'[i] <= gov'.sn
        OBVIOUS
      <4>2. notices'[i] = rest[i] /\ rest[i] \in Nat /\ rest[i] <= gov.sn
        BY <2>4, <3>1
      <4>3. QED
        BY <1>1, <4>2
    <3>3. \A i \in 1 .. Len(rest) + 1 : i \in 1 .. Len(rest) \/ i = Len(rest) + 1
      OBVIOUS
    <3>4. QED
      BY <1>1, <2>4, <3>2, <3>3
  <2>7. QED
    BY <2>4, <2>5, <2>6 DEF NoticesInv
<1>7. QED
  BY <1>3, <1>4, <1>5, <1>6

(* The ledger stores an event and announces the version.                   *)
LEMMA StoreEventStep ==
  ASSUME GovInv, EvalInv, StoreEvent
  PROVE  EvalInv'
<1>1. GovNext /\ UNCHANGED <<compiling, contracts, evaluating, answer>>
  BY DEF StoreEvent
<1>2. QED
  BY <1>1, NoticesStep, CompilingStays, ContractsInvStays, EvaluatingStays, AnswerStays
     DEF EvalInv

(* The contracts that get_contracts returns for an approved version.       *)
LEMMA ContractsFound ==
  ASSUME GovInv, NEW v \in 0 .. gov.sn, Approved(v)
  PROVE  ContractsOf(v, GetContracts(v))
<1> DEFINE ss   == was[v + 1].properties.schemas
           todo == GetContracts(v)
           items == {todo[i] : i \in DOMAIN todo}
<1>1. GovernanceEventSourcing(v).properties.schemas = ss
  BY SourcedVersion
<1>2. todo = [i \in DOMAIN ss |-> [schema |-> ss[i].id, raw |-> ss[i].contract]]
  BY <1>1 DEF GetContracts
<1>3. IsList(ss)
  BY DEF GovInv, History, WellFormed, Fields
<1>4. todo \in Seq(items)
  <2>1. Len(ss) \in Nat /\ DOMAIN todo = 1 .. Len(ss)
    BY <1>2, <1>3 DEF IsList
  <2>2. todo \in [1 .. Len(ss) -> items]
    BY <1>2, <2>1
  <2>3. QED
    BY <2>1, <2>2
<1>5. ASSUME NEW c \in items PROVE HasContract(v, c.schema, c.raw)
  BY <1>2 DEF HasContract
<1>6. QED
  BY <1>4, <1>5 DEF ContractsOf

(* The compiler takes up the oldest announcement.                          *)
LEMMA StartUpdateStep ==
  ASSUME GovInv, EvalInv, StartUpdate, UNCHANGED <<govVars, evaluating, answer>>
  PROVE  EvalInv'
<1>1. /\ notices \in Seq(Nat) /\ notices # <<>> /\ Len(notices) <= BufferSize
      /\ \A i \in 1 .. Len(notices) : notices[i] <= gov.sn
      /\ BufferSize \in Nat
  BY BufferAssumption DEF EvalInv, NoticesInv, StartUpdate
<1>2. gov.sn \in Nat
  BY DEF GovInv, GovTypes, Governances
<1>3. PICK v \in 0 .. gov.sn : v = Head(notices)
  BY <1>1, <1>2
<1>4. PICK todo : todo = GetContracts(v)
  OBVIOUS
<1>5. compiling' = [version |-> v, todo |-> todo]
  BY <1>3, <1>4 DEF StartUpdate
<1>6. NoticesInv'
  <2>1. /\ Tail(notices) \in Seq(Nat) /\ Len(Tail(notices)) = Len(notices) - 1
        /\ \A i \in 1 .. Len(Tail(notices)) : Tail(notices)[i] <= gov.sn
    BY <1>1
  <2>2. notices' = Tail(notices) /\ gov' = gov
    BY DEF StartUpdate, govVars
  <2>3. QED
    BY <1>1, <2>1, <2>2 DEF NoticesInv
<1>7. CompilingInv'
  <2>1. Approved(v) => ContractsOf(v, todo)
    BY <1>4, ContractsFound
  <2>2. (Approved(v) => ContractsOf(v, todo))'
    BY <2>1 DEF Approved, ContractsOf, HasContract, govVars
  <2>3. compiling'.version = v /\ compiling'.todo = todo
    BY <1>5
  <2>4. QED
    BY <1>5, <2>2, <2>3 DEF CompilingInv, govVars, Approved, ContractsOf, HasContract
<1>8. UNCHANGED <<contracts, evaluating, answer>>
  BY DEF StartUpdate
<1>9. QED
  BY <1>6, <1>7, <1>8, ContractsInvStays, EvaluatingStays, AnswerStays DEF EvalInv

(* A sequence is one of its own items.                                     *)
LEMMA SequenceOfItems ==
  ASSUME NEW S, NEW t \in Seq(S)
  PROVE  t \in Seq({t[i] : i \in DOMAIN t})
<1> DEFINE items == {t[i] : i \in DOMAIN t}
<1>1. Len(t) \in Nat /\ DOMAIN t = 1 .. Len(t) /\ t = [i \in 1 .. Len(t) |-> t[i]]
  OBVIOUS
<1>2. \A i \in 1 .. Len(t) : t[i] \in items
  BY <1>1
<1> HIDE DEF items
<1>3. t \in [1 .. Len(t) -> items]
  BY <1>1, <1>2
<1>4. t \in Seq(items)
  BY <1>1, <1>3
<1>5. QED
  BY <1>4 DEF items

(* The contract the compiler is at comes from the version it compiles.     *)
LEMMA HeadOfTodo ==
  ASSUME EvalInv, compiling # None, compiling.todo # <<>>
  PROVE  LET c == Head(compiling.todo)
         IN  /\ FromVersion(compiling.version, c.schema, c.raw)
             /\ Approved(compiling.version) =>
                  ContractsOf(compiling.version, Tail(compiling.todo))
<1> SUFFICES ASSUME Approved(compiling.version)
             PROVE  /\ HasContract(compiling.version, Head(compiling.todo).schema,
                                   Head(compiling.todo).raw)
                    /\ ContractsOf(compiling.version, Tail(compiling.todo))
  BY DEF FromVersion
<1> DEFINE todo  == compiling.todo
           items == {todo[i] : i \in DOMAIN todo}
           rest  == {Tail(todo)[i] : i \in DOMAIN Tail(todo)}
<1>1. /\ todo \in Seq(items) /\ todo # <<>>
      /\ \A c \in items : HasContract(compiling.version, c.schema, c.raw)
  BY DEF EvalInv, CompilingInv, ContractsOf
<1>2. Head(todo) \in items /\ Tail(todo) \in Seq(items)
  BY <1>1
<1>3. \A i \in DOMAIN Tail(todo) : Tail(todo)[i] \in items
  BY <1>2
<1>4. rest \subseteq items
  BY <1>3
<1>5. Tail(todo) \in Seq(rest)
  BY <1>2, SequenceOfItems
<1>6. ContractsOf(compiling.version, Tail(todo))
  BY <1>1, <1>4, <1>5 DEF ContractsOf
<1>7. QED
  BY <1>1, <1>2, <1>6

(* A contract is put only if it compiles or is there already, and it is    *)
(* put with the version it was read from.                                  *)
LEMMA UpdateContractStep ==
  ASSUME GovInv, EvalInv, UpdateContract, UNCHANGED <<govVars, evaluating, answer>>
  PROVE  EvalInv'
<1>1. compiling # None /\ compiling.todo # <<>>
  BY DEF UpdateContract
<1>2. PICK v \in 0 .. gov.sn : v = compiling.version
  BY <1>1 DEF EvalInv, CompilingInv
<1>3. PICK c : c = Head(compiling.todo)
  OBVIOUS
<1>4. PICK rest : rest = Tail(compiling.todo)
  OBVIOUS
<1>5. /\ FromVersion(v, c.schema, c.raw)
      /\ Approved(v) => ContractsOf(v, rest)
  BY <1>1, <1>2, <1>3, <1>4, HeadOfTodo
<1>6. NoticesInv'
  BY DEF EvalInv, NoticesInv, UpdateContract, govVars
<1>7. CompilingInv'
  <2>1. compiling' = [version |-> v, todo |-> rest]
    BY <1>1, <1>2, <1>4 DEF UpdateContract, EvalInv, CompilingInv
  <2>2. (Approved(v) => ContractsOf(v, rest))'
    BY <1>5 DEF Approved, ContractsOf, HasContract, govVars
  <2>3. compiling'.version = v /\ compiling'.todo = rest
    BY <2>1
  <2>4. QED
    BY <2>1, <2>2, <2>3 DEF CompilingInv, govVars, Approved, ContractsOf, HasContract
<1>8. ContractsInv'
  <2>1. CASE UNCHANGED contracts
    BY <2>1, ContractsInvStays DEF EvalInv
  <2>2. CASE /\ \/ c.schema \in DOMAIN contracts /\ contracts[c.schema].raw = c.raw
                \/ c.raw \notin BadSources
             /\ PutContract(c, v)
    <3>1. c.raw \notin BadSources
      BY <2>2 DEF EvalInv, ContractsInv
    <3>2. contracts' = [s \in DOMAIN contracts \cup {c.schema} |->
                          IF s = c.schema THEN [raw |-> c.raw, version |-> v]
                          ELSE contracts[s]]
      BY <2>2 DEF PutContract
    <3>3. SUFFICES ASSUME NEW s \in DOMAIN contracts \cup {c.schema}
                   PROVE  /\ contracts'[s].version \in 0 .. gov'.sn
                          /\ contracts'[s].raw \notin BadSources
                          /\ FromVersion(contracts[s].version, s, contracts[s].raw)'
      BY <3>2 DEF ContractsInv
    <3>4. CASE s = c.schema
      <4>1. contracts'[s] = [raw |-> c.raw, version |-> v]
        BY <3>2, <3>4
      <4>2. FromVersion(v, c.schema, c.raw)'
        BY <1>5 DEF FromVersion, Approved, HasContract, govVars
      <4>3. QED
        BY <3>1, <3>4, <4>1, <4>2 DEF FromVersion, Approved, HasContract, govVars
    <3>5. CASE s # c.schema
      <4>1. s \in DOMAIN contracts /\ contracts'[s] = contracts[s]
        BY <3>2, <3>5
      <4>2. /\ contracts[s].version \in 0 .. gov.sn /\ contracts[s].raw \notin BadSources
            /\ FromVersion(contracts[s].version, s, contracts[s].raw)
        BY <4>1 DEF EvalInv, ContractsInv
      <4>3. QED
        BY <4>1, <4>2 DEF FromVersion, Approved, HasContract, govVars
    <3>6. QED
      BY <3>4, <3>5
  <2>3. QED
    BY <1>2, <1>3, <2>1, <2>2 DEF UpdateContract
<1>9. QED
  BY <1>6, <1>7, <1>8, EvaluatingStays, AnswerStays DEF EvalInv

(* The steps that end an update, and a crash.                              *)
LEMMA UpdateEndsStep ==
  ASSUME GovInv, EvalInv, UNCHANGED <<govVars, contracts, answer>>,
         compiling' \in {compiling, None}, evaluating' \in {evaluating, None},
         notices' \in {notices, <<>>}
  PROVE  EvalInv'
<1>1. NoticesInv'
  <2>1. CASE notices' = <<>>
    <3>1. Len(notices') = 0 /\ notices' \in Seq(Nat) /\ BufferSize \in Nat
      BY <2>1, BufferAssumption
    <3>2. QED
      BY <3>1 DEF NoticesInv
  <2>2. CASE notices' = notices
    BY <2>2 DEF EvalInv, NoticesInv, govVars
  <2>3. QED
    BY <2>1, <2>2
<1>2. CompilingInv'
  <2>1. CASE compiling' = None
    BY <2>1 DEF CompilingInv
  <2>2. CASE compiling' = compiling
    BY <2>2, CompilingStays DEF EvalInv
  <2>3. QED
    BY <2>1, <2>2
<1>3. EvaluatingInv'
  <2>1. CASE evaluating' = None
    BY <2>1 DEF EvaluatingInv
  <2>2. CASE evaluating' = evaluating
    BY <2>2, EvaluatingStays DEF EvalInv
  <2>3. QED
    BY <2>1, <2>2
<1>4. QED
  BY <1>1, <1>2, <1>3, ContractsInvStays, AnswerStays DEF EvalInv

(* Every step of the compiler keeps the invariant.                         *)
LEMMA CompilerInv ==
  ASSUME GovInv, EvalInv, CompilerStep
  PROVE  EvalInv'
<1>1. UNCHANGED <<govVars, evaluating, answer>>
  BY DEF CompilerStep
<1>2. CASE CompilerEnds \/ CompilationFails \/ EndUpdate
  BY <1>1, <1>2, UpdateEndsStep DEF CompilerEnds, CompilationFails, EndUpdate
<1>3. QED
  BY <1>1, <1>2, StartUpdateStep, UpdateContractStep DEF CompilerStep

(* The contract that is read is of the version the request is for.         *)
LEMMA ReadContractStep ==
  ASSUME GovInv, EvalInv, ReadContract, UNCHANGED govVars
  PROVE  EvaluatingInv'
<1> DEFINE e == evaluating
<1>1. /\ e # None /\ e.source = None /\ e.schema \in SchemaIds /\ e.version \in 0 .. gov.sn
      /\ e = [schema |-> e.schema, version |-> e.version, source |-> e.source]
  BY DEF ReadContract, EvalInv, EvaluatingInv
<1>2. CASE /\ e.schema = "governance"
           /\ evaluating' = [e EXCEPT !.source = "governance"]
  <2>1. evaluating' = [schema |-> e.schema, version |-> e.version, source |-> "governance"]
    BY <1>1, <1>2
  <2>2. QED
    BY <1>1, <1>2, <2>1 DEF EvaluatingInv, govVars
<1>3. CASE evaluating' = None
  BY <1>3 DEF EvaluatingInv
<1>4. CASE /\ ContractUsable
           /\ evaluating' = [e EXCEPT !.source = contracts[e.schema].raw]
  <2>1. PICK raw : raw = contracts[e.schema].raw
    OBVIOUS
  <2>2. evaluating' = [schema |-> e.schema, version |-> e.version, source |-> raw]
    BY <1>1, <1>4, <2>1
  <2>3. FromVersion(e.version, e.schema, raw)
    BY <1>4, <2>1 DEF ContractUsable, EvalInv, ContractsInv
  <2>4. PICK v : v = e.version
    OBVIOUS
  <2>5. PICK schema : schema = e.schema
    OBVIOUS
  <2>6. FromVersion(v, schema, raw)'
    BY <2>3, <2>4, <2>5 DEF FromVersion, Approved, HasContract, govVars
  <2>7. evaluating'.version = v /\ evaluating'.schema = schema /\ evaluating'.source = raw
    BY <2>2, <2>4, <2>5
  <2>8. QED
    BY <1>1, <2>2, <2>4, <2>5, <2>6, <2>7
       DEF EvaluatingInv, FromVersion, Approved, HasContract, govVars
<1>5. QED
  BY <1>2, <1>3, <1>4 DEF ReadContract

(* A request for the last version is taken.                                *)
LEMMA StartEvaluationStep ==
  ASSUME GovInv, EvalInv, NEW s \in SchemaIds, NEW v, StartEvaluation(s, v),
         UNCHANGED govVars
  PROVE  EvaluatingInv' /\ AnswerInv'
<1>1. gov.sn \in Nat
  BY DEF GovInv, GovTypes, Governances
<1>2. evaluating' = [schema |-> s, version |-> v, source |-> None] /\ v = gov.sn
  BY DEF StartEvaluation
<1>3. EvaluatingInv'
  BY <1>1, <1>2 DEF EvaluatingInv, govVars
<1>4. AnswerInv'
  BY DEF StartEvaluation, AnswerInv, EvaluatedByItsVersion
<1>5. QED
  BY <1>3, <1>4

(* Identifiers of schemas are distinct in a version that passed the        *)
(* contract, so the schema that is found is the one with the contract.     *)
LEMMA FoundSchema ==
  ASSUME GovInv, NEW v \in 0 .. gov.sn, Approved(v), NEW schema, NEW raw,
         HasContract(v, schema, raw), schema # "governance"
  PROVE  /\ schema \in Field(was[v + 1].properties.schemas, "id")
         /\ raw = SchemaAt(v, schema).contract
         /\ GetSchema(schema, v) = SchemaAt(v, schema).schema
<1> DEFINE ss == was[v + 1].properties.schemas
           k  == CHOOSE i \in DOMAIN ss : ss[i].id = schema
<1>1. PICK i \in DOMAIN ss : ss[i].id = schema /\ ss[i].contract = raw
  BY DEF HasContract
<1>2. k \in DOMAIN ss /\ ss[k].id = schema
  BY <1>1
<1>3. Distinct(ss, "id")
  BY DEF GovInv, History, CheckGovernanceState, CheckSchemas
<1>4. k = i
  BY <1>1, <1>2, <1>3 DEF Distinct
<1>5. schema \in Field(ss, "id")
  BY <1>1 DEF Field
<1>6. raw = SchemaAt(v, schema).contract
  BY <1>1, <1>4 DEF SchemaAt
<1>7. GovernanceEventSourcing(v).properties.schemas = ss
  BY SourcedVersion
<1>8. GetSchema(schema, v) = SchemaAt(v, schema).schema
  BY <1>5, <1>7 DEF GetSchema, SchemaAt
<1>9. QED
  BY <1>5, <1>6, <1>8

(* The answer has the contract and the schema of the version.              *)
LEMMA AnswerStep ==
  ASSUME GovInv, EvalInv, NEW success \in BOOLEAN, Answer(success), UNCHANGED govVars
  PROVE  EvaluatingInv' /\ AnswerInv'
<1>1. evaluating # None /\ evaluating.source # None /\ evaluating' = None
  BY DEF Answer
<1>2. PICK v \in 0 .. gov.sn : v = evaluating.version
  BY <1>1 DEF EvalInv, EvaluatingInv
<1>3. PICK schema \in SchemaIds : schema = evaluating.schema
  BY <1>1 DEF EvalInv, EvaluatingInv
<1>4. PICK source : source = evaluating.source
  OBVIOUS
<1>5. PICK against : against = IF success THEN GetSchema(schema, v) ELSE "none"
  OBVIOUS
<1>6. answer' = [schema |-> schema, version |-> v, source |-> source, against |-> against]
  BY <1>2, <1>3, <1>4, <1>5 DEF Answer
<1>7. AnswerFits(v, schema, source, against)
  <2>1. SUFFICES ASSUME schema # "governance", Approved(v)
                 PROVE  /\ schema \in Field(was[v + 1].properties.schemas, "id")
                        /\ source = SchemaAt(v, schema).contract
                        /\ against \in {"none", SchemaAt(v, schema).schema}
    BY DEF AnswerFits
  <2>2. FromVersion(v, schema, source)
    BY <1>1, <1>2, <1>3, <1>4, <2>1 DEF EvalInv, EvaluatingInv
  <2>3. HasContract(v, schema, source)
    BY <2>1, <2>2 DEF FromVersion
  <2>4. QED
    BY <1>5, <2>1, <2>3, FoundSchema
<1>8. AnswerFits(v, schema, source, against)'
  BY <1>7 DEF AnswerFits, Approved, SchemaAt, govVars
<1>9. /\ v = answer'.version /\ schema = answer'.schema /\ source = answer'.source
      /\ against = answer'.against
  BY <1>6
<1>10. EvaluatedByItsVersion'
  BY <1>8, <1>9 DEF EvaluatedByItsVersion, AnswerFits, Approved, SchemaAt
<1>11. AnswerInv'
  BY <1>9, <1>10 DEF AnswerInv, govVars
<1>12. EvaluatingInv'
  BY <1>1 DEF EvaluatingInv
<1>13. QED
  BY <1>11, <1>12

(* Every step of the runner keeps the invariant.                           *)
LEMMA RunnerInv ==
  ASSUME GovInv, EvalInv, RunnerStep
  PROVE  EvalInv'
<1>1. UNCHANGED govVars /\ UNCHANGED <<notices, compiling, contracts>>
  BY DEF RunnerStep, compilerVars
<1>2. NoticesInv' /\ CompilingInv' /\ ContractsInv'
  <2>1. NoticesInv'
    BY <1>1 DEF EvalInv, NoticesInv, govVars
  <2>2. QED
    BY <1>1, <2>1, CompilingStays, ContractsInvStays DEF EvalInv
<1>3. EvaluatingInv' /\ AnswerInv'
  <2>1. CASE \E s \in SchemaIds, v \in 0 .. MaxVersion : StartEvaluation(s, v)
    BY <1>1, <2>1, StartEvaluationStep
  <2>2. CASE ReadContract
    BY <1>1, <2>2, ReadContractStep, AnswerStays DEF EvalInv, ReadContract
  <2>3. CASE \E success \in BOOLEAN : Answer(success)
    BY <1>1, <2>3, AnswerStep
  <2>4. QED
    BY <2>1, <2>2, <2>3 DEF RunnerStep
<1>4. QED
  BY <1>2, <1>3 DEF EvalInv

-----------------------------------------------------------------------------

IndInv == GovInv /\ EvalInv

(* Every step of the evaluator and the governance.                         *)
LEMMA InductiveStep == IndInv /\ [Next]_vars => IndInv'
<1> SUFFICES ASSUME GovInv, EvalInv, [Next]_vars PROVE GovInv' /\ EvalInv'
  BY DEF IndInv
<1>1. GovInv'
  <2>1. CASE GovNext
    BY <2>1, GovNextInv
  <2>2. CASE UNCHANGED govVars
    BY <2>2 DEF GovInv, GovTypes, History, govVars
  <2>3. QED
    BY <2>1, <2>2 DEF Next, StoreEvent, CompilerStep, RunnerStep, Crash, vars
<1>2. EvalInv'
  <2>1. CASE Crash
    BY <2>1, UpdateEndsStep DEF Crash
  <2>2. CASE UNCHANGED vars
    BY <2>2, UpdateEndsStep DEF vars, compilerVars
  <2>3. QED
    BY <2>1, <2>2, StoreEventStep, CompilerInv, RunnerInv DEF Next
<1>3. QED
  BY <1>1, <1>2

(* Both invariants hold.                                                   *)
LEMMA Inductive == Spec => []IndInv
<1>1. Init => IndInv
  BY GovInitInv, InitEvalInv DEF Init, IndInv
<1>2. QED
  BY <1>1, InductiveStep, PTL DEF Spec

(* What the compiler, the channel, the database of contracts and the       *)
(* runner hold has its type: in particular no contract that does not       *)
(* compile is ever stored, and a stored version is one the governance has  *)
(* had (compiler and manager of the evaluator).                            *)
THEOREM TypeCorrect == Spec => []TypeOK
<1>1. IndInv => TypeOK
  BY TypesFollow DEF IndInv
<1>2. QED
  BY <1>1, Inductive, PTL

(* Whatever facts and transfers a governance has seen, get_signers and     *)
(* get_quorum of InnerGovernance answer for each of its schemas and stages *)
(* with signers that exist and a quorum they can reach.                    *)
THEOREM QuorumsCanBeMet == Spec => []QuorumCanBeMet
<1>1. IndInv => QuorumCanBeMet
  BY QuorumsFit DEF IndInv
<1>2. QED
  BY <1>1, Inductive, PTL

(* The quorum that get_quorum computes for a majority policy is more than  *)
(* half of the validators, for any number of them.                         *)
THEOREM MajorityQuorumsIntersect == Spec => []MajorityIntersects
<1>1. IndInv => MajorityIntersects
  BY MajoritiesIntersect DEF IndInv
<1>2. QED
  BY <1>1, Inductive, PTL

(* For chains of any length in which no event was rejected,                *)
(* governance_event_sourcing gives for an older version the document of    *)
(* then and get_signers the signers of then; only a signer that is the     *)
(* owner for want of roles becomes the creator again after a transfer.     *)
THEOREM VersionsFinal == Spec => []VersionsAreFinalUnlessRejected
<1>1. IndInv => VersionsAreFinalUnlessRejected
  BY FinalVersions DEF IndInv
<1>2. QED
  BY <1>1, Inductive, PTL

(* However the compiler, the ledger, execute_contract and crashes          *)
(* interleave, an evaluation for a version is made with the contract and   *)
(* validated against the schema that this version had.                     *)
THEOREM EvaluatedWithItsVersion == Spec => []EvaluatedByItsVersion
<1>1. IndInv => EvaluatedByItsVersion
  BY DEF IndInv, EvalInv, AnswerInv
<1>2. QED
  BY <1>1, Inductive, PTL
===============================================================================
