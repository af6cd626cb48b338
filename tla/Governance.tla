----------------------------- MODULE Governance -----------------------------
(* The governance of a node: the subject that says who signs what.  The    *)
(* ledger stores its events one after the other and every event, applied   *)
(* or not, makes a new version.  InnerGovernance answers questions about a *)
(* version: the stored subject answers for the last version, a replay of   *)
(* the events from the initial state for an older one.                     *)
(* The state of a governance is a document with members, roles, policies   *)
(* and schemas, and a patch is the part of a document that it replaces.    *)
EXTENDS Integers, FiniteSets, SequencesExt

CONSTANTS
  Nodes,       \* identifiers of controllers
  Creator,     \* the node that created the governance
  Patches,     \* what facts about the governance may change
  MaxVersion   \* bound: the events after the genesis

ASSUME CreatorAssumption == Creator \in Nodes
VARIABLES
  chain,       \* the events the ledger stored after the genesis
  gov,         \* the stored subject: sn, owner and properties
  was          \* history: was[v + 1] is gov when v was its last version

govVars == <<chain, gov, was>>

Stages == {"approve", "evaluate", "validate"}
Fields == {"members", "roles", "policies", "schemas"}

\* What the schema of a governance says of a patch: its fields are lists, and a
\* quorum is a majority, a fixed number or a share of at most the whole.
IsList(s) == Len(s) \in Nat /\ DOMAIN s = 1 .. Len(s)
IsQuorum(q) ==
  \/ q[1] \in {"MAJORITY", "FIXED"}
  \/ q[1] = "PERCENTAGE" /\ q[2] \in Nat /\ q[3] \in Nat \ {0} /\ q[2] <= q[3]

ASSUME PatchAssumption ==
  \A p \in Patches :
    /\ DOMAIN p \subseteq Fields
    /\ \A f \in DOMAIN p : IsList(p[f])
    /\ "policies" \in DOMAIN p =>
         \A i \in DOMAIN p.policies, stage \in Stages : IsQuorum(p.policies[i][stage])

RoleOf(stage) ==
  CASE stage = "approve" -> "APPROVER"  [] stage = "evaluate" -> "EVALUATOR"
    [] stage = "validate" -> "VALIDATOR" [] stage = "witness" -> "WITNESS"
    [] stage = "create" -> "CREATOR"    [] stage = "issue" -> "ISSUER"

InitialState ==
  [members  |-> <<>>,
   roles    |-> <<[role |-> "WITNESS", schema |-> "governance",
                   who |-> <<"MEMBERS">>, namespace |-> <<>>]>>,
   policies |-> <<[id |-> "governance", approve |-> <<"MAJORITY">>,
                   evaluate |-> <<"MAJORITY">>, validate |-> <<"MAJORITY">>]>>,
   schemas  |-> <<>>]

ApplyPatch(doc, patch) ==
  [f \in DOMAIN doc |-> IF f \in DOMAIN patch THEN patch[f] ELSE doc[f]]

NoPatch == [f \in {} |-> <<>>]

Field(seq, f) == {seq[i][f] : i \in DOMAIN seq}
Distinct(seq, f) == \A i, j \in DOMAIN seq : seq[i][f] = seq[j][f] => i = j

\* The contract of a governance, which is built in.
CheckMembers(doc) == Distinct(doc.members, "id") /\ Distinct(doc.members, "name")

CheckPolicies(doc) ==
  Distinct(doc.policies, "id") /\ "governance" \in Field(doc.policies, "id")

CheckSchemas(doc) ==
  /\ Distinct(doc.schemas, "id")
  /\ Field(doc.schemas, "id") = Field(doc.policies, "id") \ {"governance"}

CheckRolesUnnamed(doc) ==  \* a mutant: names in roles are not checked
  \A i \in DOMAIN doc.roles :
    LET r == doc.roles[i]
    IN  /\ r.schema \in {"ALL", "NOT_GOVERNANCE"} \cup Field(doc.policies, "id")
        /\ r.who[1] = "ID" => r.who[2] \in Field(doc.members, "id")

CheckRoles(doc) ==
  \A i \in DOMAIN doc.roles :
    LET r == doc.roles[i]
    IN  /\ r.schema \in {"ALL", "NOT_GOVERNANCE"} \cup Field(doc.policies, "id")
        /\ r.who[1] = "ID" => r.who[2] \in Field(doc.members, "id")
        /\ r.who[1] = "NAME" => r.who[2] \in Field(doc.members, "name")

CheckGovernanceState(doc) ==
  CheckMembers(doc) /\ CheckPolicies(doc) /\ CheckSchemas(doc) /\ CheckRoles(doc)

-----------------------------------------------------------------------------
(* Versions.                                                               *)

ReplayOneShort(v) ==  \* a mutant: the last event is not applied
  LET after[i \in 0 .. v] ==
        IF i = 0 THEN InitialState
        ELSE IF i = v THEN after[i - 1] ELSE ApplyPatch(after[i - 1], chain[i].patch)
  IN  after[v]

Replay(v) ==
  LET after[i \in 0 .. v] ==
        IF i = 0 THEN InitialState ELSE ApplyPatch(after[i - 1], chain[i].patch)
  IN  after[v]

\* The governance at version v <= gov.sn.
GovernanceEventSourcing(v) ==
  IF v = gov.sn THEN gov
  ELSE [sn |-> v, owner |-> Creator, properties |-> Replay(v)]

GetSchema(schema, v) ==
  LET ss == GovernanceEventSourcing(v).properties.schemas
      i  == CHOOSE i \in DOMAIN ss : ss[i].id = schema
  IN  IF schema = "governance" THEN "governance"
      ELSE IF schema \notin Field(ss, "id") THEN "not found" ELSE ss[i].schema

GetContracts(v) ==
  LET ss == GovernanceEventSourcing(v).properties.schemas
  IN  [i \in DOMAIN ss |-> [schema |-> ss[i].id, raw |-> ss[i].contract]]

-----------------------------------------------------------------------------
(* Signers, quorums and permissions of a document.                         *)

NamespaceContiene(parent, child) == IsPrefix(parent, child)

\* The roles for the stage that concern subjects of a schema in a namespace.
Matching(doc, schema, namespace, stage) ==
  LET Matches(r) ==
        /\ r.role = RoleOf(stage)
        /\ \/ r.schema \in {"ALL", schema}
           \/ r.schema = "NOT_GOVERNANCE" /\ schema # "governance"
        /\ NamespaceContiene(r.namespace, namespace)
  IN  {i \in DOMAIN doc.roles : Matches(doc.roles[i])}

MemberNamed(doc, name) ==
  doc.members[CHOOSE i \in DOMAIN doc.members : doc.members[i].name = name].id

Everybody == {<<"MEMBERS">>, <<"ALL">>}

\* The roles are read in order: the first one for everybody ends the search,
\* a name that no member has before it is an error.
GetSignersAux(doc, schema, namespace, stage) ==
  LET ms     == Matching(doc, schema, namespace, stage)
      ids    == Field(doc.members, "id")
      names  == Field(doc.members, "name")
      who(i) == doc.roles[i].who
      ends   == {i \in ms : who(i) \in Everybody}
      read   == {i \in ms : \A j \in ends : i < j}
      Ids(i) == IF who(i)[1] = "ID" THEN {who(i)[2]} \cap ids
                ELSE IF who(i)[1] = "NAME" THEN {MemberNamed(doc, who(i)[2])}
                ELSE {}
  IN  IF \E i \in read : who(i)[1] = "NAME" /\ who(i)[2] \notin names
      THEN {"invalid name"}
      ELSE IF ends # {} THEN ids ELSE UNION {Ids(i) : i \in read}

\* Where the roles name nobody, the owner signs.
SignersOf(g, schema, namespace, stage) ==
  LET s == GetSignersAux(g.properties, schema, namespace, stage)
  IN  IF s = {} THEN {g.owner} ELSE s

GetSigners(schema, namespace, stage, v) ==
  SignersOf(GovernanceEventSourcing(IF stage = "witness" THEN gov.sn ELSE v),
            schema, namespace, stage)

PolicyQuorum(doc, schema, stage) ==
  doc.policies[CHOOSE i \in DOMAIN doc.policies : doc.policies[i].id = schema][stage]

CeilOfShare(n, num, den) == (n * num + den - 1) \div den

GetQuorumHalf(schema, namespace, stage, v) ==  \* a mutant: half is a majority
  Cardinality(GetSigners(schema, namespace, stage, v)) \div 2

GetQuorum(schema, namespace, stage, v) ==
  LET q == PolicyQuorum(GovernanceEventSourcing(v).properties, schema, stage)
      n == Cardinality(GetSigners(schema, namespace, stage, v))
  IN  CASE q[1] = "MAJORITY"   -> n \div 2 + 1
        [] q[1] = "FIXED"      -> q[2]
        [] q[1] = "PERCENTAGE" -> CeilOfShare(n, q[2], q[3])

\* Whether the invoker may issue or create; names were checked before.
IssueCreateInfo(doc, schema, namespace, stage, invoker) ==
  LET isMember == invoker \in Field(doc.members, "id")
  IN  \E i \in Matching(doc, schema, namespace, stage) :
        LET who == doc.roles[i].who
        IN  \/ who = <<"ALL">>
            \/ who = <<"NOT_MEMBERS">> /\ ~isMember
            \/ isMember /\ \/ who = <<"MEMBERS">>
                           \/ who = <<"ID", invoker>>
                           \/ who[1] = "NAME" /\ MemberNamed(doc, who[2]) = invoker

-----------------------------------------------------------------------------
(* The ledger stores the next event of the governance.                     *)

Store(event, owner, doc) ==
  /\ chain' = Append(chain, event)
  /\ gov' = [sn |-> gov.sn + 1, owner |-> owner, properties |-> doc]
  /\ was' = Append(was, gov')

MayIssue(invoker) ==
  \/ invoker = gov.owner
  \/ IssueCreateInfo(gov.properties, "governance", <<>>, "issue", invoker)

\* A fact whose evaluation fails is stored with an empty patch; one that
\* succeeds needs approval, and is applied only if it is approved.
StoreFact(invoker, patch, approved) ==
  LET doc == ApplyPatch(gov.properties, patch)
  IN  /\ gov.sn < MaxVersion
      /\ MayIssue(invoker)
      /\ \/ /\ ~CheckGovernanceState(doc)
            /\ approved
            /\ Store([patch |-> NoPatch, approved |-> TRUE], gov.owner, gov.properties)
         \/ /\ CheckGovernanceState(doc)
            /\ Store([patch |-> patch, approved |-> approved], gov.owner,
                     IF approved THEN doc ELSE gov.properties)

StoreTransfer(owner) ==
  /\ gov.sn < MaxVersion
  /\ owner # gov.owner
  /\ Store([patch |-> NoPatch, approved |-> TRUE], owner, gov.properties)

GovInit ==
  /\ chain = <<>>
  /\ gov = [sn |-> 0, owner |-> Creator, properties |-> InitialState]
  /\ was = <<gov>>

GovNext ==
  \/ \E n \in Nodes, p \in Patches, approved \in BOOLEAN : StoreFact(n, p, approved)
  \/ \E n \in Nodes : StoreTransfer(n)

GovSpec == GovInit /\ [][GovNext]_govVars

-----------------------------------------------------------------------------
(* Properties.                                                             *)

Schemas(v) == Field(was[v + 1].properties.policies, "id")

\* InnerGovernance::get_signers and get_quorum never fail for the last version,
\* which check_governance_state let pass: for every schema and stage there are
\* signers, they are members or the owner alone, and unless the policy fixes a
\* number there are as many as the quorum asks for.
QuorumCanBeMet ==
  \A s \in Schemas(gov.sn), stage \in Stages :
    LET signers == GetSigners(s, <<>>, stage, gov.sn)
    IN  /\ signers # {}
        /\ \/ signers \subseteq Field(gov.properties.members, "id")
           \/ signers = {gov.owner}
        /\ PolicyQuorum(gov.properties, s, stage)[1] # "FIXED"
             => GetQuorum(s, <<>>, stage, gov.sn) <= Cardinality(signers)

\* The quorum of validators is a majority under the default policy, which is
\* what keeps two events with one sequence number from being validated both.
MajorityIntersects ==
  \A s \in Schemas(gov.sn) :
    PolicyQuorum(gov.properties, s, "validate") = <<"MAJORITY">> =>
      2 * GetQuorum(s, <<>>, "validate", gov.sn)
        > Cardinality(GetSigners(s, <<>>, "validate", gov.sn))

\* A version is final as long as no event was rejected: for an older version
\* governance_event_sourcing says of members, roles, policies and schemas what
\* the subject said when it was the last one, and get_signers gives the signers
\* it gave then.  One answer does change: where the roles name nobody, the
\* signer is the owner, and the replay, which starts from the genesis and
\* applies patches alone, takes the creator for the owner after a transfer.
VersionsAreFinalUnlessRejected ==
  \A v \in 0 .. gov.sn :
    (\A i \in 1 .. v : chain[i].approved) =>
      LET then == was[v + 1]
      IN  /\ GovernanceEventSourcing(v).properties = then.properties
          /\ \A s \in Schemas(v), stage \in Stages :
               LET signers == GetSigners(s, <<>>, stage, v)
               IN  \/ signers = SignersOf(then, s, <<>>, stage)
                   \/ /\ v < gov.sn /\ then.owner # Creator
                      /\ GetSignersAux(then.properties, s, <<>>, stage) = {}
                      /\ signers = {Creator}

\* The same with rejected events: an event that was not approved is not applied
\* to the state, in a replay neither.
VersionsAreFinal ==
  \A v \in 0 .. gov.sn :
    GovernanceEventSourcing(v).properties = was[v + 1].properties
=============================================================================
