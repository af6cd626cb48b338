----------------------------- MODULE MCEvaluator -----------------------------
(* Two nodes and facts that admit both as members and give them roles, take *)
(* the membership of one away, and change the contracts of the schemas.     *)
EXTENDS Evaluator

Policy(id, quorum) ==
  [id |-> id, approve |-> <<"MAJORITY">>, evaluate |-> <<"PERCENTAGE", 1, 2>>,
   validate |-> quorum]
Role(role, schema, who) ==
  [role |-> role, schema |-> schema, who |-> who, namespace |-> <<>>]
Schema(id, contract, schema) == [id |-> id, contract |-> contract, schema |-> schema]

Policies == <<Policy("governance", <<"MAJORITY">>), Policy("s", <<"MAJORITY">>),
              Policy("t", <<"FIXED", 2>>)>>

Members == <<[id |-> "n1", name |-> "one"], [id |-> "n2", name |-> "two"]>>
Roles ==
  <<Role("VALIDATOR", "NOT_GOVERNANCE", <<"NAME", "two">>),
    Role("EVALUATOR", "ALL", <<"MEMBERS">>),
    Role("APPROVER", "governance", <<"ID", "n1">>),
    Role("ISSUER", "governance", <<"NAME", "two">>)>>

Admit ==
  [members |-> Members, roles |-> Roles, policies |-> Policies,
   schemas |-> <<Schema("s", "c1", "x1"), Schema("t", "d1", "y1")>>]
Dismiss == [members |-> <<[id |-> "n1", name |-> "one"]>>]
Rewrite == [schemas |-> <<Schema("s", "c2", "x2"), Schema("t", "d1", "y1")>>]
Break   == [schemas |-> <<Schema("s", "bad", "x1"), Schema("t", "d2", "y1")>>]

MCPatches == {Admit, Dismiss, Rewrite, Break}
=============================================================================
