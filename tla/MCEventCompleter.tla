--------------------------- MODULE MCEventCompleter ---------------------------
(* One subject, up to three requests, two or three nodes in every role.    *)
EXTENDS EventCompleter

CONSTANTS
  n1, n2, n3,
  f1, f2,  \* facts, both setting the state to "a"; f2 comes from another node
  t1,      \* a transfer
  c1       \* the end of life, asked for by the owner

AllVerdicts == {"ok", "approve", "fail", "failapprove"}

MCKind ==
  [r \in Requests |-> IF r \in {f1, f2} THEN "fact"
                      ELSE IF r = t1 THEN "transfer" ELSE "eol"]
MCEffect == [r \in Requests |-> "a"]
MCPermitted == [g \in Versions |-> {f2} \cap Requests]
MCRevoked == [g \in Versions |-> IF g = 0 THEN {f2} ELSE {}]

\* Evaluators that answer anything, and evaluators that agree.
AnyVerdict == [r \in Requests |-> AllVerdicts]
OkVerdict == [r \in Requests |-> {"ok"}]

MCSigners == [s \in Stages |-> [g \in Versions |-> Nodes]]
\* Version 1 drops an evaluator.
MCFewerEvaluators ==
  [s \in Stages |->
     [g \in Versions |-> IF s = "evaluate" /\ g = 1 THEN Nodes \ {n1} ELSE Nodes]]
MCMajorities ==
  [s \in Stages |-> [g \in Versions |->
     Cardinality(MCFewerEvaluators[s][g]) \div 2 + 1]]
MCMajority ==
  [s \in Stages |-> [g \in Versions |-> Cardinality(Nodes) \div 2 + 1]]
=============================================================================
