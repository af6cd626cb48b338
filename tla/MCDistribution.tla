---------------------------- MODULE MCDistribution ----------------------------
(* Two witnesses of two events; a node that preauthorised the subject and     *)
(* becomes its witness; a second witness that the governance adds to the      *)
(* first.                                                                     *)
EXTENDS Distribution

Versions(first, second) == [v \in {0, 1} |-> IF v = 0 THEN first ELSE second]
AskOwner(asking) == [n \in Nodes |-> IF n \in asking THEN {"o"} ELSE {}]

MCScenarios ==
  {[witnesses |-> [v \in {0} |-> {"w", "x"}], providers |-> AskOwner({}), last |-> 1],
   [witnesses |-> Versions({}, {"x"}), providers |-> AskOwner({"x"}), last |-> 1],
   [witnesses |-> Versions({"w"}, {"w", "x"}), providers |-> AskOwner({}), last |-> 0]}

\* A witness of the first version, and one that the second sends away and the
\* third takes back.
MCReturns ==
  {[witnesses |-> [v \in 0 .. 2 |-> IF v = 1 THEN {"w"} ELSE {"w", "x"}],
    providers |-> AskOwner({}), last |-> 0]}
=============================================================================
