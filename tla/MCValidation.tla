---------------------------- MODULE MCValidation ----------------------------
(* A subject with an equivocating owner: two rival events at sequence      *)
(* number 1, a transfer to key k2 and one that event 2 builds on.          *)
EXTENDS Validation, TLC

CONSTANTS v1, v2, v3, k1, k2

Proof(sn, prev, event, key, g) ==
  [sn |-> sn, prev |-> prev, event |-> event, key |-> key,
   gov |-> g, genesis |-> 0, meta |-> "m"]

MCProofs ==
  {Proof(0, "none", "g", k1, 0)}
    \cup {Proof(1, "g", "a1", k2, g) : g \in Versions}
    \cup {Proof(1, "g", "b1", k1, 0)}
    \cup {Proof(2, "b1", "b2", k1, MaxGov)}

MCValidators == {v1, v2, v3}
MCSymmetry == Permutations(MCValidators)
MCSigners == [g \in Versions |-> MCValidators]
MCQuorumSize == [g \in Versions |-> 2]
=============================================================================
