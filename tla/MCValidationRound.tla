-------------------------- MODULE MCValidationRound --------------------------
(* One fact after the genesis, and two validators that must both sign.  *)
EXTENDS ValidationRound

CONSTANTS v1, v2, k1

MCValidators == {v1, v2}

Proof(sn, prev, event, key, g) ==
  [sn |-> sn, prev |-> prev, event |-> event, key |-> key,
   gov |-> g, genesis |-> 0, meta |-> "m"]

MCGenesis == Proof(0, "none", "g", k1, 0)
MCEvent == [g \in Versions |-> Proof(1, "g", "e", k1, g)]
MCProofs == {MCGenesis} \cup {MCEvent[g] : g \in Versions}
MCSigners == [g \in Versions |-> Validators]
MCQuorumSize == [g \in Versions |-> 2]
=============================================================================
