--------------------------- MODULE MCProviderRound ---------------------------
(* Instances of ProviderRound for TLC. *)
EXTENDS ProviderRound, TLC

CONSTANTS o1, o2, o3

MCOp2 == {o1, o2}
MCOp3 == {o1, o2, o3}

Symmetric2 == Permutations(MCOp2)
Symmetric3 == Permutations(MCOp3)
=============================================================================
