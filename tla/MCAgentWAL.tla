----------------------------- MODULE MCAgentWAL -----------------------------
(* Instances of AgentWAL for TLC. *)
EXTENDS AgentWAL, TLC

CONSTANTS t1, t2, x1, x2

MCThreads == {t1, t2}
MCTxn     == {x1, x2}

Symmetric == Permutations(MCThreads) \cup Permutations(MCTxn)
=============================================================================
