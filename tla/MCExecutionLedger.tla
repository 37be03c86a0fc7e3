-------------------------- MODULE MCExecutionLedger --------------------------
(***************************************************************************)
(* Bounds for checking ExecutionLedger: a batch of MCN calls of every      *)
(* mixture of kinds.                                                       *)
(***************************************************************************)
EXTENDS ExecutionLedger, TLC

MCN == 3
=============================================================================
