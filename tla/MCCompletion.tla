---------------------------- MODULE MCCompletion ----------------------------
(* An instance of Completion for TLC: one round of tools, then an answer.   *)
EXTENDS Completion, TLC

MCBatches == {<<"bad", "auto">>, <<"ask", "auto">>, <<"ask", "ask">>}
=============================================================================
