-------------------------- MODULE MCSessionStore --------------------------
(* An instance of SessionStore for TLC: one conversation, which the agent,  *)
(* the binding and the user all change.                                     *)
EXTENDS SessionStore, TLC

CONSTANT c1

MCOne == {c1}
=============================================================================
