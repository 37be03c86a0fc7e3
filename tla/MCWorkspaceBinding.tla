-------------------------- MODULE MCWorkspaceBinding --------------------------
(* An instance of WorkspaceBinding for TLC.                                  *)
EXTENDS WorkspaceBinding, TLC

MCConversations == {"c1", "c2"}
=============================================================================
