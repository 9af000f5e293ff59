------------------------------- MODULE MCPushes -------------------------------
(* Legacy pushes for TLC.                                                  *)
EXTENDS Pushes
=============================================================================
