----------------------------- MODULE MCPushLoop -----------------------------
(***************************************************************************)
(* The bounds are in the configurations.                                   *)
(***************************************************************************)
EXTENDS PushLoop
=============================================================================
