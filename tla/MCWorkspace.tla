---------------------------- MODULE MCWorkspace ----------------------------
(* TLC instances of Workspace. *)
EXTENDS Workspace, TLC
=============================================================================
