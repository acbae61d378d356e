-------------------------- MODULE MCPermissionFlow --------------------------
(***************************************************************************)
(* Instances of PermissionFlow for TLC.                                    *)
(***************************************************************************)
EXTENDS PermissionFlow
=============================================================================
