-------------------------- MODULE MCUpdateMonitor --------------------------
(***************************************************************************)
(* Instances of UpdateMonitor for TLC.                                     *)
(***************************************************************************)
EXTENDS UpdateMonitor
=============================================================================
