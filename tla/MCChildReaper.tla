--------------------------- MODULE MCChildReaper ---------------------------
(***************************************************************************)
(* Instances of ChildReaper for TLC.                                       *)
(***************************************************************************)
EXTENDS ChildReaper
=============================================================================
