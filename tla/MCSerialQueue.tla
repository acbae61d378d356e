--------------------------- MODULE MCSerialQueue ---------------------------
(***************************************************************************)
(* Instances of SerialQueue for TLC.                                       *)
(***************************************************************************)
EXTENDS SerialQueue
=============================================================================
