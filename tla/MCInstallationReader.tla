------------------------ MODULE MCInstallationReader ------------------------
(***************************************************************************)
(* Instances of InstallationReader for TLC.                                *)
(***************************************************************************)
EXTENDS InstallationReader
=============================================================================
