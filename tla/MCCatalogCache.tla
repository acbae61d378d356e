-------------------------- MODULE MCCatalogCache --------------------------
(***************************************************************************)
(* Instances of CatalogCache for TLC.                                      *)
(***************************************************************************)
EXTENDS CatalogCache
=============================================================================
