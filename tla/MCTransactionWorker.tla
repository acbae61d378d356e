------------------------ MODULE MCTransactionWorker ------------------------
(***************************************************************************)
(* Instances of TransactionWorker for TLC: a transaction of two operations *)
(* and one of one.                                                         *)
(***************************************************************************)
EXTENDS TransactionWorker

CONSTANTS t1, t2

MCOperations ==
  (t1 :> <<[type |-> "INSTALL", ref |-> "a"], [type |-> "UNINSTALL", ref |-> "b"]>>)
    @@ (t2 :> <<[type |-> "UPDATE", ref |-> "c"]>>)
=============================================================================
