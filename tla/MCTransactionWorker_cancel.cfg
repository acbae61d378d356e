CONSTANTS
  t1 = t1
  t2 = t2
  Txs = {t1, t2}
  NoTx = NoTx
  Operations <- MCOperations
  Cancellers = {t1, t2}
  MaxProgress = 0
  AddMayFail = FALSE
SPECIFICATION Safety
INVARIANT
  OnlyAskedIsCancelled
CHECK_DEADLOCK FALSE
