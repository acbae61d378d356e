CONSTANTS
  t1 = t1
  t2 = t2
  Txs = {t1, t2}
  NoTx = NoTx
  Operations <- MCOperations
  Cancellers = {t1}
  MaxProgress = 1
  AddMayFail = TRUE
SPECIFICATION Spec
INVARIANTS
  TypeOK
  CancelPointsAtLive
  
PROPERTIES
  ResultArrives
CHECK_DEADLOCK FALSE
