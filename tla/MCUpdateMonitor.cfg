CONSTANTS
  MaxApps = 2
  MaxChanges = 3
  MonitorMayFail = TRUE
  CountMayFail = TRUE
  ChangeWhileOpening = FALSE
  EarlyClose = FALSE
SPECIFICATION MonitorSpec
INVARIANTS
  MonitorTypeOK
PROPERTIES
  
  CloseReturns
CHECK_DEADLOCK FALSE
