CONSTANTS
  NumLookups = 2
  MaxChanges = 0
  MaxCrashes = 0
  Reverts = FALSE
  ChangeDuringBuild = FALSE
  CloseWhileBusy = FALSE
SPECIFICATION Spec
INVARIANTS
  LookupsShareHandle
CHECK_DEADLOCK FALSE
