CONSTANTS
  NumLookups = 3
  MaxChanges = 2
  MaxCrashes = 1
  Reverts = FALSE
  ChangeDuringBuild = FALSE
  CloseWhileBusy = FALSE
SPECIFICATION Spec
INVARIANTS
  TypeOK
  SingleWriter
  AnswerIsCurrent
PROPERTIES
  LookupReturns
CHECK_DEADLOCK FALSE
