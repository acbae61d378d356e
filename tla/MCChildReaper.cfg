CONSTANTS
  Children = {c1, c2, c3}
  Unlocked = Unlocked
  PipeOK = TRUE
SPECIFICATION ReaperSpec
INVARIANTS
  ReaperTypeOK
  NeverTerminates
  OneOwner
PROPERTIES
  
  AddReturns
CHECK_DEADLOCK FALSE
