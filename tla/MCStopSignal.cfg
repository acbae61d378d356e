CONSTANTS
  Instances = {i1, i2}
  Stops = {s1}
  Nobody = Nobody
SPECIFICATION Spec
INVARIANTS
  TypeOK
PROPERTIES
  SignalsHitApp
  TermedDies
CHECK_DEADLOCK FALSE
