CONSTANTS
  Items = {i1, i2, i3}
  Stoppers = {s1, s2}
  NoItem = NoItem
SPECIFICATION Spec
INVARIANTS
  TypeOK
  NoLostWakeup
  DrainedOnReturn
PROPERTIES
  ServiceSpec
  StopReturns
CHECK_DEADLOCK FALSE
