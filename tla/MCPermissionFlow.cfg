CONSTANTS
  Launches = {c1, c2}
  NumPermissions = 2
  Devices = {2}
  SharedDevices = {}
  MaxDisturbances = 1
  ListenerMayLeave = FALSE
SPECIFICATION Spec
INVARIANTS
  TypeOK
PROPERTIES
  AnswersDecide
  RemovalIsClean
  LaunchSettles
CHECK_DEADLOCK FALSE
