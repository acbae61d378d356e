CONSTANTS
  Launches = {l1, l2}
  Refreshes = {r1}
  NoLaunch = NoLaunch
  MaxSleeps = 1
SPECIFICATION Spec
INVARIANTS
  TypeOK
  InstallationOutlivesThreads
  
PROPERTIES
  LaunchServiceSpec
  EveryCallAnswered
CHECK_DEADLOCK FALSE
