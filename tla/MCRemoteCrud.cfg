CONSTANTS
  Calls = {c1, c2}
  Names = {flathub, beta}
  Configs <- MCConfigs
  Files <- MCFiles
  Unusable = Unusable
  Library <- MCLibrary
  RemoteRefs <- MCRemoteRefs
  Keyfile <- MCKeyfile
SPECIFICATION Spec
INVARIANTS
  TypeOK
  FailureChangesNothing
  
PROPERTIES
  
  EveryCallSettles
CHECK_DEADLOCK FALSE
