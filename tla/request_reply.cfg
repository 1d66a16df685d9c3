SPECIFICATION FairSpec
CHECK_DEADLOCK FALSE
CONSTANTS
  k1 = k1
  k2 = k2
  Callers <- MCCallers
  Confs <- MCConfs
  MaxCalls = 2
  MaxFaults = 2
INVARIANTS
  TypeOK
  OwnReply
  LinuxReleasesHandles
PROPERTIES
  KeepsCalls
  CallsReturn
