SPECIFICATION FairSpec
CHECK_DEADLOCK FALSE
CONSTANTS
  p1 = p1
  p2 = p2
  t1 = t1
  v1 = v1
  v2 = v2
  m1 = m1
  NoSecret = NoSecret
  Bridges <- MCBridges
  Tools <- MCTools
  Values <- MCValues
  Prefix <- MCPrefix
  Conflicts <- MCConflicts
  Names <- MCNames
  Configs <- MCConfigs
  Msgs <- MCMsgs
  MaxFaults = 1
INVARIANTS
  TypeOK
  SecretsReadable
  WorkOnlyWhenReady
  HealthyMeansComplete
PROPERTIES
  SomeoneServes
  MessagesGetThrough
