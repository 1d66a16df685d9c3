SPECIFICATION FairSpec
CHECK_DEADLOCK FALSE
CONSTANTS
  k1 = k1
  k2 = k2
  c1 = c1
  c2 = c2
  NoMsg = NoMsg
  Callers <- MCCallers
  TextCallers <- MCText
  MaxCalls = 1
  Confs <- MCConfs
  Consumers <- MCConsumers
  Poison <- MCPoison
  MaxFaults = 1
  MaxCallFaults = 1
INVARIANTS
  TypeOK
  RoutedOnce
  LateRepliesAccepted
PROPERTIES
  ServesCalls
  AnswersRequests
  PostsEnd
  PatienceRewarded
