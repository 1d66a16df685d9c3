SPECIFICATION FairSpec
CHECK_DEADLOCK FALSE
CONSTANTS
  a = a
  b = b
  c = c
  NoId = NoId
  Ids <- MCIds
  ProcLists <- MCProcLists
  LinkLists <- MCLinkLists
INVARIANTS
  TypeOK
  ChainRunsAll
  LinkOrder
PROPERTY
  ExecuteReturns
