SPECIFICATION FairSpec
CHECK_DEADLOCK FALSE
CONSTANTS
  top = top
  other = other
  sub = sub
  i1 = i1
  Instances <- MCInstances
  Files <- MCFiles
  SubFiles <- MCSubFiles
  Matching <- MCMatching
  BaseName <- MCBaseName
  Slots = 1
  CheckSubfolders = TRUE
  ProcessExisting = FALSE
  HasOutput = TRUE
  Producer = "fresh"
  MaxVersion = 2
  MaxFaults = 2
INVARIANTS
  TypeOK
  RedeliveryExcused
  LiveLocksKept
PROPERTIES
  ScanEnds
  StopEndsPolling
