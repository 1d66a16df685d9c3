SPECIFICATION Spec
CHECK_DEADLOCK FALSE
CONSTANTS
  top = top
  other = other
  sub = sub
  i1 = i1
  Instances <- MCInstances
  Files <- MCFiles
  SubFiles <- MCSubFiles
  Matching <- MCMatching
  BaseName <- MCSameName
  Slots = 1
  CheckSubfolders = TRUE
  ProcessExisting = FALSE
  HasOutput = TRUE
  Producer = "once"
  MaxVersion = 1
  MaxFaults = 0
INVARIANT
  NothingLost
