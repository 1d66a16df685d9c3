SPECIFICATION Spec
CHECK_DEADLOCK FALSE
CONSTANTS
  a = a
  b = b
  i1 = i1
  i2 = i2
  Instances <- MCInstances
  Files <- MCFiles
  SubFiles = {}
  Matching <- MCFiles
  BaseName <- MCBaseName
  Slots = 4
  CheckSubfolders = FALSE
  ProcessExisting = TRUE
  HasOutput = TRUE
  Producer = "once"
  MaxVersion = 1
  MaxFaults = 0
INVARIANT
  MutualExclusion
