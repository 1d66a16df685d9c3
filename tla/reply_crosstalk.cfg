SPECIFICATION Spec
CHECK_DEADLOCK FALSE
CONSTANTS
  k1 = k1
  k2 = k2
  Callers <- MCCallers
  Confs <- MCNamed
  MaxCalls = 2
  MaxFaults = 0
INVARIANT
  OwnReply
