SPECIFICATION FairSpec
CHECK_DEADLOCK FALSE
CONSTANTS
  plain = plain
  request = request
  hidden = hidden
  c1 = c1
  c2 = c2
  NoMsg = NoMsg
  Consumers <- MCConsumers
  Msgs <- MCMsgs
  Selected <- MCSelected
  WantsReply <- MCWantsReply
  Fickle = {}
  Poison = {}
  MaxFaults = 1
PROPERTY
  LostConnectionEndsConsumers
