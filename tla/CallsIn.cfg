SPECIFICATION FairSpec
CONSTANTS
  MaxCalls = 2
  MAX_CALL_IDX = 31
  MaxIncoming = 1
  MaxDrops = 1
  MaxRx = 2
  Options <- MCNone
PROPERTIES  DeclinedFreed
CHECK_DEADLOCK FALSE
