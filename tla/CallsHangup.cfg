SPECIFICATION FairSpec
CONSTANTS
  MaxCalls = 2
  MAX_CALL_IDX = 31
  MaxIncoming = 0
  MaxDrops = 0
  MaxRx = 1
  Options <- MCPlain
PROPERTY HangupEndsCall
CHECK_DEADLOCK FALSE
