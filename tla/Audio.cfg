SPECIFICATION Spec
CONSTANTS
  MaxCalls = 2
  MAX_CALL_IDX = 31
  Size = 4
  FRAME = 2
  Sample <- MCSample
  Voice <- MCVoice
  txgain = 0
  MaxWrites = 4
INVARIANTS StreamsLive FrameWhole
PROPERTY ImplementsMixer
CHECK_DEADLOCK FALSE
