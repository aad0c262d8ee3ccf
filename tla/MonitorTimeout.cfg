SPECIFICATION FairClockSpec
CONSTANTS
  CmdTimeout = 2
  IdleTimeout = 5
  MaxLag = 1
  MaxUrcs = 2
INVARIANT TimeoutInTime
PROPERTY SilenceDetected
