SPECIFICATION FairSearchSpec
CONSTANTS
  p1 = p1
  p2 = p2
  d1 = d1
  d2 = d2
  Null = Null
  Ports <- MCPorts
  Devices <- MCDevices
  Want <- MCWant
  Modems <- MCModems
  Interval = 2
  AskTime = 1
  MaxSwaps = 1
  MaxSignals = 2
INVARIANTS NoDanglingId IdentityFresh
PROPERTY FoundEventually
