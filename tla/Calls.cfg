SPECIFICATION Spec
CONSTANTS
  MaxCalls = 2
  MAX_CALL_IDX = 31
  MaxIncoming = 1
  MaxDrops = 0
  MaxRx = 1
  Options <- MCConference
INVARIANTS CountsExact NoDanglingCall OneMaster
PROPERTIES OnlyOrigClashes
CHECK_DEADLOCK FALSE
