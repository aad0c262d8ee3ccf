SPECIFICATION Spec
CONSTANTS
  Confs <- MCConfs
  In = {m1}
  Out = {o1}
  Fails <- MCFails
  MaxReg = 1
  MaxLost = 1
  MaxReload = 1
  Numbers <- MCNumbers
  Texts <- MCTexts
  Validities <- MCValidities
  OaRoom = 512
INVARIANTS BeliefsHold  DeliverExact
PROPERTIES  EveryMessageEnds GracefulEnds
CHECK_DEADLOCK FALSE
