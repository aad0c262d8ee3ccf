SPECIFICATION FairSpec
CONSTANTS
  Cpvt = {c1}
  SysChan = sys
  Scripts <- MCScripts
  InitScript <- MCInit
  PingScript <- MCPing
  MaxTasks = 4
  EarlyUser = FALSE
  LateAnswers = FALSE
INVARIANTS TypeOK SentOnlyAtHead ResultOwned AnswerPending NoStall CpvtAlive
PROPERTIES ImplementsSerial EveryTaskLeaves
