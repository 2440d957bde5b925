CONSTANTS
  FileSize = 2
  AckLimit = 1
  HistStatuses = {"NO_ERROR"}
  Reliable = TRUE
  Keep = FALSE
  CmdTx = TRUE
  MoveDir = FALSE
  FailDir = FALSE
  CloseReq = FALSE
  TxChunks = 2
  RxChunks = 2
  CrcPerWakeup = 1
  RxLists = {{}}
  Faulty = FALSE
  Congested = FALSE
  Commands = {}
  MaxCommands = 0
  MaxRx = 1
SPECIFICATION Spec
INVARIANTS
  TypeOK
  EofFollowsAllData
  SuccessMeansDelivered
CHECK_DEADLOCK FALSE
