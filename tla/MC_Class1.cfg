CONSTANTS
  FileSize = 2
  AckLimit = 1
  HistStatuses = {"NO_ERROR"}
  Reliable = FALSE
  Keep = FALSE
  CmdTx = TRUE
  MoveDir = FALSE
  FailDir = FALSE
  CloseReq = TRUE
  TxChunks = 2
  RxChunks = 2
  CrcPerWakeup = 1
  RxLists = {{}, {0, 1}}
  Faulty = TRUE
  Congested = FALSE
  Commands = {"cancel"}
  MaxCommands = 1
  MaxRx = 1
SPECIFICATION FairSpec
INVARIANTS
  OnlyIdenticalCopies
PROPERTIES
  TransferEnds
CHECK_DEADLOCK FALSE
