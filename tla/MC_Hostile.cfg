CONSTANTS
  FileSize = 1
  AckLimit = 1
  HistStatuses = {"NO_ERROR"}
  Reliable = TRUE
  Keep = FALSE
  CmdTx = FALSE
  MoveDir = FALSE
  FailDir = TRUE
  CloseReq = FALSE
  TxChunks = 2
  RxChunks = 2
  CrcPerWakeup = 1
  RxLists = {{}}
  Faulty = TRUE
  Congested = TRUE
  Commands = {}
  MaxCommands = 0
  MaxRx = 1
SPECIFICATION Spec
INVARIANTS
  SourceGoneOnlyIfDelivered
  RetainedFinIsTrue
  CompleteMeansWritten
  NothingLeftBehind
CHECK_DEADLOCK FALSE
