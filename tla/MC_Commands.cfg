CONSTANTS
  FileSize = 1
  AckLimit = 1
  HistStatuses = {"NO_ERROR"}
  Reliable = TRUE
  Keep = FALSE
  CmdTx = TRUE
  MoveDir = TRUE
  FailDir = FALSE
  CloseReq = FALSE
  TxChunks = 2
  RxChunks = 2
  CrcPerWakeup = 1
  RxLists = {{}}
  Faulty = FALSE
  Congested = FALSE
  Commands = {"cancel", "abandon", "suspend", "resume"}
  MaxCommands = 1
  MaxRx = 1
SPECIFICATION Spec
INVARIANTS
  FinsAgree
PROPERTIES
  CancelledLeavesFilesAlone
  ImplementsDelivery
CHECK_DEADLOCK FALSE
