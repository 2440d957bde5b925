CONSTANTS
  NumTxns = 2
  NumHistories = 3
  MaxRx = 1
  MaxCmdTx = 1
  TxnsPerPlayback = 1
  Directories = {}
  Polls = {2}
  Priorities = {0, 1}
  CounterModulus = 65536
  Faulty = TRUE
  Commands = {"tx_file", "playback_dir", "cancel", "abandon", "purge", "engine"}
  MaxCommands = 2
SPECIFICATION Spec
INVARIANTS
  QueuesAgree
  ResourcesConserved
  RxLimit
  CountersCoverUnfinished
PROPERTIES
  HoldIsFinal
  ArrivalOrderKept
