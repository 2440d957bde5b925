CONSTANTS
  NumTxns = 3
  NumHistories = 3
  MaxRx = 1
  MaxCmdTx = 1
  TxnsPerPlayback = 2
  Directories = {1, 2}
  Polls = {}
  Priorities = {0}
  CounterModulus = 65536
  Faulty = FALSE
  Commands = {"playback_dir"}
  MaxCommands = 0
SPECIFICATION FairSpec
PROPERTIES
  PlaybackEnds
