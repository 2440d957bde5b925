SPECIFICATION Spec
CONSTANTS
  NumChannels = 2
  NumPolldirs = 1
  NumTxns = 2
  ChunkLimit = 300
  MaxFiles = 1
  Peers = {5}
  Keys = {"invalid", "outgoing_file_chunk_size", "ack_limit", "local_eid"}
  ParamValues = {0, 256, 1000}
  WordModulus = 1073741824
  Codes = {"NOOP", "RESET", "TX_FILE", "PLAYBACK_DIR", "FREEZE", "THAW", "SUSPEND", "RESUME",
           "CANCEL", "ABANDON", "SET_PARAM", "GET_PARAM", "WRITE_QUEUE", "ENABLE_DEQUEUE",
           "DISABLE_DEQUEUE", "ENABLE_DIR_POLLING", "DISABLE_DIR_POLLING", "PURGE_QUEUE",
           "ENABLE_ENGINE", "DISABLE_ENGINE"}
  MaxGiven = 4
CHECK_DEADLOCK FALSE
INVARIANTS
  TypeOK
  PipesMatch
  KeysAreUnique
PROPERTIES
  AllOrNothing
  OnlyNamedTransactions
  FrozenOnlyReceives
