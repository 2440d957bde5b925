CONSTANTS
  EntityIds = {255, 256, 65536}
  SeqNums = {1, 65536}
  MaxSegments = 2
  MaxTlv = 2
  Radix = 8
  MaxPduSize = 41
  MaxFilename = 4
  NameLengths = {0, 3, 4}
  Codes = {0, 15}
  FileLength = 27
  ChunkSizes = {10, 40}
  CrcSizes = {1, 4, 6}
  CutSizes = {1, 6, 14}
  Junk = 170
SPECIFICATION Spec
INVARIANTS
  MessagesAreWhole
  ChecksumsAgree
PROPERTIES
  RoundTrip
  CutNeverForges
CHECK_DEADLOCK FALSE
