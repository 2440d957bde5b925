CONSTANTS
  Nodes = {n1, n2, n3, n4}
  Queues = {tx, free}
  ChunkLists = {cs}
  Null = Null
SPECIFICATION Spec
INVARIANT ListsAreRings
PROPERTY ImplementsQueues
