CONSTANTS
  MaxChunks = 3
  MaxOffset = 8
SPECIFICATION Spec
INVARIANTS
  SortedApart
  GapsAreMissingBytes
PROPERTY ImplementsByteSet
