\* Small requests only, so that every free chunk met by a search fits.
SPECIFICATION ConcurrentSpec
CONSTANTS
  NumBuckets = 4
  HeapLimit = 600
  Requests = {8}
  AlignedRequests = {8}
  Alignments = {32}
  MaxBlocks = 3
INVARIANT
  FreeListsExact
