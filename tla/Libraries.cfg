\* Two threads that may both read and write, messages of zero to two bytes and
\* one that is too large; trees of up to five keys; a hash table that begins with
\* four slots, two keys of which collide; lists of three elements; a disk of two
\* groups of sixteen inodes; a buffer of two bytes and memory of five.
SPECIFICATION MCSpec
CONSTANTS
  None = None
  Procs = {p1, p2}
  PipeMaxSize = 2
  Counts = {0, 1, 2}
  MaxWrites = 3
  Keys = {1, 2, 3, 5, 6}
  HashedKeys = {1, 2, 5}
  Values = {1, 2}
  kInitNumSlots = 4
  kInverseLoadFactor = 3
  Elems = {1, 2, 3}
  MaxLen = 4
  InodesPerGroup = 16
  BlockGroups = 2
  Modes = {16877, 33188}
  Sizes = {5}
  MaxWritten = 2
  File <- Lines
  Newline = 0
  Rooms = {0, 1, 2, 3}
  BUF_SIZE = 2
  MaxPut = 5
  MemSize = 5
  PRINTF_NTOA_BUFFER_SIZE = 12
  Widths = {0, 2, 4}
  Precisions = {0, 3}
INVARIANTS
  BufferExclusive
  
  InodesKept
  StreamInOrder
  StringsAsPromised
  ReadsBack
PROPERTIES
  
  ReaderServed
  
  ImplementsSequence
