SPECIFICATION MCSpec
CONSTANTS
  None = None
  Procs = {p1}
  PipeMaxSize = 1
  Counts = {1}
  MaxWrites = 1
  Keys = {1, 2, 3}
  HashedKeys = {1}
  Values = {1}
  kInitNumSlots = 4
  kInverseLoadFactor = 3
  Elems = {1}
  MaxLen = 1
  InodesPerGroup = 8
  BlockGroups = 1
  Modes = {16877}
  Sizes = {0}
  MaxWritten = 1
  File <- Lines
  Newline = 0
  Rooms = {1}
  BUF_SIZE = 2
  MaxPut = 2
  MemSize = 2
  PRINTF_NTOA_BUFFER_SIZE = 12
  Widths = {0}
  Precisions = {0}
INVARIANT IterationComplete
