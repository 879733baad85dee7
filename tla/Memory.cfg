\* Allocators of eight frames, the second one created on demand; a kernel heap of
\* four buckets with requests below the minimum and rounded up; a user heap of
\* pages of twelve words; two address spaces with tables of two entries, so
\* sixteen pages, of sixteen bytes, the kernel's from the middle on.
SPECIFICATION MCSpec
CONSTANTS
  MaxOrder = 3
  MaxAllocators = 2
  MaxFrames = 5
  NumBuckets = 4
  HeapLimit = 600
  KernelRequests = {7, 33}
  AlignedRequests = {33}
  Alignments = {32}
  MaxBlocks = 3
  FourKb = 12
  MaxPages = 3
  Requests = {1, 3, 8}
  MaxOps = 5
  Slots = {1, 2, 3}
  Entries = 2
  FourKB = 16
  WordSize = 2
  KernelVMStart = 8
  KernelPages = 4
  StackTop = 112
  StackLimit = 32
  HeapStart = 3
  Processes = {p1, p2}
  Kernel = kernel
  Frames = {20, 21, 22, 23}
  Regions <- MCRegions
  LowPages = {0}
  Programs <- MCPrograms
  FaultAddrs = {16, 18, 36, 90, 130}
  WriteAddrs = {35, 100}
  MaxSbrk = 2
  Users = {u1, u2}
  Kernels = {k1}
SYMMETRY Symmetry
INVARIANTS
  FramesAccounted
  ChunksSound
  FreeListsExact
  HeapAndDataKept
  ImageShown
  ArgvReadable
  RunsAlone
PROPERTY ImplementsAddressSpaces
\* Programs may end.
CHECK_DEADLOCK FALSE
