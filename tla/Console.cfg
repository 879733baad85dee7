\* The keyboard below the length of its ring, two writers to the terminal, and the
\* file system with three operations and a power failure on a large file.
SPECIFICATION MCSpec
CONSTANTS
  Keys = {"x", "y", "ENTER", "LSHIFT", "BACKSPACE"}
  Meaning <- Shell
  CharWhenShiftPressed <- UpperCase
  Dirs <- DirNames
  kKeyStrokeBufferSize = 5
  MaxStrokes = 4
  Writers = {w1, w2}
  Messages <- Bytes
  kTerminalOutputBufferSize = 4
  MaxBytes = 3
  height_ = 3
  width_ = 2
  BlockSize = 3
  Direct = 5
  BlocksPerGroup = 23
  InodesPerGroup = 4
  Groups = {0, 1}
  Image <- DiskImage
  Reserved <- Tables
  NoName <- Empty
  Dot <- This
  DotDot <- Up
  Paths <- PathsMC
  Data <- DataMC
  Offsets = {0, 4, 33}
  ReadLengths = {4, 7}
  MaxSize = 45
  MaxOps = 3
  MaxCrashes = 1
  CrossLevels = FALSE
INVARIANTS
  TypedIsDone
  PrintsReserved
  
  FilesConsistent
PROPERTY ImplementsFileStore
\* The bounds on strokes and bytes stop it.
CHECK_DEADLOCK FALSE
