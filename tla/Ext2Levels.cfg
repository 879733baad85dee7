\* One read over the edge between direct and indirect blocks.
SPECIFICATION Spec
CONSTANTS
  BlockSize = 3
  Direct = 5
  BlocksPerGroup = 23
  InodesPerGroup = 4
  Groups = {0, 1}
  Image <- DiskImage
  Reserved <- Tables
  NoName <- Empty
  Dot <- This
  DotDot <- Up
  Paths <- PathsMC
  Data <- DataMC
  Offsets = {0, 4, 33}
  ReadLengths = {4, 7}
  MaxSize = 45
  MaxOps = 1
  MaxCrashes = 1
  CrossLevels = TRUE
INVARIANT
  ReadsAgree
