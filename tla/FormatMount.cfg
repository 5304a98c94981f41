SPECIFICATION FormatMountSpec
CONSTANTS
  block_size = 512
  NumBlocks <- Sizes
  MAGIC_NUMBER = 777
  num_blocks = 16
  abc = abc
  xyz = xyz
  pqr = pqr
  Name <- ThreeNames
  Parents <- RootOnly
  Offsets <- OneOffset
  MaxMade = 3
  MaxOverrun = 0
  MaxLen = 82
INVARIANTS
  TableCorrect
  SizeKept
  Handover
PROPERTIES
  TreeByLookup
  TreeByReaddir
  MountIsExample
CHECK_DEADLOCK FALSE
