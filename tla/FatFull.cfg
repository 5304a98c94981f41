SPECIFICATION Spec
CONSTANTS
  block_size = 512
  num_blocks = 128
  abc = abc
  Name <- OneName
  Parents <- AllParents
  Offsets <- OneOffset
  MaxMade = 7
  MaxOverrun = 1
  MaxLen = 82
INVARIANTS
  ExampleKept
  DataKept
PROPERTIES
  MkdirListed
