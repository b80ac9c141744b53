CONSTANTS
  None = None
  RamStart = 1
  RamEnds = {1, 3, 6, 10}
  Kinds <- BlockKinds
  Size <- BlockSize
  WordSize = 2
  NonceLen = 3
  SeedSizes = {1, 3, 4}
  Words = {1, 2, 3, 4, 5, 6}
SPECIFICATION FairSpec
INVARIANTS TypeOK SeedGenuine NonceFresh SessionSound HeapSteady OutOfStack
PROPERTIES SessionsResume
