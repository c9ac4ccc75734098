CONSTANTS
  HeapStart = 10704
  HeapEnd = 421888
  Word = 1048576
  Requests = {8, 135000}
  Lengths = {30, 1048575}
  Arrays <- MCArrays
  Batches <- MCBatches
  Aligned <- MCAligned
  Foreign = {20}
  FastSizes = {16}
  MaxBlocks = 4
  MaxCalls = 6
  WarmCalls = 3
SPECIFICATION MCSpec
INVARIANTS HeapConsistent
PROPERTIES BestFit FailsOnlyWhenFull AllocatorSpec
CHECK_DEADLOCK FALSE
