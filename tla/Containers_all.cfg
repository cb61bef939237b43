\* Rings of blocks of four sizes, tables of five keys, and some 90,000 arrays.
\* An array that has been sorted is not sorted again.
SPECIFICATION ContainersSpec
CONSTANTS
  MinimumSize = 4
  MinimumInfoBlocks = 2
  Sizes = {1, 2, 3, 5}
  Alignments = {1, 2}
  MaxBlocks = 4
  GrowsWhenEmpty = FALSE
  x1 = x1
  x2 = x2
  x3 = x3
  x4 = x4
  x5 = x5
  TableKeys = {x1, x2, x3, x4, x5}
  HashOf <- MCHashOf
  FirstCapacity = 4
  NoKey = NoKey
  Inputs <- MCInputs
  DepthLimits = {0, 2}
INVARIANTS ContainersTypeOK NoOverlap HandlesValid HeadIsInFirstChunk DrainedIsEmpty
INVARIANTS TableFindsEntries SortedArrayIsInOrder
CHECK_DEADLOCK FALSE
