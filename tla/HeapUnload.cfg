\* Programs that allocate, dispose, reset and end, in any order.
CONSTANTS
  MemSize = 7
  Mods = {1, 2}
  Sizes = {0, 2}
  Disposals <- AllAddresses
  Limits <- HalfAndWhole
  StackTops = {0, 3}
SPECIFICATION FairSpec
INVARIANTS TypeOK Tiling Disjoint
PROPERTIES AllocatorSpec OthersUntouched FreeAllFreesAll FreeReturns
\* le_error(1, ...) ends the process.
CHECK_DEADLOCK FALSE
