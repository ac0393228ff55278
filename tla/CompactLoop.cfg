SPECIFICATION Spec
CONSTANTS
  kBlockCount = 6
  kBlockSize = 2
  CompactIds = {1, 2, 3}
  Data = {1, 2, 3}
  Sizes = {2, 4, 6, 8, 10, 12}
  NoData = 0
  Descriptions = {1, 2, 3}
  NoDescription = 0
INVARIANTS NoBlockLost BitsConserved LoopComputesCompact
PROPERTY LoopTerminates
CHECK_DEADLOCK FALSE
