SPECIFICATION Spec
CONSTANTS
  kBlockCount = 2
  kBlockSize = 2
  Data = {d1}
  NoData = NoData
  Descriptions = {x1}
  NoDescription = NoDescription
  Sizes = {1, 5}
  Handles = {h1}
  NULL = NULL
  MaxId = 2
  Callers = {t1, t2}
INVARIANTS PoolsAreConsistent MemoriesAreReachable
SYMMETRY Symmetry
VIEW View
