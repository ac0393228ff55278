SPECIFICATION Spec
CONSTANTS
  kBlockCount = 3
  kBlockSize = 2
  Data = {d1}
  NoData = NoData
  Descriptions = {x1}
  NoDescription = NoDescription
  Sizes = {1, 2}
  MaxId = 2
  Writers = {w1, w2}
  Readers = {}
INVARIANT MemoriesAreDisjoint
