SPECIFICATION Spec
CONSTANTS
  kBlockCount = 2
  kBlockSize = 2
  Data = {d1}
  Sizes = {1, 2}
  NoData = NoData
  Descriptions = {desc1}
  NoDescription = NoDescription
  MaxId = 2
INVARIANTS ServedPoolIsConsistent
PROPERTIES LoadedIsTheSave ImplementsDurableStore
