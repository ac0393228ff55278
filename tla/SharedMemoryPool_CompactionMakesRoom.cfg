SPECIFICATION Spec
CONSTANTS
  kBlockCount = 4
  kBlockSize = 2
  d1 = d1
  d2 = d2
  desc1 = desc1
  desc2 = desc2
  Data = {d1}
  Sizes = {0, 1, 2, 4}
  NoData = NoData
  Descriptions = {desc1}
  NoDescription = NoDescription
  MaxId = 3
PROPERTY CompactionMakesRoom
