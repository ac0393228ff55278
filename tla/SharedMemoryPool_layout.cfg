SPECIFICATION Spec
CONSTANTS
  kBlockCount = 5
  kBlockSize = 2
  d1 = d1
  d2 = d2
  desc1 = desc1
  desc2 = desc2
  Data = {d1, d2}
  Sizes = {0, 1, 4}
  NoData = NoData
  Descriptions = {desc1}
  NoDescription = NoDescription
  MaxId = 3
INVARIANTS TypeOK BlocksBelongToTheirMemory NoBlockLeaks FreeCountExact OneDescription NextIdIsFresh
  ReportsAgree AdviceIsRight
PROPERTIES CompactLeavesOneRun ImplementsStore OnlyLackOfBlocksRefuses
SYMMETRY Symmetry
