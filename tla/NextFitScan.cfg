SPECIFICATION ScanSpec
CONSTANTS
  kBlockCount = 6
  kBlockSize = 2
  Data = {}
  Sizes = {}
  NoData = NoData
  Descriptions = {}
  NoDescription = NoDescription
INVARIANTS TypeOK NothingSkipped ScanFindsFirstFit
PROPERTY ScanTerminates
CHECK_DEADLOCK FALSE
