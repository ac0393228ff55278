SPECIFICATION Spec
CONSTANTS
  MaxDescription = 3
  MaxContent = 4
  MaxFirst = 2
  MaxSecond = 3
  ByteValues = 2
  MaxData = 5
  Base = 2
  MinLength = 5
  MaxCounter = 80
  MaxLive = 2
INVARIANTS PlainTextsAreTaken TextsArrive NothingIsCut NextTextIsFresh
CHECK_DEADLOCK FALSE
