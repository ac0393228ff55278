SPECIFICATION FairSessionSpec
CONSTANTS
  MaxCalls = 3
  MaxLinks = 2
INVARIANTS AnswersMatchInStep
PROPERTIES CallsReturn
CHECK_DEADLOCK FALSE
