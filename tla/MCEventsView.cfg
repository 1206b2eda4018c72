CONSTANTS
  Processes = {1}
  Contents <- MCContents
  StartLedger = 2
  PageLimit = 1
  QueryWindow = 2
  MaxLag = 1
  MaxLedger = 4
  MaxRows = 1
  MaxBuilds = 1

SPECIFICATION FairViewSpec
CHECK_DEADLOCK FALSE

INVARIANTS
  AnswerIsComplete
PROPERTIES
  RowStaysUntilIndexed
  OptimisticIsReplaced
