CONSTANTS
  Processes = {1}
  Contents <- MCContents
  StartLedger = 2
  PageLimit = 2
  QueryWindow = 2
  MaxLag = 1
  MaxLedger = 5

SPECIFICATION Spec
CHECK_DEADLOCK FALSE

INVARIANTS
  TypeOK
  KeptUnlessPassedOver

PROPERTIES
  EventsOnlyGrow
