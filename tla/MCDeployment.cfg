CONSTANTS
  Market <- MCMarket
  Amount <- MCAmount
  Target <- MCTarget
  MaxContracts = 5
  MaxRuns = 4
  MaxInterruptions = 2
  MaxRebuilds = 1

SPECIFICATION Spec
CHECK_DEADLOCK FALSE

INVARIANTS
  PublishedPoolsWork
  OneOrphanPerInterruption
  IndexerStartsInTime
PROPERTIES
  PassedDeploymentWorks
  FailsOnlyWhenStuck
