CONSTANTS
  a = a
  b = b
  c = c
  Services = {"default", "poolId"}
  Leaves = {a, b, c}
  Capacity = 2
  Seeded <- MCSeeded
  ConsoleRosters <- MCConsoleRosters
  MaxRequests = 2
  MaxConsole = 0
  MaxCrashes = 0

SPECIFICATION FairSpec
CHECK_DEADLOCK FALSE

INVARIANTS
  ResponseMatchesCommittedEpoch
