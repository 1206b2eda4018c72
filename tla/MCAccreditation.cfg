CONSTANTS
  a = a
  b = b
  c = c
  Services = {"default"}
  Leaves = {a, b, c}
  Capacity = 2
  Seeded <- MCSeeded
  ConsoleRosters <- MCConsoleRosters
  MaxRequests = 3
  MaxConsole = 1
  MaxCrashes = 1

SPECIFICATION FairSpec
CHECK_DEADLOCK FALSE

INVARIANTS
  TypeOK
  AcknowledgedStaysFiled
  ReplyFollowsOwnCommit
  FileWasCommitted

PROPERTIES
  CommitKeepsAcknowledged
  EveryRequestIsAnswered
