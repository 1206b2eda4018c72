CONSTANTS
  self = self
  again = again
  row = row
  unknown = unknown
  ZeroLeaf = ZeroLeaf
  Callers = {"subscribe", "commit", "advance"}
  Accounts = {"one", "two", "issuer"}
  Issuer = "issuer"
  Investors = {"one", "two"}
  FirstSelected = "one"
  NoAddress = NoAddress
  NoPage = NoPage
  NoTx = NoTx
  Seeded <- MCSeeded
  NoPackage = NoPackage
  NoAmount = NoAmount
  Budgets <- MCBudgets
  MaxPolls = 1
  MaxEpoch = 3
  Csvs <- MCCsvs
  Unknown = unknown
  Amounts = {1, 2}
  DefaultAmount = 2
  PoolCap = 2
  Cap <- MCCap
  Generated <- MCGenerated
  NoProof = NoProof
  NoResult = NoResult
  Published <- MCPublished

SPECIFICATION FairSpec
CHECK_DEADLOCK FALSE

INVARIANTS
  TypeOK
  PackagesProve
  NotPaidTwice
  ConfirmedIsApplied
  CommittedEpochIsOfTheTree
  VerdictIsOnThePaid
PROPERTIES
  ProofArrivesForItsAmount
  StaleOnlyByPackage
  SignedSubmissionEnds
