CONSTANTS
  I128Max = 3
  i1 = i1
  i2 = i2
  s1 = s1
  s2 = s2
  Investors = {i1, i2}
  Pool = Pool
  Issuer = Issuer
  Deployer = Deployer
  NoIssuer = NoIssuer
  Secrets = {s1, s2}
  ZeroLeaf = ZeroLeaf
  Submissions <- MCSubmissions
  Depths <- MCDepths
  CircuitDepth = 1
  Amounts <- MCAmounts
  Inputs <- MCInputs
  FieldOrder = 11
  Wraps = {0, 1, 2}
  AdmittedWraps = {0, 1}
  U64Max = 3
  U32Max = 2

SPECIFICATION Spec
SYMMETRY Symmetry
CHECK_DEADLOCK FALSE

INVARIANTS
  TypeOK
  OneSettlementPerNullifier
  MarkedIffSettled
  EscrowCoversTotal
  SharesBacked
  SettledWithinCap
  EligibleIsAdmitted
  TallyNeverOverflows

PROPERTIES
  AllOrNothing
  RosterMovesWithEpoch
  ImplementsPromise
