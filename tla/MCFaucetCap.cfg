CONSTANTS
  x = x
  y = y
  Addresses = {x, y}
  Amounts = {1, 2}
  Cap = 2
  Cooldown = 2
  MaxTime = 4
  MaxRequests = 2
  MaxCrashes = 0

SPECIFICATION Spec
SYMMETRY Symmetry
CHECK_DEADLOCK FALSE

INVARIANTS
  MintedWithinCap
