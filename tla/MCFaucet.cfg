CONSTANTS
  x = x
  y = y
  Addresses = {x, y}
  Amounts = {0, 2, 3}
  Cap = 2
  Cooldown = 2
  MaxTime = 4
  MaxRequests = 3
  MaxCrashes = 1

SPECIFICATION Spec
SYMMETRY Symmetry
CHECK_DEADLOCK FALSE

INVARIANTS
  TypeOK

PROPERTIES
  OneGrantPerWindow
  RefusedForAReason
