SPECIFICATION AccessSpec
CONSTANTS
  a1 = a1
  a2 = a2
  a3 = a3
  k1 = k1
  None = None
  Addresses <- MCAddresses
  Ids <- MCIds
  MaxFailures = 2
  Window = 3
  MaxTracked = 2
  Second = 2
  TouchEvery = 2
  Top = 2
  MaxTime = 3
  MaxRestarts = 1
CHECK_DEADLOCK FALSE
SYMMETRY Symmetric
INVARIANTS
  ThrottleInv
  KeysInv
