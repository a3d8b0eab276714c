SPECIFICATION HSpec
CONSTANTS
  r1 = r1
  r2 = r2
  r3 = r3
  r4 = r4
  Requests <- MCRequests
  Priorities <- MCPriorities
  MaxConcurrency = 1
  MaxQueue = 2
  HasTimeout = TRUE
INVARIANTS
  FairInv
PROPERTIES
  ServesBestFirst
  TopPriorityServed
