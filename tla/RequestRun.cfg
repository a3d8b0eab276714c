SPECIFICATION FairSpec
CONSTANTS
  r1 = r1
  r2 = r2
  Requests <- MCRequests
  MaxConcurrency = 1
  MaxQueue = 1
  HasNode = TRUE
  MaxChunks = 2
INVARIANT
  RequestInv
PROPERTIES
  KeepsPromise
  EveryRequestOver
