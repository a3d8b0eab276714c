SPECIFICATION FairSpec
CONSTANTS
  r1 = r1
  Requests <- MCRequests
  Eager <- MCRequests
  MaxConcurrency = 1
  MaxPolls = 2
INVARIANT
  NodeInv
PROPERTIES
  AsksOnlyIdle
  EveryRequestEnds
  WakeEnds
