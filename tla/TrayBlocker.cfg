SPECIFICATION FairBlockerSpec
CONSTANTS
  q1 = q1
  d1 = d1
  c1 = c1
  h1 = h1
  h2 = h2
  None = None
  Requests <- MCRequests
  Downloads <- MCDownloads
  Calls <- MCCalls
  Helpers <- MCHelpers
INVARIANTS
  PowerInv
  BlockerKnown
PROPERTIES
  AlwaysAnswered
  BlockEnds
