SPECIFICATION LogSpec
CONSTANTS
  None = None
  Inputs <- MCInputs
  Matches <- MCMatches
  MaxRev = 3
  MaxToken = 2
  Page = 1
CHECK_DEADLOCK FALSE
INVARIANTS
  PageInv
  EndIsTrue
PROPERTIES
  SessionEnds
