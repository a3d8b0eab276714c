SPECIFICATION PullsSpec
CONSTANTS
  m1 = m1
  m2 = m2
  m3 = m3
  Names <- MCNames
  KeepFinished = 1
  MaxStarts = 5
  MaxProgress = 1
SYMMETRY Symmetry
INVARIANT
  PullsInv
PROPERTIES
  InOrder
  JobsAreSafe
