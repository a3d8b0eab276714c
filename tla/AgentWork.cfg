SPECIFICATION FairSpec
CONSTANTS
  m1 = m1
  m2 = m2
  run = run
  q1 = q1
  Names <- MCNames
  Callers <- MCCallers
  Puller = run
  KeepFinished = 1
  MaxStarts = 2
  MaxProgress = 1
  MaxSpawns = 2
INVARIANT
  WorkInv
PROPERTIES
  EveryDownloadEnds
  CallersAnswered
