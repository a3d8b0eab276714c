SPECIFICATION Spec
CONSTANTS
  r1 = r1
  r2 = r2
  r3 = r3
  Requests <- MCRequests
  Rpm = 2
  Rpd = 3
  TokensPerDay = 2
  TokensPerMonth = 5
  NoLimit = NoLimit
  Window = 3
  Second = 2
  DayLength = 3
  DaysPerMonth = 2
  TokenUse <- MCTokenUse
  MaxTime = 7
  MaxRestarts = 1
SYMMETRY Symmetric
INVARIANTS
  LimitsInv
  RetryAfterIsEnough
  TokenOvershoot
