SPECIFICATION FairSpec
CONSTANTS
  k1 = k1
  k2 = k2
  c1 = c1
  c2 = c2
  Keys = {k1, k2}
  Callers = {c1, c2}
  Serves <- Shared
  Limit = 2
  Second = 2
  Window = 2
  LocalMaxKeys = 1
INVARIANTS
  TypeOK
  RetryAfterIsNearlyEnough
PROPERTIES
  NeverLockedOut
CHECK_DEADLOCK FALSE
