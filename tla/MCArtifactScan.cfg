SPECIFICATION FairSpec
CONSTANTS
  k1 = k1
  k2 = k2
  w1 = w1
  w2 = w2
  web = web
  Keys = {k1, k2}
  Workers = {w1, w2}
  OnceWorkers = {w2}
  Web = web
  Skew <- OneFastClock
  LeaseDuration = 3
  AttemptTimeout = 1
  StoreTime = 0
  RetryDelay = 1
  MaxAttempts = 2
  Batch = 1
INVARIANTS
  TypeOK
  OneLeaseHolder
  EvidenceFromLastAttempt
  ExhaustedOnlyAfterLastAttempt
  HealthyAttemptKeepsLease
PROPERTIES
  ImplementsJobs
  EveryJobSettles
  OnceEnds
