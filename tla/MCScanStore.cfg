SPECIFICATION FairSpec
CONSTANTS
  c1 = c1
  c2 = c2
  c3 = c3
  Calls = {c1, c2, c3}
  Settlers = {c3}
  MaxTries = 2
  Nobody = Nobody
INVARIANTS
  TypeOK
  EveryChangeOnce
  BusyMeansOthersWrote
PROPERTIES
  ImplementsAtomicRecord
  CallReturns
CHECK_DEADLOCK FALSE
