SPECIFICATION FairSpec
CONSTANTS
  c1 = c1
  c2 = c2
  c3 = c3
  k1 = k1
  Calls = {c1, c2, c3}
  Warmers = {c3}
  Keys = {k1}
  KeyOf <- OneKey
  MaxInFlight = 2
  BreakerFails = 2
INVARIANTS
  SlotsMatchGoroutines
  TripIsUnderWay
PROPERTIES
  SlotsReturned
  AcquireIsLockFree
  OutageTripsBreaker
CHECK_DEADLOCK FALSE
