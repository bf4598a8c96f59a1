SPECIFICATION FairSpec
CONSTANTS
  i1 = i1
  c1 = c1
  c2 = c2
  Instances = {i1}
  Callers = {c1, c2}
  On <- OneInstance
  Refreshers = {c1}
  MaxVersion = 2
INVARIANTS
  OneFlight
PROPERTIES
  UndisturbedRefreshIsCurrent
  EveryCallReturns
  StaleDoesNotLast
CHECK_DEADLOCK FALSE
