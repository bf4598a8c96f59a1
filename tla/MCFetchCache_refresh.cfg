SPECIFICATION Spec
CONSTANTS
  i1 = i1
  c1 = c1
  c2 = c2
  Instances = {i1}
  Callers = {c1, c2}
  On <- OneInstance
  Refreshers = {c1}
  MaxVersion = 2
PROPERTIES
  RefreshReachesOrigin
CHECK_DEADLOCK FALSE
