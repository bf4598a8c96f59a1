SPECIFICATION FairSpec
CONSTANTS
  c1 = c1
  c2 = c2
  Callers = {c1, c2}
  Quota = 2
  Reserve = 2
PROPERTIES
  RefusalsEnd
CHECK_DEADLOCK FALSE
