SPECIFICATION FairSpec
CONSTANTS
  c1 = c1
  c2 = c2
  Callers = {c1, c2}
  Quota = 10
  Reserve = 7

  
PROPERTIES
  StuckOnlyByOverlap
CHECK_DEADLOCK FALSE
