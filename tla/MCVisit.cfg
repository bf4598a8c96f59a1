SPECIFICATION Spec
CONSTANTS
  q1 = q1
  q2 = q2
  q3 = q3
  short = short
  r1 = r1
  r2 = r2
  none = none
  m = m
  Queries = {q1, q2, q3}
  Short = short
  Items = {r1, r2}
  NoItem = none
  Hits <- SomeHits
  Matches <- SomeMatches
  CacheMax = 1
  Choices = {m}
  MaxVersion = 2
  MaxPages = 2
INVARIANTS
  ListFollowsInput
  SpinnerHasRequest
  OfferIsForTarget
  ChoiceStands
CHECK_DEADLOCK FALSE
PROPERTIES
  DecisionArrives
