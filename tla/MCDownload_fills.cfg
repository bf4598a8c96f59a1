SPECIFICATION FairSpec
CONSTANTS
  MaxCandidates = 3
  MaxDepth = 3
  MaxNested = 3
  MaxExecutables = 3
  Releases <- StarvedReleases
  PickTargets <- MCPickTargets
  AttrOptions <- MCAttrOptions
  ChoiceOptions <- MCChoices
  Libcs <- MCLibcs
  ProbeBudget = 1
  MaxPlaces = 2
  Modes = {FALSE}
PROPERTIES
  RepeatedRequestsFillIn
