SPECIFICATION Spec
CONSTANTS
  MaxCandidates = 3
  MaxDepth = 3
  MaxNested = 3
  MaxExecutables = 3
  Releases <- MCReleases
  PickTargets <- MCPickTargets
  AttrOptions <- MCAttrOptions
  ChoiceOptions <- MCChoices
  Libcs <- MCLibcs
  ProbeBudget = 1
  MaxPlaces = 2
  Modes = {TRUE, FALSE}
INVARIANTS
  ScanTellsTheMain
  SampleMissesNothing
  ScannedRuns
  BrokenNeverServed
  PinnedOrNothing
  OfferStands
  NotTurnedAway
