SPECIFICATION Spec
CONSTANTS
  MaxTurns = 6
  MaxUsd = 9
  Costs <- MCCosts
  MaxCost = 2
  MaxCalls = 2
  HasRubric = TRUE
  Scale = 3
  Threshold = 3
  Epsilon = 2
  StallRounds = 2
  KeepTurns = 1
INVARIANTS TranscriptIsValid RecentIsVerbatim UsdBound StalledIsSound StallIsCaught
CHECK_DEADLOCK FALSE
