SPECIFICATION FairSpec
CONSTANTS
  Ceiling = 5
  Costs <- MCCosts
  MaxCost = 2
  MaxTurns = 1
  MaxRepairs = 0
  MaxRejects = 1
  MaxLaunches = 2
  Commands <- AllCommands
  BuildFailures <- MCFailures
INVARIANTS PassedMeansWhole BudgetBound WarnedOnce GatedChain
PROPERTIES ChainKept EveryLaunchEnds
CHECK_DEADLOCK FALSE
