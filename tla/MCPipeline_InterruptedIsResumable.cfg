SPECIFICATION Spec
CONSTANTS
  Ceiling = 5
  Costs <- MCCosts
  MaxCost = 2
  MaxTurns = 1
  MaxRepairs = 1
  MaxRejects = 1
  MaxLaunches = 2
  Commands <- InOrder
  BuildFailures <- MCFailures
INVARIANT InterruptedIsResumable
CHECK_DEADLOCK FALSE
