SPECIFICATION FairSpec
CONSTANTS
  Procs = {p1, p2}
  Tasks = {idea, rejected}
  MaxAttempts = 3
  MaxUsd = 1
  MaxCost = 1
  MaxNotes = 1
  MaxStarts = 2
  Nothing = Nothing
  Bad = Bad
INVARIANTS SpendBound
PROPERTIES ContractKept AskedAgainIsFree PhaseEnds
CHECK_DEADLOCK FALSE
