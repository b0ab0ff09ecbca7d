SPECIFICATION Spec
CONSTANTS
  p1 = p1
  p2 = p2
  Procs = {p1, p2}
  MaxSessions = 2
  MaxEvents = 3
  MaxSignals = 2
  MaxFaults = 1
INVARIANTS AckedSurvives NumbersIncrease HandlersDoNotNest
CHECK_DEADLOCK FALSE
SYMMETRY ProcSymmetry
