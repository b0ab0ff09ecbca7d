SPECIFICATION Spec
CONSTANTS
  MaxTurns = 2
  MaxBuilds = 2
  MaxUserActs = 2
INVARIANTS TurnsAreRevertible LabelIsResumable PassedIsOneCommit
CHECK_DEADLOCK FALSE
