SPECIFICATION FairSpec
CONSTANTS
  Shell = {tests, lint}
  Judge = {readable}
  HardFail = {tests, readable}
  Weight <- MCWeight
  Whole <- MCWhole
  Scale = 2
  Threshold = 1
  Codes = {v1, v2}
  Litter = {clean, dirty}
  Nothing = Nothing
INVARIANTS MemoIsHonest ShellBeforeJudge PassIsWhole
PROPERTIES UnchangedIsFree RoundsEnd
CHECK_DEADLOCK FALSE
