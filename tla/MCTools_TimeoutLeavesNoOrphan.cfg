SPECIFICATION ToolsSpec
CONSTANTS
  Urls = {u1, u2}
  Calls = {c1}
  Cap = 3
  MaxStarts = 3
INVARIANT TimeoutLeavesNoOrphan
CHECK_DEADLOCK FALSE
