SPECIFICATION ToolsSpec
CONSTANTS
  Urls = {u1, u2}
  Calls = {c1}
  Cap = 3
  MaxStarts = 3
INVARIANTS WordsHold QuestionsBounded FilesAreWhole
PROPERTY CallReturns
