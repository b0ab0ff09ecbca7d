SPECIFICATION Spec
CONSTANTS
  Dirs <- MCDirs
  Home = "home"
  MaxRuns = 2
  MaxTurns = 1
  MaxRejects = 1
INVARIANTS OneRunAtATime ArtifactsInOrder OfferHolds
PROPERTIES QuietWhileRunning OutlivesThePrompt PromptReturns
