SPECIFICATION FairLiveSpec
CONSTANTS
  Records = {1, 2, 3}
  Passes <- MCPasses
  Capacity = 2
  MinLink = 1
  RequirePayable = TRUE
  CreateFails = TRUE
  AnswersLost = TRUE
  Repeats = FALSE
  MaxCrashes = 1
INVARIANTS
  LiveBudgetHeld
  LargestAreFunded
  NothingSpentInVain
  LiveMeansALink
  SessionNamesEveryLink
PROPERTY LiveRunEnds
CHECK_DEADLOCK FALSE
