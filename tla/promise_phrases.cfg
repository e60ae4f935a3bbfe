SPECIFICATION PromiseSpec
CONSTANTS
  SomePhrases <- MCPhrases
  Starts <- MCStarts
  Window = 111
INVARIANTS
  DeadlineIsAhead
  NearestFit
