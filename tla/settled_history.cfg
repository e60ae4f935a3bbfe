SPECIFICATION GeneratorSpec
CONSTANTS
  Counts = {126}
  Templates <- MCTemplates
  GeneralPool <- MCGeneralPool
  SomeOverdue <- LowOverdue
  SomeTerms <- TermsOf
  SomeLateness <- HighLateness
  SomeGaps = {0}
  MaxPriors = 1
INVARIANTS
  HistoryIsPast
\* A batch written or refused is the end of the run.
CHECK_DEADLOCK FALSE
