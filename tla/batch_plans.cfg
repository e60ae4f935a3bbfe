SPECIFICATION GeneratorSpec
CONSTANTS
  Counts <- ManySizes
  Templates <- MCTemplates
  GeneralPool <- MCGeneralPool
  SomeOverdue <- LowOverdue
  SomeTerms <- LowTerms
  SomeLateness <- LowLateness
  SomeGaps = {0}
  MaxPriors = 1
INVARIANTS
  SharesAreFair
  PublishedSizesHold
PROPERTIES
  ClusterRepeatsOnlyWhenSpent
\* A batch written or refused is the end of the run.
CHECK_DEADLOCK FALSE
