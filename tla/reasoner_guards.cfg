SPECIFICATION ReasonerSpec
CONSTANTS
  Inputs = {"a", "b"}
  Answers = {"wait", "remind"}
  FallbackOf <- MCFallbackOf
  Contracts = {"old", "new"}
  FailureLimit = 2
  MaxCalls = 3
  MaxRestarts = 2
INVARIANTS
  OnlyTheModelIsCached
  SpendIsCapped
PROPERTY AnswersRepeat
