SPECIFICATION OfflineSpec
CONSTANTS
  WaitReview = 8
  MessageReview = 12
  PhoneReview = 18
  ReviewNever = 1000000000
  Phrases <- MCPhrases
  Resolve <- MCResolve
  MaxContacts = 4
  ContactWindow = 120
  ContactSpacing = 12
  MaxLinks = 3
  EscalationThreshold = 1
  LinkBudget <- NoBudget
  Arm = "AGENT"
  Horizon = 112
  ResponseDelay = 2
  NumInvoices = 4
  Payer <- MCPayer
  Group <- MCGroup
  Amount <- MCAmount
  TextDispute = {4}
  PhrasesOf <- MCPhrasesOf
  ResponseKinds = {"NO_RESPONSE", "PROMISED", "DISPUTE_RAISED"}
  SpontaneousKinds = {}
  Drafts = {"none", "S"}
  MinGroupInvoices = 3
  MinGroupPayers = 3
  MaxAttempts = 5
  LinkAfterAttempts = 2
  ChaseInterval = 12
  DueDay <- MCDueDay
  LadderAttempts = 6
  MinCandidateRecords = 3
  MinCandidatePayers = 3
  GroupOrder <- MCGroupOrder
INVARIANTS
  FrequencyHeld
  GroupHeld
  NothingGivenUp
  PutOffOnlyWhenSpent
