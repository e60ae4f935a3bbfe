SPECIFICATION ScoredSpec
CONSTANTS
  WaitReview = 2
  MessageReview = 3
  PhoneReview = 5
  ReviewNever = 100
  Phrases <- MCPhrases
  Resolve <- MCResolve
  MaxContacts = 2
  ContactWindow = 6
  ContactSpacing = 3
  MaxLinks = 1
  EscalationThreshold = 1
  LinkBudget = 1
  Scenario = "pair"
  Arm = "AGENT"
  Horizon = 7
  ResponseDelay = 2
  NumInvoices <- MCNumInvoices
  Payer <- MCPayer
  Group <- MCGroup
  Amount <- MCAmount
  TextDispute = {}
  PhrasesOf <- MCPhrasesOf
  ResponseKinds = {"NO_RESPONSE", "REPLIED", "PROMISED", "PAID_PARTIAL", "DISPUTE_RAISED", "COMPLAINT"}
  SpontaneousKinds = {"PAID_FULL"}
  Drafts = {"none", "P", "S"}
  MinGroupInvoices = 3
  MinGroupPayers = 3
  MaxAttempts = 3
  LinkAfterAttempts = 1
  ChaseInterval = 3
INVARIANTS
  TypeOK
  NoReviewInFlight
  NoStalePromise
  BooksBalance
  SpacingHeld
  LimitsHeld
  RowsRebuildTheLedger
  ScoreIsTheLedgers
PROPERTIES
  ObjectionsAreKept
  ImplementsReceivable
  QueueIsAttributed
