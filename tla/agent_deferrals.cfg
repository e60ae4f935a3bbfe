SPECIFICATION FairSpec
CONSTANTS
  WaitReview = 2
  MessageReview = 3
  PhoneReview = 5
  ReviewNever = 100
  Phrases <- MCPhrases
  Resolve <- MCResolve
  MaxContacts = 2
  ContactWindow = 6
  ContactSpacing = 4
  MaxLinks = 2
  EscalationThreshold = 2
  LinkBudget = 2
  Scenario = "single"
  Arm = "AGENT"
  Horizon = 9
  ResponseDelay = 2
  NumInvoices <- MCNumInvoices
  Payer <- MCPayer
  Group <- MCGroup
  Amount <- MCAmount
  TextDispute = {}
  PhrasesOf <- MCPhrasesOf
  ResponseKinds = {"NO_RESPONSE", "PROMISED", "DISPUTE_RAISED"}
  SpontaneousKinds = {"PAID_FULL"}
  Drafts = {"none", "P", "S"}
  MinGroupInvoices = 3
  MinGroupPayers = 3
  MaxAttempts = 3
  LinkAfterAttempts = 1
  ChaseInterval = 3
PROPERTIES
  DeferralsReturn
