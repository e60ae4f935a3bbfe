SPECIFICATION SharedSpec
CONSTANTS
  WaitReview = 1
  MessageReview = 2
  PhoneReview = 3
  ReviewNever = 100
  Phrases <- MCPhrases
  Resolve <- MCResolve
  MaxContacts = 4
  ContactWindow = 120
  ContactSpacing = 1
  MaxLinks = 3
  EscalationThreshold = 100
  LinkBudget <- NoBudget
  Scenario = "pair"
  Arm = "AGENT"
  Horizon = 4
  ResponseDelay = 1
  NumInvoices <- MCNumInvoices
  Payer <- MCPayer
  Group <- MCGroup
  Amount <- MCBilled
  TextDispute = {}
  PhrasesOf <- MCPhrasesOf
  ResponseKinds = {"NO_RESPONSE", "REPLIED", "PROMISED", "PAID_FULL", "PAID_PARTIAL", "DISPUTE_RAISED", "COMPLAINT"}
  SpontaneousKinds = {"PAID_FULL", "PAID_PARTIAL"}
  Drafts = {"S"}
  MinGroupInvoices = 3
  MinGroupPayers = 3
  MaxAttempts = 3
  LinkAfterAttempts = 1
  ChaseInterval = 2
  FatigueOnset = 0
  ArchetypeOf <- MCArchetypeOf
  FellDue <- MCFellDue
  SomeDraws = {1, 1500, 3000, 6500, 9499}
  SomeLuck = {1, 9, 9999}
  SomeAmounts = {9999}
INVARIANTS
  ChasingNeverCosts
  UntouchedPaysAlike
  TirednessNeverHelps
PROPERTIES DrawsAreOutcomes
