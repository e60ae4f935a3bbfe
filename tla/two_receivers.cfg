SPECIFICATION RecSpec
CONSTANTS
  WaitReview = 4
  MessageReview = 8
  PhoneReview = 12
  ReviewNever = 100
  Phrases <- MCPhrases
  Resolve <- MCResolve
  Amount <- MCAmount
  Closings <- MCClosings
  Payments <- MCPayments
  InvoiceOf <- MCInvoiceOf
  LinkOf <- MCLinkOf
  AmountOf <- MCAmountOf
  Receivers = {"webhook", "cli"}
  MaxCrashes = 0
INVARIANT AppliedRowsStay
CHECK_DEADLOCK FALSE
