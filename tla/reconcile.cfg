SPECIFICATION FairRecSpec
CONSTANTS
  WaitReview = 4
  MessageReview = 8
  PhoneReview = 12
  ReviewNever = 100
  Phrases <- MCPhrases
  Resolve <- MCResolve
  Amount <- MCAmount
  Closings <- MCClosings
  Payments <- MCPayments
  InvoiceOf <- MCInvoiceOf
  LinkOf <- MCLinkOf
  AmountOf <- MCAmountOf
  Receivers = {"webhook"}
  MaxCrashes = 2
INVARIANTS
  CreditedOnce
  ClosedRecordsAreKept
  AnsweredIsKept
PROPERTIES
  AppliedIsBooked
  HistoryIsWhole
  EveryPaymentLands
CHECK_DEADLOCK FALSE
