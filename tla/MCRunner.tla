------------------------------ MODULE MCRunner ------------------------------
(* Small instances of Runner for TLC.                                       *)
EXTENDS RunnerProperties

CONSTANT Scenario   \* which small book a run walks over

\* "pair": two invoices of one payer, one of them above the threshold.
\* "single": one invoice.
MCNumInvoices == IF Scenario = "pair" THEN 2 ELSE 1
MCPayer == [i \in 1 .. MCNumInvoices |-> "a"]
MCGroup == [i \in 1 .. MCNumInvoices |-> NoGroup]
MCAmount == IF Scenario = "pair" THEN <<1, 2>> ELSE <<2>>

\* One phrase that resolves to the end of the day it is read on, one to the
\* end of the next day, and one that names no date.
MCPhrases == {"month end", "tomorrow", "in due course"}
MCResolve ==
    [p \in MCPhrases |-> [t \in 0 .. Horizon - 1 |->
        CASE p = "month end" -> LastTickOn(VirtualDate(t))
          [] p = "tomorrow" -> LastTickOn(VirtualDate(t) + 1)
          [] p = "in due course" -> NoTick]]
MCPhrasesOf == [i \in 1 .. MCNumInvoices |->
    IF i = 1 THEN {"month end", "tomorrow"} ELSE {"in due course"}]
=============================================================================
