----------------------------- MODULE MCReconcile -----------------------------
(* Small instances of Reconcile for TLC: two invoices, one of them open with *)
(* a part payment or a person, the other written off or open.                *)
EXTENDS Reconcile

MCAmount == <<3, 2>>
MCPhrases == {"tomorrow"}
MCResolve == [p \in MCPhrases |-> [t \in 0 .. 9 |-> t + 4]]

Contact(i, t, what) ==
    [kind |-> "DECISION", record |-> i, tick |-> t, intervention |-> what,
     executed |-> TRUE, defer |-> NoTick]
Answer(i, t, what, amount) ==
    [kind |-> "OUTCOME", record |-> i, tick |-> t,
     outcome |-> [kind |-> what, amount |-> amount, phrase |-> NoPhrase]]
Promise(i, t) ==
    [kind |-> "OUTCOME", record |-> i, tick |-> t,
     outcome |-> [kind |-> "PROMISED", amount |-> 0, phrase |-> "tomorrow"]]

\* A second record written off; one promised and one in a person's hands,
\* with a last row that moves nothing; a part payment during the run.
MCClosings ==
    {<<Contact(1, 2, "PAYMENT_LINK"), Contact(2, 2, "STOP"), Answer(2, 9, "WRITTEN_OFF", 0)>>,
     <<Contact(1, 2, "PAYMENT_LINK"), Contact(2, 2, "PAYMENT_LINK"), Promise(1, 4),
       Answer(2, 4, "COMPLAINT", 0), Answer(1, 8, "NO_RESPONSE", 0)>>,
     <<Contact(1, 2, "PAYMENT_LINK"), Contact(2, 2, "PAYMENT_LINK"),
       Answer(1, 4, "PAID_PARTIAL", 2)>>}

\* Two payments on the first invoice, which settle it only after the run's own
\* part payment, and then the first of them does; one for all of the second.
MCPayments == {"p", "q", "s"}
MCInvoiceOf == [p \in MCPayments |-> IF p = "s" THEN 2 ELSE 1]
MCLinkOf == [p \in MCPayments |-> IF p = "s" THEN "m" ELSE "l"]
MCAmountOf == [p \in MCPayments |-> IF p = "s" THEN 2 ELSE 1]
=============================================================================
