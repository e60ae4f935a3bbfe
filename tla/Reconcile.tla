------------------------------ MODULE Reconcile ------------------------------
(***************************************************************************)
(* recoup.executor.reconcile and its callers: a payer settles a payment     *)
(* link after the run has closed, and the webhook (webhook/app.py) or the   *)
(* command line (`recoup reconcile`) books the payment.                     *)
(*                                                                         *)
(* A reconciliation reads and rewrites the run's files one after another,   *)
(* with no lock and no rename: another process runs, or this one dies,      *)
(* between any two steps.  A file is at most one readable content: the      *)
(* empty set is a file no reader can parse.  An answer other than 200       *)
(* changes nothing, so a delivery that fails to read is no action: the      *)
(* payment stays deliverable, as Razorpay retries it.                       *)
(***************************************************************************)
EXTENDS Replay

CONSTANTS
    Amount,         \* amount_paise of each invoice of the batch
    Closings,       \* the logs the finished run may have left
    Payments,       \* payments Razorpay reports, each with its own id
    InvoiceOf,      \* the invoice whose link each payment settles
    LinkOf,         \* that link
    AmountOf,       \* what was paid
    Receivers,      \* processes that reconcile
    MaxCrashes      \* how often a receiver may die (a bound)

ASSUME ReconcileAssumption ==
    /\ Amount \in [DOMAIN Amount -> Nat \ {0}]
    /\ InvoiceOf \in [Payments -> DOMAIN Amount]
    /\ AmountOf \in [Payments -> Nat]
    /\ DOMAIN LinkOf = Payments
    /\ IsFiniteSet(Payments)
    /\ MaxCrashes \in Nat

\* A finished run has written something, and no payment of a link is in it:
\* the runner's own rows carry no payment.
ASSUME ClosingAssumption ==
    Closings \subseteq Seq(LogRows(DOMAIN Amount)) \ {<< >>}

VARIABLES
    run,            \* the rows the run closed with
    disk,           \* the run's files
    receiver,       \* what each receiver is doing
    applied,        \* payments answered 200, "reconciled"
    acknowledged,   \* payments answered 200, "already applied" included
    events,         \* reconciliation.jsonl
    crashes

recVars == <<run, disk, receiver, applied, acknowledged, events, crashes>>

Files == {"log", "final", "summary", "session"}

NextFile == [log |-> "final", final |-> "summary", summary |-> "session", session |-> "event"]

IdleReceiver ==
    [at |-> "idle", open |-> FALSE, payment |-> CHOOSE p \in Payments : TRUE,
     rows |-> << >>, text |-> {}, left |-> {}]

Links == {LinkOf[p] : p \in Payments}
Book(rows) == ReplayLog(Amount, rows)

\* find_link reads every session file, and one that does not parse stops it.
LinksAreFound == disk.session # {}

\* read_log and verify_chain: rows that parse are chained, and a log that
\* stops short verifies; one without rows is refused.
RowsOnDisk == disk.log \ {<< >>}

\* compare: the position on disk, record by record.
ReplaysTo(rows) == disk.final = {Book(rows)}
LastTick(rows) == Max({rows[k].tick : k \in DOMAIN rows})

-----------------------------------------------------------------------------
(* What a payment is, to a log.                                             *)

Mentions(r, p) == r.kind = "OUTCOME" /\ "payment" \in DOMAIN r /\ r.payment = p

\* Mutants: only the last row is looked at; any payment of the invoice counts.
LastRowMentions(rows, p) == Mentions(rows[Len(rows)], p)
InvoiceAlreadyPaid(rows, p) ==
    \E k \in DOMAIN rows : /\ rows[k].kind = "OUTCOME" /\ "payment" \in DOMAIN rows[k]
                           /\ rows[k].record = InvoiceOf[p]

AlreadyApplied(rows, p) == \E k \in DOMAIN rows : Mentions(rows[k], p)

PaymentRow(rows, p) ==
    LET account == Book(rows)[InvoiceOf[p]]
        kind == IF AmountOf[p] >= Outstanding(Amount[InvoiceOf[p]], account)
                THEN "PAID_FULL" ELSE "PAID_PARTIAL"
    IN  [kind |-> "OUTCOME", record |-> InvoiceOf[p], tick |-> LastTick(rows), payment |-> p,
         outcome |-> [kind |-> kind, amount |-> AmountOf[p], phrase |-> NoPhrase]]

Recovered(book) == SumFunction([i \in DOMAIN book |-> book[i].recovered])

\* Mutant: the row count is the one the run was read with.
SummaryOneBehind(rows) == [recovered |-> Recovered(Book(rows)), rows |-> Len(rows) - 1]

\* _refresh_summary, the fields a payment changes.
SummaryOf(rows) == [recovered |-> Recovered(Book(rows)), rows |-> Len(rows)]

\* AuditLog.resume and append: the log goes on from the rows that were read.
Appended(rows, p) == Append(rows, PaymentRow(rows, p))

-----------------------------------------------------------------------------
(* One reconciliation.                                                      *)

Step(r, fields) == receiver' = [receiver EXCEPT ![r] = fields]
Stop(r) == Step(r, IdleReceiver)
At(r, where) == receiver[r].at = where /\ ~receiver[r].open

\* razorpay_webhook, reconcile.
Receive(r, p) ==
    /\ At(r, "idle")
    /\ LinksAreFound
    /\ Step(r, [IdleReceiver EXCEPT !.at = "read", !.payment = p])
    /\ UNCHANGED <<run, disk, applied, acknowledged, events, crashes>>

\* reconcile_payment up to the idempotency check.
ReadLog(r) ==
    /\ At(r, "read")
    /\ \E rows \in RowsOnDisk :
        /\ ~AlreadyApplied(rows, receiver[r].payment)
        /\ Step(r, [receiver[r] EXCEPT !.at = "compare", !.rows = rows])
    /\ UNCHANGED <<run, disk, applied, acknowledged, events, crashes>>

\* The stored position is read, not compared, and the answer is 200.
AnswerAlreadyApplied(r) ==
    /\ At(r, "read")
    /\ \E rows \in RowsOnDisk : AlreadyApplied(rows, receiver[r].payment)
    /\ disk.final # {}
    /\ acknowledged' = acknowledged \cup {receiver[r].payment}
    /\ Stop(r)
    /\ UNCHANGED <<run, disk, applied, events, crashes>>

\* Mutants: the comparison, or the refusal of terminal records, left out; the
\* summary read before anything is written.
AcceptsAnyPosition(rows, p) ==
    /\ disk.final # {}
    /\ ~IsTerminal(Book(rows)[InvoiceOf[p]].state) /\ AmountOf[p] > 0
AcceptsTerminal(rows, p) == ReplaysTo(rows) /\ AmountOf[p] > 0
AcceptsReadSummary(rows, p) ==
    /\ ReplaysTo(rows) /\ disk.summary # {}
    /\ ~IsTerminal(Book(rows)[InvoiceOf[p]].state) /\ AmountOf[p] > 0

Accepts(rows, p) ==
    /\ ReplaysTo(rows)
    /\ ~IsTerminal(Book(rows)[InvoiceOf[p]].state)
    /\ AmountOf[p] > 0

\* The payment becomes a row of a log still in memory.
BookPayment(r) ==
    /\ At(r, "compare")
    /\ Accepts(receiver[r].rows, receiver[r].payment)
    /\ Step(r, [receiver[r] EXCEPT
                   !.at = "log",
                   !.rows = Appended(@, receiver[r].payment)])
    /\ UNCHANGED <<run, disk, applied, acknowledged, events, crashes>>

\* Everything that ends a reconciliation with no 200 and no write: a file
\* that does not parse, an empty log, a refusal.
GiveUp(r) ==
    /\ \/ At(r, "read") /\ (RowsOnDisk = {} \/ disk.final = {})
       \/ At(r, "compare") /\ ~Accepts(receiver[r].rows, receiver[r].payment)
       \/ At(r, "summary") /\ disk.summary = {}
       \/ At(r, "session") /\ disk.session = {}
    /\ Stop(r)
    /\ UNCHANGED <<run, disk, applied, acknowledged, events, crashes>>

\* What the receiver writes to a file; the session is read just before.
Texts(r, file) ==
    CASE file = "log" -> {receiver[r].rows}
      [] file = "final" -> {Book(receiver[r].rows)}
      [] file = "summary" -> IF disk.summary = {} THEN {} ELSE {SummaryOf(receiver[r].rows)}
      [] file = "session" ->
            {[links EXCEPT ![LinkOf[receiver[r].payment]] = "paid"] : links \in disk.session}

\* A file being written: whole rows of a log can be read, part of anything
\* else cannot.
Partly(file, text) ==
    {{}} \cup IF file = "log" THEN {{SubSeq(text, 1, k)} : k \in 0 .. Len(text) - 1} ELSE {}

\* open(path, "w") truncates, and the rest follows later.
OpenFile(r) ==
    /\ receiver[r].at \in Files /\ ~receiver[r].open
    /\ \E text \in Texts(r, receiver[r].at) :
        \E left \in Partly(receiver[r].at, text) :
            /\ disk' = [disk EXCEPT ![receiver[r].at] = left]
            /\ Step(r, [receiver[r] EXCEPT !.open = TRUE, !.text = {text}, !.left = left])
    /\ UNCHANGED <<run, applied, acknowledged, events, crashes>>

\* Another process wrote the file while this one had it open.
Disturbed(r) ==
    LET file == receiver[r].at
    IN  \/ disk[file] # receiver[r].left
        \/ \E q \in Receivers \ {r} : receiver[q].at = file /\ receiver[q].open

\* Two handles on one file write over each other: the last to close leaves
\* its own content, or its content followed by the tail of the other's.
CloseFile(r) ==
    /\ receiver[r].open
    /\ disk' \in {[disk EXCEPT ![receiver[r].at] = content] :
                     content \in {receiver[r].text} \cup (IF Disturbed(r) THEN {{}} ELSE {})}
    /\ Step(r, [receiver[r] EXCEPT !.at = NextFile[@], !.open = FALSE,
                                   !.text = {}, !.left = {}])
    /\ UNCHANGED <<run, applied, acknowledged, events, crashes>>

\* _append_event, and the answer.
AppendEvent(r) ==
    /\ At(r, "event")
    /\ events' = events \cup {receiver[r].payment}
    /\ applied' = applied \cup {receiver[r].payment}
    /\ acknowledged' = acknowledged \cup {receiver[r].payment}
    /\ Stop(r)
    /\ UNCHANGED <<run, disk, crashes>>

\* The process dies; whatever it had opened stays as it is.
Crash(r) ==
    /\ receiver[r].at # "idle" /\ crashes < MaxCrashes
    /\ crashes' = crashes + 1
    /\ Stop(r)
    /\ UNCHANGED <<run, disk, applied, acknowledged, events>>

-----------------------------------------------------------------------------

RecInit ==
    /\ run \in Closings
    /\ disk = [log |-> {run}, final |-> {Book(run)}, summary |-> {SummaryOf(run)},
               session |-> {[l \in Links |-> "created"]}]
    /\ receiver = [r \in Receivers |-> IdleReceiver]
    /\ applied = {} /\ acknowledged = {} /\ events = {}
    /\ crashes = 0

Work(r) ==
    \/ ReadLog(r) \/ AnswerAlreadyApplied(r) \/ BookPayment(r) \/ GiveUp(r)
    \/ OpenFile(r) \/ CloseFile(r) \/ AppendEvent(r)

RecNext ==
    \E r \in Receivers : (\E p \in Payments : Receive(r, p)) \/ Work(r) \/ Crash(r)

RecSpec == RecInit /\ [][RecNext]_recVars

\* Razorpay goes on delivering every payment, however often another one is
\* delivered in between, and a receiver that has taken one finishes it.
FairRecSpec ==
    /\ RecSpec
    /\ \A r \in Receivers : WF_recVars(Work(r))
    /\ \A r \in Receivers, p \in Payments : SF_recVars(Receive(r, p))

-----------------------------------------------------------------------------
(* Properties.                                                              *)

PaidOn(i, payments) == SumFunctionOnSet(AmountOf, {p \in payments : InvoiceOf[p] = i})

Capped(i, money) == IF money < Amount[i] THEN money ELSE Amount[i]

(* A payment is credited at most once, however often it is delivered,       *)
(* whichever process takes it and wherever one dies: no position on disk    *)
(* ever holds more than the run recovered and each payment once             *)
(* (reconcile.py, "Idempotency comes out of the log").                      *)
CreditedOnce ==
    \A book \in disk.final : \A i \in DOMAIN Amount :
        book[i].recovered <= Capped(i, Book(run)[i].recovered + PaidOn(i, Payments))

(* A record the run closed as PAID or WRITTEN_OFF is never changed by a     *)
(* payment: no rupee is both recovered and lost (reconcile.py, 3).          *)
ClosedRecordsAreKept ==
    \A book \in disk.final : \A i \in DOMAIN Amount :
        IsTerminal(Book(run)[i].state) => book[i] = Book(run)[i]

(* When a reconciliation is answered, the four files agree: the payment is  *)
(* a row, the position and the summary are the replay of the rows, the link *)
(* is marked paid.                                                          *)
AppliedIsBooked ==
    [][\A p \in applied' \ applied :
        \E rows \in disk.log :
            /\ AlreadyApplied(rows, p)
            /\ disk.final = {Book(rows)}
            /\ disk.summary = {[recovered |-> Recovered(Book(rows)), rows |-> Len(rows)]}
            /\ \E links \in disk.session : links[LinkOf[p]] = "paid"]_recVars

(* A payment is reconciled only on a log that still has every payment       *)
(* acknowledged before it: after a crash has cost rows of the log, the      *)
(* comparison with final.json lets nothing more in (reconcile.py, 2).       *)
HistoryIsWhole ==
    [][applied' # applied =>
        \A p \in acknowledged : \E rows \in disk.log : AlreadyApplied(rows, p)]_recVars

\* A crash left files no reconciliation accepts: links nobody finds, or a log
\* that does not replay to the position.
Parted == disk.session = {} \/ \A rows \in disk.log : ~ReplaysTo(rows)

(* Every payment delivered to an open record is answered 200, or the record *)
(* is paid before it is.  A receiver that dies prevents that only where it  *)
(* leaves the files parted for good: a summary it left unreadable fails     *)
(* every later reconciliation, but after the log and the position, so that  *)
(* the redelivery is answered.                                              *)
EveryPaymentLands ==
    \A p \in Payments :
        (AmountOf[p] > 0 /\ ~IsTerminal(Book(run)[InvoiceOf[p]].state)) ~>
            \/ p \in acknowledged
            \/ \E book \in disk.final : book[InvoiceOf[p]].state = "PAID"
            \/ []Parted

-----------------------------------------------------------------------------
(* Two claims: the first does not survive a crash, nor the second a second  *)
(* receiver.                                                                *)

(* A payment answered 200 has moved the position: "instead of returning 200 *)
(* for a payment nothing happened to" (reconcile_payment).                  *)
AcknowledgedIsBooked ==
    \A book \in disk.final : \A i \in DOMAIN Amount :
        book[i].recovered >= Capped(i, Book(run)[i].recovered + PaidOn(i, acknowledged))

(* A reconciled payment stays a row of the log, which is append-only        *)
(* (audit/log.py); a log being written is not looked at.                    *)
AppliedRowsStay ==
    (\A r \in Receivers : receiver[r].at # "log") =>
        \A p \in applied : \E rows \in disk.log : AlreadyApplied(rows, p)

(* One receiver keeps both, what it answers for is in the position and      *)
(* stays in the log, as long as it has not died, and after any death that   *)
(* left a log that replays to the position: replaying the run is enough to  *)
(* tell whether an answer has been lost (reconcile_payment).                *)
AnsweredIsKept ==
    (crashes = 0 \/ \E rows \in disk.log : ReplaysTo(rows)) =>
        AcknowledgedIsBooked /\ AppliedRowsStay
=============================================================================
