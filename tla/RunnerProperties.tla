-------------------------- MODULE RunnerProperties --------------------------
(***************************************************************************)
(* What one run promises.  Each property names the code it is about; the    *)
(* policy properties speak of the two arms that have a policy gate.         *)
(***************************************************************************)
EXTENDS Runner, FiniteSetsExt

\* The ledger, the pending responses and the engine have the shape the
\* pydantic models give them, and the tick stays within the run.
TypeOK ==
    /\ tick \in 0 .. Horizon
    /\ phase \notin {"finalise", "closed"} => tick < Horizon
    /\ phase \in Phases
    /\ todo \subseteq Invoices
    /\ accounts \in [Invoices -> Accounts]
    /\ pending \subseteq [invoice: Invoices, due: Nat]
    /\ engine \in [linksUsed: Nat, suppressed: SUBSET Invoices,
                   groupEscalationOpened: BOOLEAN]

-----------------------------------------------------------------------------
(* The ledger and the tick loop.                                            *)

\* A record is never decided while the answer to its last contact is still in
\* flight, so no decision is taken on a snapshot an answer is about to change
\* and a payer has at most one answer outstanding per invoice.  It rests on
\* the cadences of SPECS against RESPONSE_DELAY_TICKS, which no code checks.
NoReviewInFlight ==
    /\ phase = "decide" => \A p \in pending : p.invoice \notin todo
    /\ \A p, q \in pending : p.invoice = q.invoice => p = q

\* Once a person holds a case or the payer has disputed it, the run can only
\* pass it to a person or see it paid: it never returns to chasing, is never
\* exhausted and never written off.  The table itself would allow
\* HUMAN_QUEUE -> DISPUTED -> WRITTEN_OFF.
ObjectionsAreKept ==
    [][\A i \in Invoices :
        /\ accounts[i].state = "DISPUTED" =>
              accounts'[i].state \in {"DISPUTED", "HUMAN_QUEUE", "PAID"}
        /\ accounts[i].state = "HUMAN_QUEUE" =>
              accounts'[i].state \in {"HUMAN_QUEUE", "PAID"}]_vars

\* Abandoning is not losing: an exhausted record stays exhausted until its
\* payer pays or the run closes, and only the finalisation writes off, only
\* what was exhausted.
OnlyTheCloseWritesOff ==
    [][\A i \in Invoices :
        /\ accounts[i].state = "EXHAUSTED" =>
              accounts'[i].state \in {"EXHAUSTED", "PAID", "WRITTEN_OFF"}
        /\ accounts[i].state # "WRITTEN_OFF" /\ accounts'[i].state = "WRITTEN_OFF" =>
              phase = "finalise" /\ accounts[i].state = "EXHAUSTED"]_vars

\* PROMISED always names a date, although set_promise overwrites the date of
\* an earlier promise with whatever the new phrase resolves to, None included.
PromisedIsDated ==
    \A i \in Invoices : accounts[i].state = "PROMISED" => accounts[i].due # NoTick

\* No promise is forgotten: PROMISED always names a date, by the time anything
\* is decided on a tick every promise that fell due is settled, and what the
\* close leaves in flight, promises and answers alike, falls due only after
\* the last tick of the run.
NoStalePromise ==
    /\ PromisedIsDated
    /\ phase \in {"decide", "finalise", "closed"} =>
          \A i \in Active(accounts) :
              accounts[i].due # NoTick =>
                  accounts[i].due > IF phase = "decide" THEN tick ELSE Horizon - 1
    /\ phase \in {"finalise", "closed"} => \A p \in pending : p.due >= Horizon

\* The money, the state and the resolution tick agree: nothing is recovered
\* beyond the bill, PAID means the whole bill came in, and resolved_tick is
\* set exactly on terminal records.
BooksBalance ==
    \A i \in Invoices :
        /\ accounts[i].recovered <= Amount[i]
        /\ accounts[i].state = "PAID" => accounts[i].recovered = Amount[i]
        /\ accounts[i].resolved # NoTick <=> IsTerminal(accounts[i].state)

\* The run implements the abstract book of Receivable: the eight states are
\* six standings, a promise being part of the chase, and the book is open
\* until the finalisation starts.
StandingOf(a) ==
    CASE a.state \in {"AT_RISK", "CONTACTED", "PROMISED"} -> "chased"
      [] a.state = "DISPUTED" -> "disputed"
      [] a.state = "HUMAN_QUEUE" -> "with a person"
      [] a.state = "EXHAUSTED" -> "given up"
      [] a.state = "PAID" -> "paid"
      [] OTHER -> "lost"

Book == INSTANCE Receivable WITH
    Bills <- Invoices,
    Billed <- Amount,
    standing <- [i \in Invoices |-> StandingOf(accounts[i])],
    collected <- [i \in Invoices |-> accounts[i].recovered],
    open <- phase \notin {"finalise", "closed"}

ImplementsReceivable == Book!Spec

-----------------------------------------------------------------------------
(* The policy gate, seen from the ledger it protects.                       *)

Contacts == UNION {{<<i, k>> : k \in DOMAIN accounts[i].attempts} : i \in Invoices}
ContactTick(c) == accounts[c[1]].attempts[c[2]]

\* Two contacts to one payer, on whatever invoices, are at least the minimum
\* spacing apart, and two invoices of one payer reviewed on the same tick do
\* not both reach the payer.
SpacingHeld ==
    HasPolicy =>
        \A c, d \in Contacts :
            /\ c # d /\ Payer[c[1]] = Payer[d[1]] /\ ContactTick(c) <= ContactTick(d)
            => ContactTick(d) - ContactTick(c) >= ContactSpacing

\* No payer is contacted more than MaxContacts times within any window that
\* ends with a contact, counting every invoice.
FrequencyHeld ==
    HasPolicy =>
        \A c \in Contacts :
            Cardinality({d \in Contacts :
                /\ Payer[d[1]] = Payer[c[1]]
                /\ ContactTick(d) \in ContactTick(c) - ContactWindow .. ContactTick(c)})
              <= MaxContacts

\* Every contact is made within the contact hours, whatever tick a deferral
\* or a cadence brought the review to.
HoursHeld == HasPolicy => \A c \in Contacts : ContactHour(ContactTick(c))

\* A contact is only ever made about money that is owed, on a record still
\* being chased, and never on one whose text shows a dispute or that a group
\* escalation covers.
ContactsAreOwed ==
    [][HasPolicy =>
        \A i \in Invoices : accounts'[i].attempts # accounts[i].attempts =>
            /\ Open(i) > 0
            /\ accounts[i].state \in {"AT_RISK", "CONTACTED", "PROMISED"}
            /\ i \notin TextDispute \cup engine.suppressed]_vars

\* An armed suppression keeps every member uncontacted for the whole run, and
\* the group is held back (every later contact vetoed) only while a person has
\* one of its invoices, or had it until it was paid.
GroupHeld ==
    /\ \A i \in engine.suppressed : accounts[i].attempts = << >>
    /\ engine.groupEscalationOpened =>
          \E i \in engine.suppressed : accounts[i].state \in {"HUMAN_QUEUE", "PAID"}

\* No invoice gets more links than its cap and the run stays within its
\* budget, although a link is counted only after it was let through.
LinkCapsHeld ==
    HasPolicy =>
        /\ \A i \in Invoices : accounts[i].links <= MaxLinks
        /\ LinkBudget # NoBudget => engine.linksUsed <= LinkBudget

\* Automation never abandons, and so never loses, a balance above the
\* merchant's threshold.
NoHighValueLoss ==
    HasPolicy =>
        \A i \in Invoices :
            accounts[i].state \in {"EXHAUSTED", "WRITTEN_OFF"} => Open(i) <= EscalationThreshold

\* No contact is made about nothing: when its row is appended the record still
\* has a balance, a record kept open with nothing outstanding included.
SomethingIsOwed ==
    (HasPolicy /\ row.kind = "DECISION") =>
        (row.executed /\ IsContact(row.intervention) => Open(row.record) > 0)

\* What the gate promises of the whole ledger, however many invoices, links and
\* deferrals a run has: the hours, the caps on links, the threshold, and that
\* a contact is about money.
LimitsHeld == HoursHeld /\ LinkCapsHeld /\ NoHighValueLoss /\ SomethingIsOwed

-----------------------------------------------------------------------------
(* What must happen.                                                        *)

\* A veto that defers a contact means "not now": the record is looked at
\* again at the deferred tick, unless its payer settled first.
DeferralsReturn ==
    \A i \in Invoices, d \in 0 .. Horizon - 1 :
        /\ row.kind = "DECISION" /\ row.record = i /\ ~row.executed /\ row.defer = d
        ~> \/ phase = "decide" /\ tick = d /\ i \in todo
           \/ IsTerminal(accounts[i].state)
=============================================================================
