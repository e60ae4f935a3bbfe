------------------------------- MODULE Runner -------------------------------
(***************************************************************************)
(* recoup.runner.batch: one run of one arm over one batch.  Each virtual    *)
(* tick has four steps, each walking records in id order: responses to      *)
(* earlier contacts land, promises fall due, payers settle on their own,    *)
(* and the records due for review are decided.  At the horizon whatever is  *)
(* still EXHAUSTED is written off.                                          *)
(*                                                                         *)
(* What the world does back (recoup.ledger.adjudicator) is a                *)
(* nondeterministic choice over every outcome a hash draw can produce, and  *)
(* what the agent proposes is a choice over every intervention and draft:   *)
(* the runner's promises may depend on neither.                             *)
(***************************************************************************)
EXTENDS PolicyEngine

CONSTANTS
    Arm,               \* "CONTROL", "BASELINE", "POLICY_BASELINE" or "AGENT"
    Horizon,           \* ticks in a run
    ResponseDelay,     \* RESPONSE_DELAY_TICKS
    NumInvoices,       \* invoices are 1 .. NumInvoices, their order the id order
    Payer,             \* who owes each invoice
    Group,             \* its parent group, NoGroup when it has none
    Amount,            \* amount_paise
    TextDispute,       \* invoices with a dispute_description in their free text
    PhrasesOf,         \* the promise phrases of each invoice's archetype
    ResponseKinds,     \* outcomes a contact can draw (a bound for the runs)
    SpontaneousKinds,  \* outcomes a tick can draw unprompted (a bound)
    Drafts,            \* categories the agent's drafts carry
    MinGroupInvoices,  \* min_batch_group_invoices
    MinGroupPayers     \* min_batch_group_payers

VARIABLES
    tick,      \* VirtualClock.tick
    phase,     \* where in the tick the runner is
    todo,      \* records the current step of the tick has still to visit
    accounts,  \* the ledger
    pending,   \* contacts whose response has not landed: [invoice, due]
    engine,    \* PolicyEngine's per-run state
    row        \* the audit row the last step appended, NoRow if none

vars == <<tick, phase, todo, accounts, pending, engine, row>>

Invoices == 1 .. NumInvoices
NoGroup == "none"
Arms == {"CONTROL", "BASELINE", "POLICY_BASELINE", "AGENT"}
Phases == {"open", "land", "promises", "spontaneous", "decide", "finalise", "closed"}

ASSUME RunnerAssumption ==
    /\ Arm \in Arms
    /\ Horizon \in Nat \ {0} /\ ResponseDelay \in Nat \ {0}
    /\ NumInvoices \in Nat \ {0}
    /\ Amount \in [Invoices -> Nat \ {0}]
    /\ TextDispute \subseteq Invoices
    /\ Drafts \subseteq Categories \cup {NoDraft}
    /\ ResponseKinds \subseteq {"NO_RESPONSE", "REPLIED", "PROMISED", "PAID_FULL",
                                "PAID_PARTIAL", "DISPUTE_RAISED", "COMPLAINT"}
    /\ SpontaneousKinds \subseteq {"PAID_FULL", "PAID_PARTIAL"}

\* The phrases resolve from a tick of the run to that tick or a later one,
\* and an archetype's pool is all dated or all vague: the two tuples of
\* Adjudicator._promise_phrase and the table _VAGUE_PROMISERS.
ASSUME PromiseAssumption ==
    /\ PhrasesOf \in [Invoices -> SUBSET Phrases]
    /\ NoPhrase \notin Phrases
    /\ Resolve \in [Phrases -> [0 .. Horizon - 1 -> Nat \cup {NoTick}]]
    /\ \A p \in Phrases, t \in 0 .. Horizon - 1 :
            Resolve[p][t] # NoTick => Resolve[p][t] >= t
    /\ \A i \in Invoices :
        \/ \A p \in PhrasesOf[i], t \in 0 .. Horizon - 1 : Resolve[p][t] = NoTick
        \/ \A p \in PhrasesOf[i], t \in 0 .. Horizon - 1 : Resolve[p][t] # NoTick

\* The review cadences outlast the response delay and the run cannot reach
\* REVIEW_NEVER: 8, 12 and 18 ticks against 2, and 10^9 against 112.
ASSUME CadenceOutlastsResponse ==
    /\ MessageReview > ResponseDelay /\ PhoneReview > ResponseDelay
    /\ ReviewNever >= Horizon

HasPolicy == Arm \in {"POLICY_BASELINE", "AGENT"}
\* Mutant: contact limits per invoice, not per payer.
OneInvoice(i) == {i}
PayerInvoices(i) == {j \in Invoices : Payer[j] = Payer[i]}
Open(i) == Outstanding(Amount[i], accounts[i])

-----------------------------------------------------------------------------
(* Audit rows.                                                              *)

NoRow == [kind |-> "NONE"]

OutcomeRow(i, o) == [kind |-> "OUTCOME", record |-> i, tick |-> tick, outcome |-> o]

DecisionRow(i, intervention, executed, defer) ==
    [kind |-> "DECISION", record |-> i, tick |-> tick, intervention |-> intervention,
     executed |-> executed, defer |-> defer]

-----------------------------------------------------------------------------
(* The adjudicator: what a payer can do back.                               *)

Outcome(kind, amount) == [kind |-> kind, amount |-> amount, phrase |-> NoPhrase]
FullPayment(i) == Outcome("PAID_FULL", Open(i))

\* _partial_amount: a whole percent between 33 and 84, and never nothing.
PartialPayments(i) ==
    {Outcome("PAID_PARTIAL", Later(1, (Open(i) * percent) \div 100)) : percent \in 33 .. 84}

\* resolve_response: silence is an outcome too.
Responses(i) ==
    {o \in {FullPayment(i)} \cup PartialPayments(i)
             \cup {Outcome(k, 0) : k \in OutcomeKinds \ {"PAID_FULL", "PAID_PARTIAL", "PROMISED"}}
             \cup {[kind |-> "PROMISED", amount |-> 0, phrase |-> p] : p \in PhrasesOf[i]} :
        o.kind \in ResponseKinds}

\* resolve_spontaneous: nothing at all once the balance is zero.
SpontaneousPayments(i) ==
    {o \in {FullPayment(i)} \cup PartialPayments(i) : Open(i) > 0 /\ o.kind \in SpontaneousKinds}

\* resolve_promise, for a promise that is due.
PromiseOutcomes(i) == {FullPayment(i), Outcome("PROMISE_BROKEN", 0)}

\* _apply_outcome: the ledger and the log move together.
Apply(i, o) ==
    /\ accounts' = [accounts EXCEPT ![i] = ApplyOutcome(Amount[i], @, o, tick)]
    /\ row' = OutcomeRow(i, o)

-----------------------------------------------------------------------------
(* Proposers.                                                               *)

CONSTANTS
    MaxAttempts,        \* MAX_ATTEMPTS
    LinkAfterAttempts,  \* LINK_AFTER_ATTEMPTS
    ChaseInterval       \* CHASE_INTERVAL_DAYS, in ticks

\* NaiveChaser.propose: the contact count and the clock, nothing else.
NaiveChoice(a) ==
    LET made == Len(a.attempts)
    IN  CASE made >= MaxAttempts -> "STOP"
          [] made < MaxAttempts /\ made > 0 /\ tick - a.attempts[made] < ChaseInterval -> "WAIT"
          [] OTHER -> IF made >= LinkAfterAttempts THEN "PAYMENT_LINK" ELSE "SOFT_REMINDER"

Proposals(i) ==
    CASE Arm = "CONTROL" -> [intervention: {"WAIT"}, draft: {NoDraft}]
      [] Arm \in {"BASELINE", "POLICY_BASELINE"} ->
            [intervention: {NaiveChoice(accounts[i])}, draft: {NoDraft}]
      [] Arm = "AGENT" -> [intervention: Interventions, draft: Drafts]

-----------------------------------------------------------------------------
(* The batch insight.                                                       *)

\* adjudicate_batch: a suppression binds only on the whole open group.
SuppressionApproved(g, members) ==
    /\ g # NoGroup
    /\ Cardinality(members) >= MinGroupInvoices
    /\ \A i \in members : Group[i] = g /\ Open(i) > 0
    /\ Cardinality({Payer[i] : i \in members}) >= MinGroupPayers
    /\ members = {i \in Invoices : Group[i] = g /\ Open(i) > 0}

\* Intake: analyze, adjudicate_batch, arm_batch_suppression.  The insight may
\* name any set of invoices under any group, or recommend nothing.
OpenRun ==
    /\ phase = "open"
    /\ \E g \in {Group[i] : i \in Invoices} \cup {NoGroup}, members \in SUBSET Invoices :
        engine' = [engine EXCEPT !.suppressed =
                      IF HasPolicy /\ SuppressionApproved(g, members) THEN members ELSE {}]
    /\ phase' = "land"
    /\ row' = NoRow
    /\ UNCHANGED <<tick, todo, accounts, pending>>

-----------------------------------------------------------------------------
(* Step 1: land the responses that are due, by (due tick, record id).       *)

Due == {p \in pending : p.due <= tick}
Precedes(p, q) == p.due < q.due \/ (p.due = q.due /\ p.invoice <= q.invoice)
NextDue(p) == p \in Due /\ \A q \in Due : Precedes(p, q)

LandResponse(p) ==
    /\ phase = "land" /\ NextDue(p)
    /\ ~IsTerminal(accounts[p.invoice].state)
    /\ \E o \in Responses(p.invoice) : Apply(p.invoice, o)
    /\ pending' = pending \ {p}
    /\ UNCHANGED <<tick, phase, todo, engine>>

\* A record that settled meanwhile has nothing left to say.
DropResponse(p) ==
    /\ phase = "land" /\ NextDue(p)
    /\ IsTerminal(accounts[p.invoice].state)
    /\ pending' = pending \ {p}
    /\ row' = NoRow
    /\ UNCHANGED <<tick, phase, todo, accounts, engine>>

\* Leaving a step computes the list the next one walks.
StartStep(from, to, records) ==
    /\ phase = from
    /\ phase' = to
    /\ todo' = records
    /\ row' = NoRow
    /\ UNCHANGED <<tick, accounts, pending, engine>>

StartPromises == Due = {} /\ StartStep("land", "promises", Active(accounts))

-----------------------------------------------------------------------------
(* Step 2: promises that fall due are kept or broken.                       *)

\* Mutant: a promise is checked only on the tick after it fell due.
PromisePast(i) == accounts[i].due # NoTick /\ tick > accounts[i].due

PromiseDue(i) == accounts[i].due # NoTick /\ tick >= accounts[i].due

\* The walk is in id order: visit the first record left, and only it.
Visit(i) ==
    /\ i \in todo /\ \A j \in todo : i <= j
    /\ todo' = todo \ {i}
    /\ UNCHANGED <<tick, phase>>

ResolvePromise(i) ==
    /\ phase = "promises" /\ Visit(i)
    /\ PromiseDue(i)
    /\ \E o \in PromiseOutcomes(i) : Apply(i, o)
    /\ UNCHANGED <<pending, engine>>

PassPromise(i) ==
    /\ phase = "promises" /\ Visit(i)
    /\ ~PromiseDue(i)
    /\ row' = NoRow
    /\ UNCHANGED <<accounts, pending, engine>>

StartSpontaneous ==
    todo = {} /\ StartStep("promises", "spontaneous", Active(accounts))

-----------------------------------------------------------------------------
(* Step 3: every active record may settle on its own.                       *)

SettleSpontaneously(i) ==
    /\ phase = "spontaneous" /\ Visit(i)
    /\ \E o \in SpontaneousPayments(i) : Apply(i, o)
    /\ UNCHANGED <<pending, engine>>

StayQuiet(i) ==
    /\ phase = "spontaneous" /\ Visit(i)
    /\ row' = NoRow
    /\ UNCHANGED <<accounts, pending, engine>>

StartReviews ==
    todo = {} /\ StartStep("spontaneous", "decide", DueForReview(accounts, tick))

-----------------------------------------------------------------------------
(* Step 4: review, propose, adjudicate, act, log.                           *)

Context(i, proposal) ==
    [original |-> proposal.intervention, draft |-> proposal.draft, tick |-> tick,
     disputed |-> accounts[i].state = "DISPUTED" \/ i \in TextDispute,
     outstanding |-> Open(i), links |-> accounts[i].links,
     contactTicks |-> PayerContactTicks(accounts, PayerInvoices(i)),
     contactsInWindow |-> PayerContactsSince(accounts, PayerInvoices(i), Floor(tick)),
     linksUsed |-> engine.linksUsed,
     suppressed |-> i \in engine.suppressed,
     groupEscalationOpened |-> engine.groupEscalationOpened]

\* Without a policy gate the proposal goes through untouched.
Decision(i, proposal) ==
    IF HasPolicy THEN Adjudicate(Context(i, proposal))
    ELSE [verdict |-> "APPROVED", final |-> proposal.intervention,
          rule |-> NoCategory, defer |-> NoTick]

ReviewVetoed(i, v) ==
    /\ v.verdict = "VETOED"
    /\ accounts' = [accounts EXCEPT ![i] = RecordVeto(@, v.final, tick, v.defer)]
    /\ row' = DecisionRow(i, v.final, FALSE, v.defer)
    /\ UNCHANGED <<pending, engine>>

ReviewExecuted(i, v) ==
    /\ v.verdict # "VETOED"
    /\ accounts' = [accounts EXCEPT ![i] = RecordAction(@, v.final, tick)]
    /\ engine' = IF HasPolicy THEN EngineAfter(engine, v, i \in engine.suppressed) ELSE engine
    /\ pending' = IF IsContact(v.final)
                  THEN pending \cup {[invoice |-> i, due |-> tick + ResponseDelay]}
                  ELSE pending
    /\ row' = DecisionRow(i, v.final, TRUE, NoTick)

Review(i) ==
    /\ phase = "decide" /\ Visit(i)
    /\ \E proposal \in Proposals(i) :
          LET v == Decision(i, proposal) IN ReviewVetoed(i, v) \/ ReviewExecuted(i, v)

-----------------------------------------------------------------------------
(* The tick loop and the finalisation.                                      *)

Advance ==
    /\ phase = "decide" /\ todo = {}
    /\ tick' = tick + 1
    /\ phase' = IF tick + 1 >= Horizon THEN "finalise" ELSE "land"
    /\ todo' = IF tick + 1 >= Horizon THEN AwaitingWriteOff(accounts) ELSE {}
    /\ row' = NoRow
    /\ UNCHANGED <<accounts, pending, engine>>

WriteOff(i) ==
    /\ phase = "finalise" /\ Visit(i)
    /\ Apply(i, Outcome("WRITTEN_OFF", 0))
    /\ UNCHANGED <<pending, engine>>

CloseRun == todo = {} /\ StartStep("finalise", "closed", {})

Closed == phase = "closed" /\ UNCHANGED vars

-----------------------------------------------------------------------------

Init ==
    /\ tick = 0
    /\ phase = "open"
    /\ todo = {}
    /\ accounts = [i \in Invoices |-> OpeningAccount]
    /\ pending = {}
    /\ engine = FreshEngine
    /\ row = NoRow

Next ==
    \/ OpenRun
    \/ \E p \in pending : LandResponse(p) \/ DropResponse(p)
    \/ StartPromises
    \/ \E i \in Invoices : ResolvePromise(i) \/ PassPromise(i)
    \/ StartSpontaneous
    \/ \E i \in Invoices : SettleSpontaneously(i) \/ StayQuiet(i)
    \/ StartReviews
    \/ \E i \in Invoices : Review(i)
    \/ Advance
    \/ \E i \in Invoices : WriteOff(i)
    \/ CloseRun
    \/ Closed

Spec == Init /\ [][Next]_vars

\* The runner is one loop in one thread and every call it makes returns.
FairSpec == Spec /\ WF_vars(Next)
=============================================================================
