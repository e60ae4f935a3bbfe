---------------------------- MODULE PolicyEngine ----------------------------
(***************************************************************************)
(* recoup.policy: the fixed ladder of eleven rules one proposal is taken    *)
(* through, and the engine's per-run state.                                 *)
(*                                                                         *)
(* A context is what RuleContext carries: the account, what is visible of   *)
(* the invoice, the tick, the payer's contact history and the engine's      *)
(* state.  The ladder has three stretches: two rules that may replace the   *)
(* proposal by an escalation, the vetoes, which all judge what those two    *)
(* left, and three rules that reduce what no veto stopped.                  *)
(***************************************************************************)
EXTENDS Ledger, Clock

CONSTANTS
    MaxContacts,          \* max_contacts_per_payer per window, all invoices
    ContactWindow,        \* contact_window_ticks
    ContactSpacing,       \* min_contact_spacing_ticks
    MaxLinks,             \* max_links_per_invoice
    EscalationThreshold,  \* escalation_threshold_paise
    LinkBudget            \* link_budget, NoBudget when the rule is off

NoBudget == -1

ASSUME PolicyAssumption ==
    /\ MaxContacts \in Nat /\ ContactWindow \in Nat /\ ContactSpacing \in Nat
    /\ MaxLinks \in Nat /\ EscalationThreshold \in Nat
    /\ LinkBudget \in Nat \cup {NoBudget}

Categories == {"P", "S", "T", "G"}
NoDraft == NoCategory     \* llm_proposal.drafted_message is None

-----------------------------------------------------------------------------
(* The two rules that come first in the ladder and replace a proposal.      *)

\* visible-dispute
AfterDispute(ctx, i) == IF ctx.disputed THEN "ESCALATE_HUMAN" ELSE i

\* batch-cluster-suppression, its modifying half
AfterCluster(ctx, i) ==
    IF ctx.suppressed /\ IsContact(i) /\ ~ctx.groupEscalationOpened
    THEN "ESCALATE_HUMAN" ELSE i

\* What the rules after these two judge.
Judged(ctx) == AfterCluster(ctx, AfterDispute(ctx, ctx.original))

-----------------------------------------------------------------------------
(* The vetoes.                                                              *)

ContactHour(t) == HourOfDay(t) \in 8..19
PromotionalHour(t) == HourOfDay(t) \in 10..20

\* The loop `candidate = tick + 1; while not ok: candidate += 1`.
NextTickAt(Allowed(_), t) ==
    CHOOSE c \in t + 1 .. t + TicksPerDay :
        Allowed(c) /\ \A d \in t + 1 .. c - 1 : ~Allowed(d)

Later(a, b) == IF a < b THEN b ELSE a
Floor(t) == Later(0, t - ContactWindow)

\* The latest contact of a non-empty history, and the oldest in the window.
LastContact(ctx) == CHOOSE t \in ctx.contactTicks : \A u \in ctx.contactTicks : u <= t
OldestContact(ctx) ==
    CHOOSE t \in ctx.contactTicks :
        t >= Floor(ctx.tick) /\ \A u \in ctx.contactTicks : u >= Floor(ctx.tick) => t <= u

\* One rule's objection: whether it vetoes, and the tick it defers to.
NothingOutstanding(ctx) ==
    [fires |-> IsContact(ctx.original) /\ ctx.outstanding = 0, defer |-> NoTick]

ClusterSuppression(ctx) ==
    [fires |-> ctx.suppressed /\ IsContact(Judged(ctx)), defer |-> NoTick]

RbiContactHours(ctx) ==
    [fires |-> IsContact(Judged(ctx)) /\ ~ContactHour(ctx.tick),
     defer |-> NextTickAt(ContactHour, ctx.tick)]

TraiPromotionalWindow(ctx) ==
    [fires |-> IsContact(Judged(ctx)) /\ ctx.draft = "P" /\ ~PromotionalHour(ctx.tick),
     defer |-> NextTickAt(PromotionalHour, ctx.tick)]

TraiMessageCategory(ctx) ==
    [fires |-> /\ ctx.draft # NoDraft
               /\ CorrectCategory(Judged(ctx)) \notin {NoCategory, ctx.draft},
     defer |-> NoTick]

\* Mutants: off by one at the frequency cap, one way and the other.
PayerContactFrequencyBelow(ctx) ==
    [fires |-> IsContact(Judged(ctx)) /\ ctx.contactsInWindow >= MaxContacts - 1,
     defer |-> IF ctx.contactsInWindow > 0
               THEN Later(ctx.tick + 1, OldestContact(ctx) + ContactWindow + 1)
               ELSE ctx.tick + Later(1, ContactWindow)]
PayerContactFrequencyAbove(ctx) ==
    [fires |-> IsContact(Judged(ctx)) /\ ctx.contactsInWindow > MaxContacts,
     defer |-> IF ctx.contactsInWindow > 0
               THEN Later(ctx.tick + 1, OldestContact(ctx) + ContactWindow + 1)
               ELSE ctx.tick + Later(1, ContactWindow)]

PayerContactFrequency(ctx) ==
    [fires |-> IsContact(Judged(ctx)) /\ ctx.contactsInWindow >= MaxContacts,
     defer |-> IF ctx.contactsInWindow > 0
               THEN Later(ctx.tick + 1, OldestContact(ctx) + ContactWindow + 1)
               ELSE ctx.tick + Later(1, ContactWindow)]

PayerContactSpacing(ctx) ==
    [fires |-> /\ IsContact(Judged(ctx)) /\ ctx.contactTicks # {}
               /\ ctx.tick - LastContact(ctx) < ContactSpacing,
     defer |-> IF ctx.contactTicks # {}
               THEN Later(ctx.tick + 1, LastContact(ctx) + ContactSpacing) ELSE NoTick]

VetoRules == <<"nothing-outstanding", "batch-cluster-suppression", "rbi-contact-hours",
               "trai-promotional-window", "trai-message-category",
               "payer-contact-frequency", "payer-contact-spacing">>

\* The objections in ladder order: the engine returns the first that fires.
Objections(ctx) ==
    << NothingOutstanding(ctx), ClusterSuppression(ctx), RbiContactHours(ctx),
       TraiPromotionalWindow(ctx), TraiMessageCategory(ctx),
       PayerContactFrequency(ctx), PayerContactSpacing(ctx) >>

-----------------------------------------------------------------------------
(* The three rules that end the ladder reduce what is left.                 *)

AfterLinkCap(ctx, i) ==
    IF i = "PAYMENT_LINK" /\ ctx.links >= MaxLinks THEN "SOFT_REMINDER" ELSE i

\* Mutant: off by one at the link budget.
AfterLinkBudgetLate(ctx, i) ==
    IF i = "PAYMENT_LINK" /\ LinkBudget # NoBudget /\ ctx.linksUsed > LinkBudget
    THEN "SOFT_REMINDER" ELSE i

AfterLinkBudget(ctx, i) ==
    IF i = "PAYMENT_LINK" /\ LinkBudget # NoBudget /\ ctx.linksUsed >= LinkBudget
    THEN "SOFT_REMINDER" ELSE i

AfterHighValue(ctx, i) ==
    IF i = "STOP" /\ ctx.outstanding > EscalationThreshold THEN "ESCALATE_HUMAN" ELSE i

Reduced(ctx) == AfterHighValue(ctx, AfterLinkBudget(ctx, AfterLinkCap(ctx, Judged(ctx))))

-----------------------------------------------------------------------------
(* PolicyEngine.adjudicate: the verdict, and the engine after it.           *)

Firing(ctx) == {k \in DOMAIN VetoRules : Objections(ctx)[k].fires}

Veto(k, ctx) == [verdict |-> "VETOED", final |-> ctx.original, rule |-> VetoRules[k],
                 defer |-> Objections(ctx)[k].defer]

Adjudicate(ctx) ==
    IF Firing(ctx) # {}
    THEN Veto(CHOOSE k \in Firing(ctx) : \A j \in Firing(ctx) : k <= j, ctx)
    ELSE [verdict |-> IF Reduced(ctx) = ctx.original THEN "APPROVED" ELSE "MODIFIED",
          final |-> Reduced(ctx), rule |-> NoCategory, defer |-> NoTick]

\* Mutant: any verdict on a member opens the group's escalation.
EngineAfterAnyVerdict(engine, v, member) ==
    IF v.verdict = "VETOED" THEN engine
    ELSE [engine EXCEPT !.linksUsed = @ + ApiUnits(v.final),
                        !.groupEscalationOpened = @ \/ member]

\* A veto leaves the engine alone; any other verdict may spend a link and
\* may be the group's one escalation.
EngineAfter(engine, v, member) ==
    IF v.verdict = "VETOED" THEN engine
    ELSE [engine EXCEPT
            !.linksUsed = @ + ApiUnits(v.final),
            !.groupEscalationOpened = @ \/ (member /\ v.final = "ESCALATE_HUMAN")]

FreshEngine == [linksUsed |-> 0, suppressed |-> {}, groupEscalationOpened |-> FALSE]
=============================================================================
