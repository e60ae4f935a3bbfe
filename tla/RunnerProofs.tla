---------------------------- MODULE RunnerProofs ----------------------------
(***************************************************************************)
(* The policy engine and the runner that obeys it, for every book, every    *)
(* horizon, every cadence and every merchant policy the assumptions allow:  *)
(* what the ladder guarantees of one adjudication in every context, then    *)
(* the inductive invariant IInv of the run, then the properties of          *)
(* RunnerProperties.  All of these rest on one lemma: under IInv a step     *)
(* either leaves the ledger alone, or books one outcome on one open record, *)
(* or reviews one record.                                                   *)
(***************************************************************************)
EXTENDS RunnerProperties, LedgerProofs

-----------------------------------------------------------------------------
(* Contexts.                                                                *)

\* What a RuleContext is: a proposal, the draft's category, the tick, and a
\* contact history that lies in the past and agrees with the window count.
IsContext(ctx) ==
    /\ ctx.original \in Interventions
    /\ ctx.tick \in Nat
    /\ ctx.outstanding \in Nat /\ ctx.links \in Nat /\ ctx.linksUsed \in Nat
    /\ ctx.disputed \in BOOLEAN /\ ctx.suppressed \in BOOLEAN
    /\ ctx.groupEscalationOpened \in BOOLEAN
    /\ ctx.contactTicks \subseteq 0 .. ctx.tick
    /\ ctx.contactsInWindow \in Nat
    /\ ctx.contactsInWindow > 0 => \E t \in ctx.contactTicks : t >= Floor(ctx.tick)

-----------------------------------------------------------------------------
(* The hours of the grid.                                                   *)

\* The hours of the grid go round in four.
LEMMA FourHours ==
    ASSUME NEW t \in Nat
    PROVE  /\ HourOfDay(t) \in {2, 8, 14, 20}
           /\ HourOfDay(t) = 20 => HourOfDay(t + 1) = 2
           /\ HourOfDay(t) = 2 => HourOfDay(t + 1) = 8
           /\ HourOfDay(t) = 8 => HourOfDay(t + 1) = 14
           /\ HourOfDay(t) = 14 => HourOfDay(t + 1) = 20
  BY DEF HourOfDay, HoursSinceEpoch, EpochHour, HoursPerTick

\* The deferral loops of the two hour rules end within a day.
LEMMA NextHours ==
    ASSUME NEW t \in Nat
    PROVE  /\ NextTickAt(ContactHour, t) \in t + 1 .. t + 4
           /\ ContactHour(NextTickAt(ContactHour, t))
           /\ NextTickAt(PromotionalHour, t) \in t + 1 .. t + 4
           /\ PromotionalHour(NextTickAt(PromotionalHour, t))
<1>1. /\ t + 1 \in Nat /\ t + 2 \in Nat /\ t + 3 \in Nat
      /\ (t + 1) + 1 = t + 2 /\ (t + 2) + 1 = t + 3 /\ (t + 3) + 1 = t + 4
  OBVIOUS
<1>2. \/ HourOfDay(t + 1) = 2 /\ HourOfDay(t + 2) = 8 /\ HourOfDay(t + 3) = 14
      \/ HourOfDay(t + 1) = 8 /\ HourOfDay(t + 2) = 14
      \/ HourOfDay(t + 1) = 14
      \/ HourOfDay(t + 1) = 20 /\ HourOfDay(t + 2) = 2 /\ HourOfDay(t + 3) = 8
                              /\ HourOfDay(t + 4) = 14
  <2>1. HourOfDay(t + 1) \in {2, 8, 14, 20}
    BY <1>1, FourHours
  <2>2. /\ HourOfDay(t + 1) = 2 => HourOfDay(t + 2) = 8
        /\ HourOfDay(t + 1) = 8 => HourOfDay(t + 2) = 14
        /\ HourOfDay(t + 1) = 20 => HourOfDay(t + 2) = 2
    <3>1. /\ HourOfDay(t + 1) = 2 => HourOfDay((t + 1) + 1) = 8
          /\ HourOfDay(t + 1) = 8 => HourOfDay((t + 1) + 1) = 14
          /\ HourOfDay(t + 1) = 20 => HourOfDay((t + 1) + 1) = 2
      BY <1>1, FourHours
    <3> QED
      BY <3>1, <1>1
  <2>3. /\ HourOfDay(t + 2) = 8 => HourOfDay(t + 3) = 14
        /\ HourOfDay(t + 2) = 2 => HourOfDay(t + 3) = 8
    <3>1. /\ HourOfDay(t + 2) = 8 => HourOfDay((t + 2) + 1) = 14
          /\ HourOfDay(t + 2) = 2 => HourOfDay((t + 2) + 1) = 8
      BY <1>1, FourHours
    <3> QED
      BY <3>1, <1>1
  <2>4. HourOfDay(t + 3) = 8 => HourOfDay(t + 4) = 14
    <3>1. HourOfDay(t + 3) = 8 => HourOfDay((t + 3) + 1) = 14
      BY <1>1, FourHours
    <3> QED
      BY <3>1, <1>1
  <2> QED
    BY <2>1, <2>2, <2>3, <2>4
<1>3. \E c \in t + 1 .. t + 4 : ContactHour(c) /\ \A d \in t + 1 .. c - 1 : ~ContactHour(d)
  BY <1>2 DEF ContactHour
<1>4. \E c \in t + 1 .. t + 4 :
          PromotionalHour(c) /\ \A d \in t + 1 .. c - 1 : ~PromotionalHour(d)
  BY <1>2 DEF PromotionalHour
<1>5. TicksPerDay = 4
  BY DEF TicksPerDay, HoursPerTick
<1> QED
  BY <1>3, <1>4, <1>5 DEF NextTickAt

\* The floor of the frequency window is a tick of the run.
LEMMA FloorType ==
    ASSUME NEW t \in Nat
    PROVE  Floor(t) \in Nat /\ Floor(t) <= t /\ Floor(t) + ContactWindow >= t
  BY PolicyAssumption DEF Floor, Later

\* The history has the contacts the two frequency rules look for.
LEMMA HistoryEnds ==
    ASSUME NEW ctx, IsContext(ctx)
    PROVE  /\ ctx.contactTicks # {} =>
                 /\ LastContact(ctx) \in ctx.contactTicks
                 /\ \A t \in ctx.contactTicks : t <= LastContact(ctx)
           /\ ctx.contactsInWindow > 0 =>
                 /\ OldestContact(ctx) \in ctx.contactTicks
                 /\ OldestContact(ctx) >= Floor(ctx.tick)
<1>1. ASSUME ctx.contactTicks # {}
      PROVE  \E t \in ctx.contactTicks : \A u \in ctx.contactTicks : u <= t
  <2>1. ctx.contactTicks \in SUBSET (0 .. ctx.tick) /\ ctx.tick \in Nat
    BY DEF IsContext
  <2> QED
    BY <1>1, <2>1, GreatestTick
<1>2. ASSUME ctx.contactsInWindow > 0
      PROVE  \E t \in ctx.contactTicks :
                /\ t >= Floor(ctx.tick)
                /\ \A u \in ctx.contactTicks : u >= Floor(ctx.tick) => t <= u
  <2> DEFINE recent == {t \in ctx.contactTicks : t >= Floor(ctx.tick)}
  <2>1. recent \in SUBSET Nat /\ recent # {}
    BY <1>2 DEF IsContext
  <2>2. PICK x \in recent : \A y \in recent : x <= y
    BY <2>1, LeastTick
  <2> QED
    BY <2>2
<1> QED
  BY <1>1, <1>2 DEF LastContact, OldestContact

-----------------------------------------------------------------------------
(* The three stretches of the ladder.                                       *)

\* The rules that modify only ever move down the contact-intensity table, the
\* table CONTACT_INTENSITY that policy.context says licenses the single pass.
LEMMA LadderDescends ==
    ASSUME NEW ctx, IsContext(ctx)
    PROVE  /\ Judged(ctx) \in Interventions /\ Reduced(ctx) \in Interventions
           /\ Judged(ctx) \in {ctx.original, "ESCALATE_HUMAN"}
           /\ IsContact(Judged(ctx)) => Judged(ctx) = ctx.original /\ ~ctx.disputed
           /\ IsContact(Reduced(ctx)) => IsContact(Judged(ctx))
           /\ ContactIntensity(Reduced(ctx)) <= ContactIntensity(Judged(ctx))
           /\ ContactIntensity(Judged(ctx)) <= ContactIntensity(ctx.original)
  BY DEF IsContext, Judged, AfterDispute, AfterCluster, Reduced, AfterLinkCap,
         AfterLinkBudget, AfterHighValue, IsContact, ContactInterventions, Interventions,
         ContactIntensity

\* An objection that fires defers to a later tick or to none, so the check
\* record_action makes of next_review_override never raises.
LEMMA ObjectionsDeferLater ==
    ASSUME NEW ctx, IsContext(ctx), NEW k \in 1 .. 7
    PROVE  /\ Objections(ctx)[k].fires \in BOOLEAN
           /\ Objections(ctx)[k].defer \in Nat \cup {NoTick}
           /\ Objections(ctx)[k].defer # NoTick => Objections(ctx)[k].defer > ctx.tick
<1>1. CASE k = 1
  BY <1>1 DEF Objections, NothingOutstanding
<1>2. CASE k = 2
  BY <1>2 DEF Objections, ClusterSuppression
<1>3. CASE k = 3
  <2>1. ctx.tick \in Nat
    BY DEF IsContext
  <2>2. NextTickAt(ContactHour, ctx.tick) \in ctx.tick + 1 .. ctx.tick + 4
    BY <2>1, NextHours
  <2>3. NextTickAt(ContactHour, ctx.tick) \in Nat /\ NextTickAt(ContactHour, ctx.tick) > ctx.tick
    BY <2>1, <2>2
  <2>4. Objections(ctx)[k] = RbiContactHours(ctx)
    BY <1>3 DEF Objections
  <2> QED
    BY <2>3, <2>4 DEF RbiContactHours
<1>4. CASE k = 4
  <2>1. ctx.tick \in Nat
    BY DEF IsContext
  <2>2. NextTickAt(PromotionalHour, ctx.tick) \in ctx.tick + 1 .. ctx.tick + 4
    BY <2>1, NextHours
  <2>3. NextTickAt(PromotionalHour, ctx.tick) \in Nat
        /\ NextTickAt(PromotionalHour, ctx.tick) > ctx.tick
    BY <2>1, <2>2
  <2>4. Objections(ctx)[k] = TraiPromotionalWindow(ctx)
    BY <1>4 DEF Objections
  <2> QED
    BY <2>3, <2>4 DEF TraiPromotionalWindow
<1>5. CASE k = 5
  BY <1>5 DEF Objections, TraiMessageCategory
<1>6. CASE k = 6
  <2>1. /\ ctx.tick \in Nat /\ ctx.contactsInWindow \in Nat
        /\ ctx.contactTicks \subseteq 0 .. ctx.tick
        /\ ContactWindow \in Nat
    BY PolicyAssumption DEF IsContext
  <2>2. ctx.contactsInWindow > 0 => OldestContact(ctx) \in Nat
    BY <2>1, HistoryEnds
  <2>3. Objections(ctx)[k] = PayerContactFrequency(ctx)
    BY <1>6 DEF Objections
  <2> QED
    BY <2>1, <2>2, <2>3 DEF PayerContactFrequency, Later, NoTick
<1>7. CASE k = 7
  <2>1. /\ ctx.tick \in Nat /\ ContactSpacing \in Nat
        /\ ctx.contactTicks \subseteq 0 .. ctx.tick
    BY PolicyAssumption DEF IsContext
  <2>2. ctx.contactTicks # {} => LastContact(ctx) \in Nat
    BY <2>1, HistoryEnds
  <2>3. Objections(ctx)[k] = PayerContactSpacing(ctx)
    BY <1>7 DEF Objections
  <2> QED
    BY <2>1, <2>2, <2>3 DEF PayerContactSpacing, Later, NoTick
<1> QED
  BY <1>1, <1>2, <1>3, <1>4, <1>5, <1>6, <1>7

\* The engine returns the first rule that objects, and one exists.
LEMMA FirstObjection ==
    ASSUME NEW ctx, Firing(ctx) # {}
    PROVE  \E k \in Firing(ctx) :
              /\ Adjudicate(ctx) = Veto(k, ctx)
              /\ \A j \in Firing(ctx) : k <= j
<1>1. Firing(ctx) \in SUBSET (1 .. 7)
  BY DEF Firing, VetoRules
<1>2. \E k \in Firing(ctx) : \A j \in Firing(ctx) : k <= j
  BY <1>1, LeastTick
<1> QED
  BY <1>2 DEF Adjudicate

-----------------------------------------------------------------------------
(* What an adjudication guarantees.                                         *)

\* A verdict is one of the three kinds, keeps an intervention, and defers to
\* a later tick or to none: record_action's check of the override
\* (ledger.py:314) never raises.
THEOREM VerdictIsSound ==
    ASSUME NEW ctx, IsContext(ctx)
    PROVE  LET v == Adjudicate(ctx)
           IN  /\ v.verdict \in {"APPROVED", "MODIFIED", "VETOED"}
               /\ v.final \in Interventions
               /\ v.defer \in Nat \cup {NoTick}
               /\ v.defer # NoTick => v.defer > ctx.tick
               /\ v.verdict # "VETOED" => v.final = Reduced(ctx) /\ v.defer = NoTick
<1>1. CASE Firing(ctx) # {}
  <2>1. PICK k \in Firing(ctx) : Adjudicate(ctx) = Veto(k, ctx)
    BY <1>1, FirstObjection
  <2>2. k \in 1 .. 7
    BY DEF Firing, VetoRules
  <2>3. ctx.original \in Interventions
    BY DEF IsContext
  <2> QED
    BY <2>1, <2>2, <2>3, ObjectionsDeferLater DEF Veto
<1>2. CASE Firing(ctx) = {}
  BY <1>2, LadderDescends DEF Adjudicate
<1> QED
  BY <1>1, <1>2

\* What was not vetoed met no objection of any of the seven rules.
LEMMA NoObjectionFires ==
    ASSUME NEW ctx, Adjudicate(ctx).verdict # "VETOED"
    PROVE  /\ Firing(ctx) = {}
           /\ ~NothingOutstanding(ctx).fires /\ ~ClusterSuppression(ctx).fires
           /\ ~RbiContactHours(ctx).fires /\ ~TraiPromotionalWindow(ctx).fires
           /\ ~TraiMessageCategory(ctx).fires /\ ~PayerContactFrequency(ctx).fires
           /\ ~PayerContactSpacing(ctx).fires
<1>1. Firing(ctx) = {}
  BY FirstObjection DEF Veto
<1>2. \A k \in 1 .. 7 : ~Objections(ctx)[k].fires
  BY <1>1 DEF Firing, VetoRules
<1>3. /\ Objections(ctx)[1] = NothingOutstanding(ctx)
      /\ Objections(ctx)[2] = ClusterSuppression(ctx)
      /\ Objections(ctx)[3] = RbiContactHours(ctx)
      /\ Objections(ctx)[4] = TraiPromotionalWindow(ctx)
      /\ Objections(ctx)[5] = TraiMessageCategory(ctx)
      /\ Objections(ctx)[6] = PayerContactFrequency(ctx)
      /\ Objections(ctx)[7] = PayerContactSpacing(ctx)
  BY DEF Objections
<1> QED
  BY <1>1, <1>2, <1>3

\* A contact the engine lets through breaks none of the limits, whichever
\* rule it was modified by on the way and in whatever order they stand: money
\* is owed, nothing disputed or suppressed, the hour and the draft are lawful
\* and the payer has been left alone for long enough.
THEOREM ContactsAreLawful ==
    ASSUME NEW ctx, IsContext(ctx), Adjudicate(ctx).verdict # "VETOED",
           IsContact(Adjudicate(ctx).final)
    PROVE  /\ ctx.outstanding > 0
           /\ ~ctx.disputed /\ ~ctx.suppressed
           /\ ContactHour(ctx.tick)
           /\ ctx.draft = "P" => PromotionalHour(ctx.tick)
           /\ ctx.contactsInWindow < MaxContacts
           /\ \A t \in ctx.contactTicks : ctx.tick - t >= ContactSpacing
<1>1. IsContact(Reduced(ctx))
  BY VerdictIsSound
<1>2. IsContact(Judged(ctx)) /\ Judged(ctx) = ctx.original /\ ~ctx.disputed
  BY <1>1, LadderDescends
<1>3. ctx.outstanding > 0
  <2>1. ~(IsContact(ctx.original) /\ ctx.outstanding = 0)
    BY NoObjectionFires DEF NothingOutstanding
  <2>2. ctx.outstanding \in Nat
    BY DEF IsContext
  <2> QED
    BY <1>2, <2>1, <2>2
<1>4. /\ ~ctx.suppressed /\ ContactHour(ctx.tick)
      /\ ctx.draft = "P" => PromotionalHour(ctx.tick)
  <2>1. /\ ~(ctx.suppressed /\ IsContact(Judged(ctx)))
        /\ ~(IsContact(Judged(ctx)) /\ ~ContactHour(ctx.tick))
        /\ ~(IsContact(Judged(ctx)) /\ ctx.draft = "P" /\ ~PromotionalHour(ctx.tick))
    BY NoObjectionFires DEF ClusterSuppression, RbiContactHours, TraiPromotionalWindow
  <2> QED
    BY <1>2, <2>1
<1>5. ctx.contactsInWindow < MaxContacts
  <2>1. ~(IsContact(Judged(ctx)) /\ ctx.contactsInWindow >= MaxContacts)
    BY NoObjectionFires DEF PayerContactFrequency
  <2>2. ctx.contactsInWindow \in Nat /\ MaxContacts \in Nat
    BY PolicyAssumption DEF IsContext
  <2> QED
    BY <1>2, <2>1, <2>2
<1>6. \A t \in ctx.contactTicks : ctx.tick - t >= ContactSpacing
  <2>1. SUFFICES ASSUME ctx.contactTicks # {}
                 PROVE  \A t \in ctx.contactTicks : ctx.tick - t >= ContactSpacing
    OBVIOUS
  <2>2. ~(ctx.tick - LastContact(ctx) < ContactSpacing)
    BY <1>2, <2>1, NoObjectionFires DEF PayerContactSpacing
  <2>3. /\ LastContact(ctx) \in ctx.contactTicks
        /\ \A t \in ctx.contactTicks : t <= LastContact(ctx)
    BY <2>1, HistoryEnds
  <2>4. ctx.tick \in Nat /\ ctx.contactTicks \subseteq 0 .. ctx.tick /\ ContactSpacing \in Nat
    BY PolicyAssumption DEF IsContext
  <2> QED
    BY <2>2, <2>3, <2>4
<1> QED
  BY <1>2, <1>3, <1>4, <1>5, <1>6

\* Two contexts that differ at most in what is proposed.
SameSituation(ctx, again) ==
    /\ again.draft = ctx.draft /\ again.tick = ctx.tick
    /\ again.disputed = ctx.disputed /\ again.suppressed = ctx.suppressed
    /\ again.groupEscalationOpened = ctx.groupEscalationOpened
    /\ again.outstanding = ctx.outstanding
    /\ again.links = ctx.links /\ again.linksUsed = ctx.linksUsed
    /\ again.contactTicks = ctx.contactTicks
    /\ again.contactsInWindow = ctx.contactsInWindow

\* What the ladder leaves is left as it is by a second walk.
LEMMA ReducedIsStable ==
    ASSUME NEW ctx, NEW again, IsContext(ctx), SameSituation(ctx, again),
           Adjudicate(ctx).verdict # "VETOED", again.original = Reduced(ctx)
    PROVE  Judged(again) = Reduced(ctx) /\ Reduced(again) = Reduced(ctx)
<1>1. CASE IsContact(Reduced(ctx))
  <2>1. /\ Adjudicate(ctx).final = Reduced(ctx)
        /\ ~ctx.disputed /\ ~ctx.suppressed
    BY <1>1, VerdictIsSound, ContactsAreLawful
  <2>2. Judged(again) = Reduced(ctx)
    BY <2>1 DEF Judged, AfterDispute, AfterCluster, SameSituation
  <2> QED
    BY <2>2 DEF Reduced, AfterLinkCap, AfterLinkBudget, AfterHighValue, SameSituation
<1>2. CASE ~IsContact(Reduced(ctx))
  <2>1. ctx.disputed => Reduced(ctx) = "ESCALATE_HUMAN"
    BY DEF Reduced, AfterLinkCap, AfterLinkBudget, AfterHighValue, Judged, AfterDispute,
           AfterCluster
  <2>2. Judged(again) = Reduced(ctx)
    BY <1>2, <2>1 DEF Judged, AfterDispute, AfterCluster, SameSituation
  <2> QED
    BY <2>2 DEF Reduced, AfterLinkCap, AfterLinkBudget, AfterHighValue, SameSituation
<1> QED
  BY <1>1, <1>2

\* One pass is enough: what the engine lets through, proposed again in the
\* same situation, is approved as it stands.  The ladder asks no rule again
\* after a later one has modified the proposal, and need not.
THEOREM OnePassIsEnough ==
    ASSUME NEW ctx, NEW again, IsContext(ctx), SameSituation(ctx, again),
           Adjudicate(ctx).verdict # "VETOED", again.original = Adjudicate(ctx).final
    PROVE  Adjudicate(again).verdict = "APPROVED" /\ Adjudicate(again).final = again.original
<1>1. again.original = Reduced(ctx)
  BY VerdictIsSound
<1>2. Judged(again) = Reduced(ctx) /\ Reduced(again) = Reduced(ctx)
  BY <1>1, ReducedIsStable
<1>3. IsContact(Reduced(ctx)) => IsContact(Judged(ctx)) /\ IsContact(ctx.original)
  BY LadderDescends
<1>4. CorrectCategory(Reduced(ctx)) \in {NoCategory, CorrectCategory(Judged(ctx))}
  BY LadderDescends DEF Reduced, AfterLinkCap, AfterLinkBudget, AfterHighValue,
     CorrectCategory, NoCategory
<1>5. \A k \in 1 .. 7 : ~Objections(again)[k].fires
  <2>1. ~NothingOutstanding(again).fires
    BY <1>1, <1>3, NoObjectionFires DEF NothingOutstanding, SameSituation
  <2>2. ~ClusterSuppression(again).fires
    BY <1>2, <1>3, NoObjectionFires DEF ClusterSuppression, SameSituation
  <2>3. ~RbiContactHours(again).fires
    BY <1>2, <1>3, NoObjectionFires DEF RbiContactHours, SameSituation
  <2>4. ~TraiPromotionalWindow(again).fires
    BY <1>2, <1>3, NoObjectionFires DEF TraiPromotionalWindow, SameSituation
  <2>5. ~TraiMessageCategory(again).fires
    BY <1>2, <1>4, NoObjectionFires DEF TraiMessageCategory, SameSituation
  <2>6. ~PayerContactFrequency(again).fires
    BY <1>2, <1>3, NoObjectionFires DEF PayerContactFrequency, SameSituation
  <2>7. ~PayerContactSpacing(again).fires
    <3>1. LastContact(again) = LastContact(ctx)
      BY DEF LastContact, SameSituation
    <3> QED
      BY <1>2, <1>3, <3>1, NoObjectionFires DEF PayerContactSpacing, SameSituation
  <2> QED
    BY <2>1, <2>2, <2>3, <2>4, <2>5, <2>6, <2>7 DEF Objections
<1>6. Firing(again) = {}
  BY <1>5 DEF Firing, VetoRules
<1> QED
  BY <1>1, <1>2, <1>6 DEF Adjudicate

-----------------------------------------------------------------------------
(* The inductive invariant.                                                 *)

\* The ledger records no contact of the future.
Past ==
    \A i \in Invoices : \A k \in DOMAIN accounts[i].attempts : accounts[i].attempts[k] <= tick

\* What may still be in the list a step walks: nothing the step visits has
\* changed since the list was computed.
Walks ==
    /\ phase \in {"open", "land", "closed"} => todo = {}
    /\ phase \in {"promises", "spontaneous"} => todo \subseteq Active(accounts)
    /\ phase = "decide" => todo \subseteq DueForReview(accounts, tick)
    /\ phase = "finalise" => \A i \in todo : accounts[i].state = "EXHAUSTED"

\* A contact whose answer is in flight holds its record out of review until
\* the answer has landed, and out of every state that needs no answer but PAID.
InFlight ==
    /\ \A p \in pending :
        /\ tick <= p.due
        /\ phase \in {"promises", "spontaneous", "decide"} => tick < p.due
        /\ p.due < accounts[p.invoice].nextReview
        /\ phase = "decide" => p.invoice \notin todo
        /\ accounts[p.invoice].state \in {"CONTACTED", "PROMISED", "DISPUTED", "PAID"}
    /\ \A p, q \in pending : p.invoice = q.invoice => p = q

\* STOP is for good: the record's next review is past the horizon.
GivenUp ==
    \A i \in Invoices : accounts[i].state = "EXHAUSTED" => accounts[i].nextReview >= ReviewNever

IInv == TypeOK /\ Past /\ Walks /\ InFlight /\ GivenUp

-----------------------------------------------------------------------------
(* What the world does to one account.                                      *)

\* A balance, a bill and an account are what they should be.
LEMMA OpenType ==
    ASSUME NEW i \in Invoices, TypeOK
    PROVE  Open(i) \in Nat /\ Amount[i] \in Nat /\ accounts[i] \in Accounts
  BY RunnerAssumption DEF TypeOK, Accounts, Open, Outstanding

\* Every outcome the adjudicator can produce is well formed, and each step of
\* the tick produces only its own kinds.
LEMMA OutcomesOfTheRun ==
    ASSUME NEW i \in Invoices, TypeOK
    PROVE  /\ \A o \in Responses(i) :
                /\ o \in Outcomes /\ o.kind \in ResponseKinds
                /\ o.kind = "PROMISED" => o.phrase \in PhrasesOf[i]
                /\ o.kind = "PAID_FULL" => o.amount = Open(i)
           /\ \A o \in SpontaneousPayments(i) :
                /\ o \in Outcomes /\ o.kind \in {"PAID_FULL", "PAID_PARTIAL"}
                /\ o.kind = "PAID_FULL" => o.amount = Open(i)
           /\ \A o \in PromiseOutcomes(i) :
                /\ o \in Outcomes /\ o.kind \in {"PAID_FULL", "PROMISE_BROKEN"}
                /\ o.kind = "PAID_FULL" => o.amount = Open(i)
<1>1. Open(i) \in Nat
  BY OpenType
<1>2. PhrasesOf[i] \subseteq Phrases
  BY PromiseAssumption
<1>3. FullPayment(i) \in Outcomes /\ FullPayment(i).kind = "PAID_FULL" /\ FullPayment(i).amount = Open(i)
  BY <1>1 DEF FullPayment, Outcome, Outcomes, OutcomeKinds
<1>4. \A o \in PartialPayments(i) : o \in Outcomes /\ o.kind = "PAID_PARTIAL"
  <2>1. SUFFICES ASSUME NEW percent \in 33 .. 84
                 PROVE  Later(1, (Open(i) * percent) \div 100) \in Nat
    BY DEF PartialPayments, Outcome, Outcomes, OutcomeKinds
  <2>2. Open(i) * percent \in Int
    BY <1>1
  <2>3. (Open(i) * percent) \div 100 \in Int
    BY <2>2
  <2> QED
    BY <2>3 DEF Later
<1>5. \A k \in OutcomeKinds : Outcome(k, 0) \in Outcomes /\ Outcome(k, 0).kind = k
  BY DEF Outcome, Outcomes
<1>6. \A o \in Responses(i) :
        /\ o \in Outcomes /\ o.kind \in ResponseKinds
        /\ o.kind = "PROMISED" => o.phrase \in PhrasesOf[i]
        /\ o.kind = "PAID_FULL" => o.amount = Open(i)
  <2>1. SUFFICES ASSUME NEW o \in Responses(i)
                 PROVE  /\ o \in Outcomes /\ o.kind \in ResponseKinds
                        /\ o.kind = "PROMISED" => o.phrase \in PhrasesOf[i]
                        /\ o.kind = "PAID_FULL" => o.amount = Open(i)
    OBVIOUS
  <2>2. o.kind \in ResponseKinds
    BY DEF Responses
  <2>3. CASE o = FullPayment(i)
    BY <1>3, <2>2, <2>3
  <2>4. CASE o \in PartialPayments(i)
    BY <1>4, <2>2, <2>4
  <2>5. CASE \E k \in OutcomeKinds \ {"PAID_FULL", "PAID_PARTIAL", "PROMISED"} : o = Outcome(k, 0)
    BY <1>5, <2>2, <2>5
  <2>6. CASE \E p \in PhrasesOf[i] : o = [kind |-> "PROMISED", amount |-> 0, phrase |-> p]
    BY <1>2, <2>2, <2>6 DEF Outcomes, OutcomeKinds
  <2> QED
    BY <2>3, <2>4, <2>5, <2>6 DEF Responses
<1>7. \A o \in SpontaneousPayments(i) :
        /\ o \in Outcomes /\ o.kind \in {"PAID_FULL", "PAID_PARTIAL"}
        /\ o.kind = "PAID_FULL" => o.amount = Open(i)
  BY <1>3, <1>4 DEF SpontaneousPayments
<1>8. \A o \in PromiseOutcomes(i) :
        /\ o \in Outcomes /\ o.kind \in {"PAID_FULL", "PROMISE_BROKEN"}
        /\ o.kind = "PAID_FULL" => o.amount = Open(i)
  BY <1>3, <1>5 DEF PromiseOutcomes, OutcomeKinds, Outcome
<1> QED
  BY <1>6, <1>7, <1>8

\* An outcome reaches one account and leaves its contacts, its links and its
\* next review alone.
LEMMA ApplyEffect ==
    ASSUME NEW i \in Invoices, NEW o \in Outcomes, TypeOK, Apply(i, o),
           o.kind = "PROMISED" => o.phrase \in PhrasesOf[i] /\ tick < Horizon
    PROVE  /\ accounts' \in [Invoices -> Accounts]
           /\ \A j \in Invoices : j # i => accounts'[j] = accounts[j]
           /\ accounts'[i] = ApplyOutcome(Amount[i], accounts[i], o, tick)
           /\ accounts'[i].nextReview = accounts[i].nextReview
           /\ accounts'[i].attempts = accounts[i].attempts
           /\ accounts'[i].links = accounts[i].links
<1>1. /\ accounts \in [Invoices -> Accounts] /\ accounts[i] \in Accounts
      /\ tick \in Nat /\ Amount[i] \in Nat
  BY OpenType DEF TypeOK
<1>2. o.kind = "PROMISED" =>
         o.phrase \in Phrases /\ Resolve[o.phrase][tick] \in Nat \cup {NoTick}
  <2>1. SUFFICES ASSUME o.kind = "PROMISED"
                 PROVE  o.phrase \in Phrases /\ Resolve[o.phrase][tick] \in Nat \cup {NoTick}
    OBVIOUS
  <2>2. tick \in 0 .. Horizon - 1
    BY <2>1, RunnerAssumption DEF TypeOK
  <2> QED
    BY <2>1, <2>2, PromiseAssumption
<1>3. accounts' = [accounts EXCEPT ![i] = ApplyOutcome(Amount[i], accounts[i], o, tick)]
  BY DEF Apply
<1> DEFINE b == ApplyOutcome(Amount[i], accounts[i], o, tick)
<1>4. /\ b \in Accounts /\ b.nextReview = accounts[i].nextReview
      /\ b.attempts = accounts[i].attempts /\ b.links = accounts[i].links
  BY <1>1, <1>2, OutcomeType
<1> HIDE DEF b
<1> QED
  BY <1>1, <1>3, <1>4 DEF b

-----------------------------------------------------------------------------
(* The context a review adjudicates.                                        *)

\* A payer's contacts are finitely many, so counting them makes sense.
LEMMA ContactsAreFinite ==
    ASSUME TypeOK, NEW S \in SUBSET Invoices, NEW t \in Nat
    PROVE  IsFiniteSet(ContactsSince(accounts, S, t))
<1> DEFINE recent(i) == {n \in DOMAIN accounts[i].attempts : accounts[i].attempts[n] >= t}
           pairs(i) == {<<i, k>> : k \in recent(i)}
<1>1. ASSUME NEW i \in S
      PROVE  IsFiniteSet(pairs(i))
  <2>1. accounts[i].attempts \in Seq(Nat)
    BY DEF TypeOK, Accounts
  <2>2. IsFiniteSet(1 .. Len(accounts[i].attempts))
    BY <2>1, FS_Interval
  <2>3. recent(i) \in SUBSET (1 .. Len(accounts[i].attempts))
    BY <2>1
  <2>4. IsFiniteSet(recent(i))
    BY <2>2, <2>3, FS_Subset
  <2>5. [k \in recent(i) |-> <<i, k>>] \in Surjection(recent(i), pairs(i))
    BY DEF Surjection
  <2> QED
    BY <2>4, <2>5, FS_Surjection
<1> DEFINE parts == {pairs(i) : i \in S}
<1>2. IsFiniteSet(S)
  <2>1. NumInvoices \in Int
    BY RunnerAssumption
  <2>2. IsFiniteSet(Invoices)
    BY <2>1, FS_Interval DEF Invoices
  <2> QED
    BY <2>2, FS_Subset
<1>3. [i \in S |-> pairs(i)] \in Surjection(S, parts)
  BY DEF Surjection
<1>4. IsFiniteSet(parts)
  BY <1>2, <1>3, FS_Surjection
<1>5. \A part \in parts : IsFiniteSet(part)
  BY <1>1
<1>6. IsFiniteSet(UNION parts)
  <2> HIDE DEF parts
  <2> QED
    BY <1>4, <1>5, FS_UNION
<1>7. ContactsSince(accounts, S, t) = UNION parts
  BY DEF ContactsSince
<1> QED
  BY <1>6, <1>7

\* Every arm proposes an intervention of the closed enum.
LEMMA ProposalsAreInterventions ==
    ASSUME NEW i \in Invoices, NEW proposal \in Proposals(i)
    PROVE  proposal.intervention \in Interventions
<1>1. NaiveChoice(accounts[i]) \in Interventions
  BY DEF NaiveChoice, Interventions
<1> QED
  BY <1>1, RunnerAssumption DEF Proposals, Arms, Interventions

\* A review hands the engine a context: the history it reads off the ledger
\* lies in the past and agrees with the count the frequency rule reads.
LEMMA ReviewsHaveContexts ==
    ASSUME NEW i \in Invoices, NEW proposal \in Proposals(i), TypeOK, Past
    PROVE  IsContext(Context(i, proposal))
<1> DEFINE ctx == Context(i, proposal)
           mine == PayerInvoices(i)
           recent == ContactsSince(accounts, mine, Floor(tick))
<1>1. tick \in Nat /\ Floor(tick) \in Nat
  BY FloorType DEF TypeOK
<1>2. mine \in SUBSET Invoices
  BY DEF PayerInvoices
<1>3. IsFiniteSet(recent)
  BY <1>1, <1>2, ContactsAreFinite
<1>4. Cardinality(recent) \in Nat
  BY <1>3, FS_CardinalityType
<1>5. \A j \in mine : \A k \in DOMAIN accounts[j].attempts :
          accounts[j].attempts[k] \in 0 .. tick
  BY <1>1, <1>2 DEF TypeOK, Accounts, Past
<1>6. PayerContactTicks(accounts, mine) \subseteq 0 .. tick
  BY <1>5 DEF PayerContactTicks
<1>7. ASSUME Cardinality(recent) > 0
      PROVE  \E t \in PayerContactTicks(accounts, mine) : t >= Floor(tick)
  <2>1. recent # {}
    BY <1>7, FS_EmptySet
  <2>2. PICK j \in mine : \E k \in DOMAIN accounts[j].attempts :
                              accounts[j].attempts[k] >= Floor(tick)
    BY <2>1 DEF ContactsSince
  <2> QED
    BY <2>2 DEF PayerContactTicks
<1>8. /\ Open(i) \in Nat /\ accounts[i].links \in Nat /\ engine.linksUsed \in Nat
      /\ engine.groupEscalationOpened \in BOOLEAN
  BY OpenType DEF TypeOK, Accounts
<1>9. /\ ctx.original = proposal.intervention /\ ctx.tick = tick /\ ctx.outstanding = Open(i)
      /\ ctx.links = accounts[i].links /\ ctx.linksUsed = engine.linksUsed
      /\ ctx.disputed = (accounts[i].state = "DISPUTED" \/ i \in TextDispute)
      /\ ctx.suppressed = (i \in engine.suppressed)
      /\ ctx.groupEscalationOpened = engine.groupEscalationOpened
      /\ ctx.contactTicks = PayerContactTicks(accounts, mine)
      /\ ctx.contactsInWindow = Cardinality(recent)
  BY DEF Context, PayerContactsSince
<1> HIDE DEF ctx, recent, mine
<1>10. ctx.disputed \in BOOLEAN /\ ctx.suppressed \in BOOLEAN
  BY <1>9
<1> QED
  BY <1>1, <1>4, <1>6, <1>7, <1>8, <1>9, <1>10, ProposalsAreInterventions DEF IsContext, ctx

\* What a decision is: an intervention, a deferral to a later tick or none,
\* and under a policy gate only lawful contacts and no abandoned high value.
LEMMA DecisionsAreLawful ==
    ASSUME NEW i \in Invoices, NEW proposal \in Proposals(i), TypeOK, Past
    PROVE  LET v == Decision(i, proposal)
               ctx == Context(i, proposal)
           IN  /\ v.final \in Interventions
               /\ v.defer \in Nat \cup {NoTick}
               /\ v.defer # NoTick => v.defer > tick
               /\ HasPolicy /\ v.verdict # "VETOED" /\ IsContact(v.final) =>
                     /\ Open(i) > 0 /\ ContactHour(tick)
                     /\ accounts[i].state # "DISPUTED"
                     /\ i \notin TextDispute /\ i \notin engine.suppressed
                     /\ PayerContactsSince(accounts, PayerInvoices(i), Floor(tick)) < MaxContacts
                     /\ \A t \in PayerContactTicks(accounts, PayerInvoices(i)) :
                           tick - t >= ContactSpacing
               /\ HasPolicy /\ v.verdict # "VETOED" => v.final = Reduced(ctx)
<1> DEFINE ctx == Context(i, proposal)
           v == Decision(i, proposal)
<1>1. IsContext(ctx)
  BY ReviewsHaveContexts
<1>2. proposal.intervention \in Interventions
  BY ProposalsAreInterventions
<1>3. CASE HasPolicy
  <2>1. v = Adjudicate(ctx)
    BY <1>3 DEF Decision
  <2>2. ctx.tick = tick
    BY DEF Context
  <2>3. /\ v.final \in Interventions /\ v.defer \in Nat \cup {NoTick}
        /\ v.defer # NoTick => v.defer > tick
        /\ v.verdict # "VETOED" => v.final = Reduced(ctx)
    <3> HIDE DEF ctx, v
    <3> QED
      BY <1>1, <2>1, <2>2, VerdictIsSound
  <2>4. ASSUME v.verdict # "VETOED", IsContact(v.final)
        PROVE  /\ ctx.outstanding > 0 /\ ~ctx.disputed /\ ~ctx.suppressed
               /\ ContactHour(ctx.tick) /\ ctx.contactsInWindow < MaxContacts
               /\ \A t \in ctx.contactTicks : ctx.tick - t >= ContactSpacing
    <3> HIDE DEF ctx, v
    <3> QED
      BY <1>1, <2>1, <2>4, ContactsAreLawful
  <2>5. /\ ctx.outstanding = Open(i)
        /\ ctx.disputed = (accounts[i].state = "DISPUTED" \/ i \in TextDispute)
        /\ ctx.suppressed = (i \in engine.suppressed)
        /\ ctx.contactTicks = PayerContactTicks(accounts, PayerInvoices(i))
        /\ ctx.contactsInWindow = PayerContactsSince(accounts, PayerInvoices(i), Floor(tick))
    BY DEF Context
  <2> HIDE DEF ctx, v
  <2> QED
    BY <2>2, <2>3, <2>4, <2>5 DEF ctx, v
<1>4. CASE ~HasPolicy
  BY <1>2, <1>4 DEF Decision
<1> QED
  BY <1>3, <1>4

\* A review reaches one account: a veto moves its next review, anything else
\* is record_action, and only a contact leaves an answer in flight.
LEMMA ReviewEffect ==
    ASSUME NEW i \in Invoices, TypeOK, Past, Review(i)
    PROVE  /\ phase = "decide" /\ i \in todo
           /\ todo' = todo \ {i} /\ UNCHANGED <<tick, phase>>
           /\ accounts' \in [Invoices -> Accounts]
           /\ \A j \in Invoices : j # i => accounts'[j] = accounts[j]
           /\ \/ /\ \E n \in Nat : accounts'[i] = [accounts[i] EXCEPT !.nextReview = n]
                 /\ UNCHANGED <<pending, engine>>
              \/ \E final \in Interventions :
                    /\ accounts'[i] = RecordAction(accounts[i], final, tick)
                    /\ pending' = IF IsContact(final)
                                  THEN pending \cup {[invoice |-> i, due |-> tick + ResponseDelay]}
                                  ELSE pending
                    /\ ~HasPolicy => engine' = engine
                    /\ HasPolicy =>
                         \E proposal \in Proposals(i) :
                           LET v == Adjudicate(Context(i, proposal))
                           IN  /\ v.verdict # "VETOED" /\ v.final = final
                               /\ engine' = EngineAfter(engine, v, i \in engine.suppressed)
<1>1. PICK proposal \in Proposals(i) :
          \/ ReviewVetoed(i, Decision(i, proposal))
          \/ ReviewExecuted(i, Decision(i, proposal))
  BY DEF Review
<1>2. /\ phase = "decide" /\ i \in todo
      /\ todo' = todo \ {i} /\ UNCHANGED <<tick, phase>>
  BY DEF Review, Visit
<1>3. /\ accounts \in [Invoices -> Accounts] /\ accounts[i] \in Accounts /\ tick \in Nat
  BY DEF TypeOK
<1> DEFINE v == Decision(i, proposal)
<1>4. v.final \in Interventions /\ v.defer \in Nat \cup {NoTick}
  BY DecisionsAreLawful
<1>5. CASE ReviewVetoed(i, v)
  <2> HIDE DEF v
  <2>1. /\ accounts' = [accounts EXCEPT ![i] = RecordVeto(accounts[i], v.final, tick, v.defer)]
        /\ UNCHANGED <<pending, engine>>
    BY <1>5 DEF ReviewVetoed
  <2>2. /\ RecordVeto(accounts[i], v.final, tick, v.defer) \in Accounts
        /\ RecordVeto(accounts[i], v.final, tick, v.defer) =
              [accounts[i] EXCEPT !.nextReview = NextReview(v.final, tick, v.defer)]
    BY <1>3, <1>4, VetoType
  <2>3. NextReview(v.final, tick, v.defer) \in Nat
    BY <1>3, <1>4, ReviewTicksPositive DEF NextReview
  <2> QED
    BY <1>2, <1>3, <2>1, <2>2, <2>3
<1>6. CASE ReviewExecuted(i, v)
  <2>1. HasPolicy => v = Adjudicate(Context(i, proposal))
    BY DEF Decision
  <2> HIDE DEF v
  <2>2. /\ v.verdict # "VETOED"
        /\ accounts' = [accounts EXCEPT ![i] = RecordAction(accounts[i], v.final, tick)]
        /\ engine' = IF HasPolicy THEN EngineAfter(engine, v, i \in engine.suppressed) ELSE engine
        /\ pending' = IF IsContact(v.final)
                      THEN pending \cup {[invoice |-> i, due |-> tick + ResponseDelay]}
                      ELSE pending
    BY <1>6 DEF ReviewExecuted
  <2>3. RecordAction(accounts[i], v.final, tick) \in Accounts
    BY <1>3, <1>4, ActionType
  <2>4. accounts'[i] = RecordAction(accounts[i], v.final, tick)
    BY <1>3, <2>2
  <2>5. accounts' \in [Invoices -> Accounts]
        /\ \A j \in Invoices : j # i => accounts'[j] = accounts[j]
    BY <1>3, <2>2, <2>3
  <2>6. HasPolicy =>
          /\ v = Adjudicate(Context(i, proposal))
          /\ engine' = EngineAfter(engine, v, i \in engine.suppressed)
    BY <2>1, <2>2
  <2> QED
    BY <1>2, <1>4, <2>2, <2>4, <2>5, <2>6
<1> QED
  BY <1>1, <1>5, <1>6

-----------------------------------------------------------------------------
(* The invariant is inductive.                                              *)

\* No outcome exhausts a record, and payments and broken promises keep a
\* record that waits for an answer in the states that may.
LEMMA OutcomeStates ==
    ASSUME NEW i \in Invoices, NEW o \in Outcomes, TypeOK, Apply(i, o),
           o.kind = "PROMISED" => o.phrase \in PhrasesOf[i] /\ tick < Horizon
    PROVE  /\ accounts'[i].state = "EXHAUSTED" => accounts[i].state = "EXHAUSTED"
           /\ o.kind \in {"PAID_FULL", "PAID_PARTIAL", "PROMISE_BROKEN"} =>
                /\ accounts[i].state \in {"CONTACTED", "PROMISED", "DISPUTED", "PAID"} =>
                      accounts'[i].state \in {"CONTACTED", "PROMISED", "DISPUTED", "PAID"}
                /\ ~IsTerminal(accounts[i].state) /\ o.kind = "PAID_FULL" =>
                      accounts'[i].state = "PAID"
<1>1. /\ accounts[i] \in Accounts /\ tick \in Nat /\ Amount[i] \in Nat
  BY OpenType DEF TypeOK
<1>2. accounts'[i] = ApplyOutcome(Amount[i], accounts[i], o, tick)
  BY ApplyEffect
<1>3. /\ o.kind = "PROMISED" => accounts'[i].state \in {"PROMISED", accounts[i].state}
      /\ o.kind # "PROMISED" => accounts'[i].state = StateAfterOutcome(accounts[i].state, o.kind)
  BY <1>1, <1>2, OutcomeEffect
<1>4. accounts[i].state \in RecordStates
  BY <1>1 DEF Accounts
<1> QED
  BY <1>3, <1>4 DEF StateAfterOutcome, Legal, AllowedTransitions, RecordStates, IsTerminal,
     TerminalStates

\* The opening book satisfies the invariant.
LEMMA InitIInv == Init => IInv
<1> SUFFICES ASSUME Init PROVE IInv
  OBVIOUS
<1>1. OpeningAccount \in Accounts
  <2>1. << >> \in Seq(Nat)
    OBVIOUS
  <2> QED
    BY <2>1 DEF OpeningAccount, Accounts, RecordStates, NoTick
<1>2. TypeOK
  BY <1>1, RunnerAssumption DEF Init, TypeOK, FreshEngine, Phases
<1>3. \A i \in Invoices : accounts[i].attempts = << >> /\ accounts[i].state = "AT_RISK"
  BY DEF Init, OpeningAccount
<1> QED
  BY <1>2, <1>3 DEF Init, IInv, Past, Walks, InFlight, GivenUp

\* The intake touches only the engine.
LEMMA OpenRunKeeps == IInv /\ OpenRun => IInv'
<1> SUFFICES ASSUME IInv, OpenRun PROVE IInv'
  OBVIOUS
<1>1. /\ UNCHANGED <<tick, todo, accounts, pending>> /\ phase = "open" /\ phase' = "land"
  BY DEF OpenRun
<1>2. engine' \in [linksUsed: Nat, suppressed: SUBSET Invoices, groupEscalationOpened: BOOLEAN]
  BY DEF OpenRun, IInv, TypeOK
<1> QED
  BY <1>1, <1>2 DEF IInv, TypeOK, Past, Walks, InFlight, GivenUp, Phases

\* A landing answer leaves the list it was in, and its record free for review.
LEMMA LandResponseKeeps ==
    ASSUME NEW p \in pending, IInv, LandResponse(p)
    PROVE  IInv'
<1>1. /\ phase = "land" /\ p.invoice \in Invoices /\ todo = {} /\ tick < Horizon
      /\ pending' = pending \ {p} /\ UNCHANGED <<tick, phase, todo, engine>>
  BY DEF LandResponse, IInv, TypeOK, Walks
<1> DEFINE i == p.invoice
<1>2. PICK o \in Responses(i) : Apply(i, o)
  BY DEF LandResponse
<1>3. o \in Outcomes /\ (o.kind = "PROMISED" => o.phrase \in PhrasesOf[i])
  BY <1>1, OutcomesOfTheRun DEF IInv
<1>4. /\ accounts' \in [Invoices -> Accounts]
      /\ \A j \in Invoices : j # i => accounts'[j] = accounts[j]
      /\ accounts'[i].nextReview = accounts[i].nextReview
      /\ accounts'[i].attempts = accounts[i].attempts
      /\ accounts'[i].state = "EXHAUSTED" => accounts[i].state = "EXHAUSTED"
  BY <1>1, <1>2, <1>3, ApplyEffect, OutcomeStates DEF IInv
<1>5. TypeOK'
  BY <1>1, <1>4 DEF IInv, TypeOK
<1>6. Past' /\ Walks' /\ GivenUp'
  BY <1>1, <1>4 DEF IInv, Past, Walks, GivenUp
<1>7. \A q \in pending' : q \in pending /\ q.invoice \in Invoices /\ q.invoice # i
  BY <1>1 DEF IInv, InFlight, TypeOK
<1>8. InFlight'
  BY <1>1, <1>4, <1>7 DEF IInv, InFlight
<1> QED
  BY <1>5, <1>6, <1>8 DEF IInv

\* So does an answer from a payer who has settled.
LEMMA DropResponseKeeps ==
    ASSUME NEW p \in pending, IInv, DropResponse(p)
    PROVE  IInv'
<1>1. pending' \subseteq pending /\ UNCHANGED <<tick, phase, todo, accounts, engine>>
  BY DEF DropResponse
<1> QED
  BY <1>1 DEF IInv, TypeOK, Past, Walks, InFlight, GivenUp

\* When the walk of the landed responses ends, whatever is still in flight is
\* due later.
LEMMA StartPromisesKeeps == IInv /\ StartPromises => IInv'
<1> SUFFICES ASSUME IInv, StartPromises PROVE IInv'
  OBVIOUS
<1>1. /\ phase = "land" /\ phase' = "promises" /\ todo' = Active(accounts)
      /\ UNCHANGED <<tick, accounts, pending, engine>> /\ Due = {}
  BY DEF StartPromises, StartStep
<1>2. DOMAIN accounts = Invoices /\ Active(accounts) \subseteq Invoices
  BY DEF IInv, TypeOK, Active
<1>3. Active(accounts)' = Active(accounts)
  BY <1>1 DEF Active
<1>4. \A p \in pending : tick < p.due
  BY <1>1 DEF Due, IInv, TypeOK
<1> QED
  BY <1>1, <1>2, <1>3, <1>4 DEF IInv, TypeOK, Past, Walks, InFlight, GivenUp, Phases

\* The spontaneous walk starts from the records still active.
LEMMA StartSpontaneousKeeps == IInv /\ StartSpontaneous => IInv'
<1> SUFFICES ASSUME IInv, StartSpontaneous PROVE IInv'
  OBVIOUS
<1>1. /\ phase = "promises" /\ phase' = "spontaneous" /\ todo' = Active(accounts)
      /\ UNCHANGED <<tick, accounts, pending, engine>>
  BY DEF StartSpontaneous, StartStep
<1>2. Active(accounts) \subseteq Invoices /\ Active(accounts)' = Active(accounts)
  BY <1>1 DEF IInv, TypeOK, Active
<1> QED
  BY <1>1, <1>2 DEF IInv, TypeOK, Past, Walks, InFlight, GivenUp, Phases

\* The cadence gate: a record with an answer in flight is not due.
LEMMA StartReviewsKeeps == IInv /\ StartReviews => IInv'
<1> SUFFICES ASSUME IInv, StartReviews PROVE IInv'
  OBVIOUS
<1>1. /\ phase = "spontaneous" /\ phase' = "decide" /\ todo' = DueForReview(accounts, tick)
      /\ UNCHANGED <<tick, accounts, pending, engine>>
  BY DEF StartReviews, StartStep
<1>2. /\ DueForReview(accounts, tick) \subseteq Active(accounts)
      /\ DueForReview(accounts, tick) \subseteq Invoices
      /\ Active(accounts)' = Active(accounts)
      /\ DueForReview(accounts, tick)' = DueForReview(accounts, tick)
  BY <1>1 DEF IInv, TypeOK, Active, DueForReview
<1>3. \A p \in pending : p.invoice \notin DueForReview(accounts, tick)
  <2>1. SUFFICES ASSUME NEW p \in pending, p.invoice \in DueForReview(accounts, tick)
                 PROVE  FALSE
    OBVIOUS
  <2>2. tick >= accounts[p.invoice].nextReview
    BY <2>1 DEF DueForReview
  <2>3. tick < p.due /\ p.due < accounts[p.invoice].nextReview
    BY <1>1 DEF IInv, InFlight
  <2>4. tick \in Nat /\ p.due \in Nat /\ accounts[p.invoice].nextReview \in Nat
    BY DEF IInv, TypeOK, Accounts
  <2> QED
    BY <2>2, <2>3, <2>4
<1> QED
  BY <1>1, <1>2, <1>3 DEF IInv, TypeOK, Past, Walks, InFlight, GivenUp, Phases

\* The two walks over active records, and the last one over exhausted ones,
\* change only the record they visit.
LEMMA WalkKeeps ==
    ASSUME NEW i \in Invoices, NEW o \in Outcomes, IInv, Visit(i), Apply(i, o),
           UNCHANGED <<pending, engine>>,
           \/ /\ phase \in {"promises", "spontaneous"}
              /\ o.kind \in {"PAID_FULL", "PAID_PARTIAL", "PROMISE_BROKEN"}
           \/ phase = "finalise" /\ o.kind = "WRITTEN_OFF"
    PROVE  IInv'
<1>1. i \in todo /\ todo' = todo \ {i} /\ UNCHANGED <<tick, phase>>
  BY DEF Visit
<1>2. /\ accounts' \in [Invoices -> Accounts]
      /\ \A j \in Invoices : j # i => accounts'[j] = accounts[j]
      /\ accounts'[i].nextReview = accounts[i].nextReview
      /\ accounts'[i].attempts = accounts[i].attempts
      /\ accounts'[i].state = "EXHAUSTED" => accounts[i].state = "EXHAUSTED"
      /\ o.kind # "WRITTEN_OFF"
            /\ accounts[i].state \in {"CONTACTED", "PROMISED", "DISPUTED", "PAID"} =>
                  accounts'[i].state \in {"CONTACTED", "PROMISED", "DISPUTED", "PAID"}
  BY ApplyEffect, OutcomeStates DEF IInv
<1>3. TypeOK'
  BY <1>1, <1>2 DEF IInv, TypeOK
<1>4. Past' /\ GivenUp'
  BY <1>1, <1>2 DEF IInv, Past, GivenUp
<1>5. Walks'
  <2>1. phase \in {"promises", "spontaneous"} => todo' \subseteq Active(accounts)'
    BY <1>1, <1>2 DEF IInv, Walks, Active, TypeOK
  <2>2. phase = "finalise" => \A j \in todo' : accounts'[j].state = "EXHAUSTED"
    BY <1>1, <1>2 DEF IInv, Walks, TypeOK
  <2> QED
    BY <1>1, <2>1, <2>2 DEF Walks
<1>6. phase = "finalise" => \A p \in pending : p.invoice # i
  BY <1>1 DEF IInv, Walks, InFlight
<1>7. \A p \in pending : p.invoice \in Invoices
  BY DEF IInv, TypeOK
<1>8. InFlight'
  BY <1>1, <1>2, <1>6, <1>7 DEF IInv, InFlight
<1> QED
  BY <1>3, <1>4, <1>5, <1>8 DEF IInv

\* A visit that finds nothing to do.
LEMMA PassKeeps ==
    ASSUME NEW i \in Invoices, IInv, Visit(i), UNCHANGED <<accounts, pending, engine>>,
           phase \in {"promises", "spontaneous"}
    PROVE  IInv'
<1>1. todo' \subseteq todo /\ UNCHANGED <<tick, phase, accounts, pending, engine>>
  BY DEF Visit
<1>2. Active(accounts)' = Active(accounts)
  BY <1>1 DEF Active
<1> QED
  BY <1>1, <1>2 DEF IInv, TypeOK, Past, Walks, InFlight, GivenUp

\* Nothing due was left in flight, so every answer is for the next tick or later.
LEMMA AdvanceKeeps == IInv /\ Advance => IInv'
<1> SUFFICES ASSUME IInv, Advance PROVE IInv'
  OBVIOUS
<1>1. /\ phase = "decide" /\ tick' = tick + 1 /\ tick \in Nat /\ Horizon \in Nat /\ tick < Horizon
      /\ phase' = IF tick + 1 >= Horizon THEN "finalise" ELSE "land"
      /\ todo' = IF tick + 1 >= Horizon THEN AwaitingWriteOff(accounts) ELSE {}
      /\ UNCHANGED <<accounts, pending, engine>>
  BY RunnerAssumption DEF Advance, IInv, TypeOK
<1>2. /\ AwaitingWriteOff(accounts) \subseteq Invoices
      /\ \A i \in AwaitingWriteOff(accounts) : accounts[i].state = "EXHAUSTED"
  BY DEF AwaitingWriteOff, IInv, TypeOK
<1>3. TypeOK'
  BY <1>1, <1>2 DEF IInv, TypeOK, Phases
<1>4. Walks' /\ GivenUp'
  BY <1>1, <1>2 DEF IInv, Walks, GivenUp
<1>5. Past'
  <2>1. \A i \in Invoices : accounts[i].attempts \in Seq(Nat)
    BY DEF IInv, TypeOK, Accounts
  <2>2. \A i \in Invoices : \A k \in DOMAIN accounts[i].attempts :
            accounts[i].attempts[k] \in Nat /\ accounts[i].attempts[k] <= tick
    BY <2>1 DEF IInv, Past
  <2> QED
    BY <1>1, <2>2 DEF Past
<1>6. InFlight'
  <2>1. \A p \in pending : p.due \in Nat /\ tick < p.due
    BY <1>1 DEF IInv, TypeOK, InFlight
  <2>2. \A p \in pending : tick + 1 <= p.due
    BY <1>1, <2>1
  <2> QED
    BY <1>1, <2>2 DEF IInv, InFlight
<1> QED
  BY <1>3, <1>4, <1>5, <1>6 DEF IInv

\* Closing changes only the phase.
LEMMA CloseRunKeeps == IInv /\ CloseRun => IInv'
  BY DEF CloseRun, StartStep, IInv, TypeOK, Past, Walks, InFlight, GivenUp, Phases

\* A record that comes up for review is still being chased or disputed, and
\* waits for no answer.
LEMMA ReviewedRecord ==
    ASSUME NEW i \in todo, IInv, phase = "decide"
    PROVE  /\ i \in Invoices /\ tick \in Nat /\ tick < Horizon
           /\ accounts[i].state \in {"AT_RISK", "CONTACTED", "PROMISED", "DISPUTED"}
           /\ \A p \in pending : p.invoice # i
<1>1. i \in Invoices /\ tick \in Nat /\ tick < Horizon /\ accounts[i] \in Accounts
  BY DEF IInv, TypeOK
<1>2. /\ ~IsTerminal(accounts[i].state) /\ accounts[i].state \notin UnattendedStates
      /\ tick >= accounts[i].nextReview
  BY DEF IInv, Walks, DueForReview, Active
<1>3. accounts[i].state # "EXHAUSTED"
  <2>1. SUFFICES ASSUME accounts[i].state = "EXHAUSTED" PROVE FALSE
    OBVIOUS
  <2>2. accounts[i].nextReview >= ReviewNever
    BY <1>1, <2>1 DEF IInv, GivenUp
  <2>3. /\ accounts[i].nextReview \in Nat /\ ReviewNever \in Nat /\ Horizon \in Nat
        /\ ReviewNever >= Horizon
    BY <1>1, CadenceAssumption, RunnerAssumption, CadenceOutlastsResponse DEF Accounts
  <2> QED
    BY <1>1, <1>2, <2>2, <2>3
<1>4. accounts[i].state \in RecordStates
  BY <1>1 DEF Accounts
<1>5. \A p \in pending : p.invoice # i
  BY DEF IInv, InFlight
<1> QED
  BY <1>1, <1>2, <1>3, <1>4, <1>5 DEF RecordStates, IsTerminal, TerminalStates, UnattendedStates

\* An executed decision, as far as the invariant reads it.
LEMMA ExecutedRecord ==
    ASSUME NEW a \in Accounts, NEW final \in Interventions, NEW t \in Nat,
           a.state \in {"AT_RISK", "CONTACTED", "PROMISED", "DISPUTED"},
           \A k \in DOMAIN a.attempts : a.attempts[k] <= t
    PROVE  LET b == RecordAction(a, final, t)
           IN  /\ b.state = "EXHAUSTED" => b.nextReview >= ReviewNever
               /\ IsContact(final) =>
                     /\ b.state \in {"CONTACTED", "PROMISED", "DISPUTED"}
                     /\ b.nextReview > t + ResponseDelay
               /\ \A k \in DOMAIN b.attempts : b.attempts[k] <= t
<1> DEFINE b == RecordAction(a, final, t)
<1>1. /\ b.state = StateAfterAction(a.state, final) /\ b.nextReview = t + ReviewTicks(final)
      /\ b.attempts = IF IsContact(final) THEN Append(a.attempts, t) ELSE a.attempts
  BY ActionType
<1> HIDE DEF b
<1>2. /\ MessageReview \in Nat /\ PhoneReview \in Nat /\ ReviewNever \in Nat
      /\ ResponseDelay \in Nat /\ MessageReview > ResponseDelay /\ PhoneReview > ResponseDelay
  BY CadenceAssumption, RunnerAssumption, CadenceOutlastsResponse
<1>3. b.state = "EXHAUSTED" => final = "STOP"
  BY <1>1 DEF StateAfterAction, Legal, AllowedTransitions, RecordStates, IsTerminal,
     TerminalStates, IsContact, ContactInterventions
<1>4. final = "STOP" => ReviewTicks(final) = ReviewNever
  BY DEF ReviewTicks
<1>5. IsContact(final) => ReviewTicks(final) \in {MessageReview, PhoneReview}
  BY DEF ReviewTicks, IsContact, ContactInterventions
<1>6. IsContact(final) => b.state \in {"CONTACTED", "PROMISED", "DISPUTED"}
  BY <1>1 DEF StateAfterAction, Legal, AllowedTransitions, RecordStates, IsTerminal,
     TerminalStates, IsContact, ContactInterventions
<1>7. \A k \in DOMAIN b.attempts : b.attempts[k] <= t
  <2>1. a.attempts \in Seq(Nat)
    BY DEF Accounts
  <2> QED
    BY <1>1, <2>1
<1>8. /\ b.state = "EXHAUSTED" => b.nextReview >= ReviewNever
      /\ IsContact(final) => b.nextReview > t + ResponseDelay
  BY <1>1, <1>2, <1>3, <1>4, <1>5
<1> QED
  BY <1>6, <1>7, <1>8 DEF b

\* The engine stays an engine whatever it is told of.
LEMMA EngineType ==
    ASSUME NEW e \in [linksUsed: Nat, suppressed: SUBSET Invoices, groupEscalationOpened: BOOLEAN],
           NEW v, NEW member \in BOOLEAN
    PROVE  EngineAfter(e, v, member)
              \in [linksUsed: Nat, suppressed: SUBSET Invoices, groupEscalationOpened: BOOLEAN]
<1> DEFINE spent == e.linksUsed + ApiUnits(v.final)
           opened == e.groupEscalationOpened \/ (member /\ v.final = "ESCALATE_HUMAN")
<1>1. spent \in Nat
  BY DEF ApiUnits
<1>2. opened \in BOOLEAN
  OBVIOUS
<1>3. EngineAfter(e, v, member) =
         IF v.verdict = "VETOED" THEN e
         ELSE [e EXCEPT !.linksUsed = spent, !.groupEscalationOpened = opened]
  BY DEF EngineAfter
<1> HIDE DEF spent, opened
<1> QED
  BY <1>1, <1>2, <1>3

\* A review that contacts puts one answer in flight and the record out of
\* review until after it.
LEMMA ReviewKeeps ==
    ASSUME NEW i \in Invoices, IInv, Review(i)
    PROVE  IInv'
<1>1. /\ phase = "decide" /\ i \in todo /\ todo' = todo \ {i} /\ UNCHANGED <<tick, phase>>
      /\ accounts' \in [Invoices -> Accounts]
      /\ \A j \in Invoices : j # i => accounts'[j] = accounts[j]
  BY ReviewEffect DEF IInv
<1>2. /\ tick \in Nat /\ accounts[i] \in Accounts
      /\ accounts[i].state \in {"AT_RISK", "CONTACTED", "PROMISED", "DISPUTED"}
      /\ \A p \in pending : p.invoice # i
      /\ \A k \in DOMAIN accounts[i].attempts : accounts[i].attempts[k] <= tick
  BY <1>1, ReviewedRecord DEF IInv, TypeOK, Past
<1>3. /\ accounts'[i] \in Accounts
      /\ accounts'[i].state = "EXHAUSTED" => accounts'[i].nextReview >= ReviewNever
      /\ \A k \in DOMAIN accounts'[i].attempts : accounts'[i].attempts[k] <= tick
      /\ engine' \in [linksUsed: Nat, suppressed: SUBSET Invoices, groupEscalationOpened: BOOLEAN]
      /\ \/ pending' = pending
         \/ /\ pending' = pending \cup {[invoice |-> i, due |-> tick + ResponseDelay]}
            /\ accounts'[i].state \in {"CONTACTED", "PROMISED", "DISPUTED"}
            /\ accounts'[i].nextReview > tick + ResponseDelay
  <2>1. CASE /\ \E n \in Nat : accounts'[i] = [accounts[i] EXCEPT !.nextReview = n]
             /\ UNCHANGED <<pending, engine>>
    <3>1. /\ accounts'[i].state = accounts[i].state
          /\ accounts'[i].attempts = accounts[i].attempts
      BY <1>2, <2>1 DEF Accounts
    <3> QED
      BY <1>1, <1>2, <2>1, <3>1 DEF IInv, TypeOK
  <2>2. ASSUME NEW final \in Interventions,
               /\ accounts'[i] = RecordAction(accounts[i], final, tick)
               /\ pending' = IF IsContact(final)
                             THEN pending \cup {[invoice |-> i, due |-> tick + ResponseDelay]}
                             ELSE pending
               /\ ~HasPolicy => engine' = engine
               /\ HasPolicy => \E proposal \in Proposals(i) :
                     LET v == Adjudicate(Context(i, proposal))
                     IN  /\ v.verdict # "VETOED" /\ v.final = final
                         /\ engine' = EngineAfter(engine, v, i \in engine.suppressed)
        PROVE  <1>3!1 /\ <1>3!2 /\ <1>3!3 /\ <1>3!4 /\ <1>3!5
    <3>1. /\ accounts'[i].state = "EXHAUSTED" => accounts'[i].nextReview >= ReviewNever
          /\ IsContact(final) =>
                /\ accounts'[i].state \in {"CONTACTED", "PROMISED", "DISPUTED"}
                /\ accounts'[i].nextReview > tick + ResponseDelay
          /\ \A k \in DOMAIN accounts'[i].attempts : accounts'[i].attempts[k] <= tick
      BY <1>2, <2>2, ExecutedRecord
    <3>2. engine \in [linksUsed: Nat, suppressed: SUBSET Invoices, groupEscalationOpened: BOOLEAN]
      BY DEF IInv, TypeOK
    <3>3. engine' \in [linksUsed: Nat, suppressed: SUBSET Invoices,
                       groupEscalationOpened: BOOLEAN]
      <4>1. CASE ~HasPolicy
        BY <2>2, <3>2, <4>1
      <4>2. CASE HasPolicy
        <5>1. PICK proposal \in Proposals(i) :
                engine' = EngineAfter(engine, Adjudicate(Context(i, proposal)),
                                      i \in engine.suppressed)
          BY <2>2, <4>2 DEF HasPolicy
        <5>2. (i \in engine.suppressed) \in BOOLEAN
          OBVIOUS
        <5> QED
          BY <3>2, <5>1, <5>2, EngineType
      <4> QED
        BY <4>1, <4>2
    <3> QED
      BY <1>1, <2>2, <3>1, <3>3
  <2> QED
    BY <2>1, <2>2, ReviewEffect DEF IInv
<1>4. TypeOK'
  <2>1. pending' \subseteq [invoice: Invoices, due: Nat]
    <3>1. tick + ResponseDelay \in Nat
      BY <1>2, RunnerAssumption
    <3> QED
      BY <1>3, <3>1 DEF IInv, TypeOK
  <2> QED
    BY <1>1, <1>3, <2>1 DEF IInv, TypeOK
<1>5. Past' /\ GivenUp'
  BY <1>1, <1>3 DEF IInv, Past, GivenUp
<1>6. Walks'
  <2>1. \A j \in todo' : j \in Invoices /\ j # i /\ j \in DueForReview(accounts, tick)
    BY <1>1 DEF IInv, TypeOK, Walks
  <2>2. todo' \subseteq DueForReview(accounts, tick)'
    BY <1>1, <2>1 DEF DueForReview, Active, IInv, TypeOK
  <2>3. todo' \subseteq Active(accounts)'
    BY <2>2 DEF DueForReview
  <2> QED
    BY <1>1, <2>2, <2>3 DEF Walks
<1>7. InFlight'
  <2>1. \A p \in pending : p.invoice \in Invoices /\ accounts'[p.invoice] = accounts[p.invoice]
    BY <1>1, <1>2 DEF IInv, TypeOK
  <2> DEFINE new == [invoice |-> i, due |-> tick + ResponseDelay]
  <2>2. tick < new.due /\ new.invoice = i /\ i \notin todo' /\ new.due = tick + ResponseDelay
    BY <1>1, <1>2, RunnerAssumption
  <2>3. CASE pending' = pending
    BY <1>1, <2>1, <2>3 DEF IInv, InFlight
  <2>4. CASE /\ pending' = pending \cup {new}
             /\ accounts'[i].state \in {"CONTACTED", "PROMISED", "DISPUTED"}
             /\ accounts'[i].nextReview > tick + ResponseDelay
    <3>1. tick <= new.due /\ new.due < accounts'[new.invoice].nextReview
      BY <1>2, <1>3, <2>2, <2>4, RunnerAssumption DEF Accounts
    <3> HIDE DEF new
    <3> QED
      BY <1>1, <1>2, <2>1, <2>2, <2>4, <3>1 DEF IInv, InFlight
  <2> QED
    BY <1>3, <2>3, <2>4
<1> QED
  BY <1>4, <1>5, <1>6, <1>7 DEF IInv

-----------------------------------------------------------------------------
(* Every step, and the theorems of every run.                               *)

\* The inductive invariant is preserved by every action of the runner.
LEMMA StepIInv == IInv /\ [Next]_vars => IInv'
<1> SUFFICES ASSUME IInv, [Next]_vars PROVE IInv'
  OBVIOUS
<1>1. CASE OpenRun
  BY <1>1, OpenRunKeeps
<1>2. ASSUME NEW p \in pending, LandResponse(p) \/ DropResponse(p) PROVE IInv'
  BY <1>2, LandResponseKeeps, DropResponseKeeps
<1>3. CASE StartPromises
  BY <1>3, StartPromisesKeeps
<1>4. ASSUME NEW i \in Invoices, ResolvePromise(i) PROVE IInv'
  <2>1. PICK o \in PromiseOutcomes(i) : Apply(i, o)
    BY <1>4 DEF ResolvePromise
  <2>2. o \in Outcomes /\ o.kind \in {"PAID_FULL", "PROMISE_BROKEN"}
    BY <2>1, OutcomesOfTheRun DEF IInv
  <2> QED
    BY <1>4, <2>1, <2>2, WalkKeeps DEF ResolvePromise
<1>5. ASSUME NEW i \in Invoices, PassPromise(i) \/ StayQuiet(i) PROVE IInv'
  BY <1>5, PassKeeps DEF PassPromise, StayQuiet
<1>6. CASE StartSpontaneous
  BY <1>6, StartSpontaneousKeeps
<1>7. ASSUME NEW i \in Invoices, SettleSpontaneously(i) PROVE IInv'
  <2>1. PICK o \in SpontaneousPayments(i) : Apply(i, o)
    BY <1>7 DEF SettleSpontaneously
  <2>2. o \in Outcomes /\ o.kind \in {"PAID_FULL", "PAID_PARTIAL"}
    BY <2>1, OutcomesOfTheRun DEF IInv
  <2> QED
    BY <1>7, <2>1, <2>2, WalkKeeps DEF SettleSpontaneously
<1>8. CASE StartReviews
  BY <1>8, StartReviewsKeeps
<1>9. ASSUME NEW i \in Invoices, Review(i) PROVE IInv'
  BY <1>9, ReviewKeeps
<1>10. CASE Advance
  BY <1>10, AdvanceKeeps
<1>11. ASSUME NEW i \in Invoices, WriteOff(i) PROVE IInv'
  <2> DEFINE o == Outcome("WRITTEN_OFF", 0)
  <2>1. o \in Outcomes /\ o.kind = "WRITTEN_OFF"
    BY DEF Outcome, Outcomes, OutcomeKinds
  <2>2. phase = "finalise" /\ Visit(i) /\ Apply(i, o) /\ UNCHANGED <<pending, engine>>
    BY <1>11 DEF WriteOff
  <2> HIDE DEF o
  <2> QED
    BY <2>1, <2>2, WalkKeeps
<1>12. CASE CloseRun
  BY <1>12, CloseRunKeeps
<1>13. CASE UNCHANGED vars
  BY <1>13 DEF vars, IInv, TypeOK, Past, Walks, InFlight, GivenUp, Active, DueForReview
<1> QED
  BY <1>1, <1>2, <1>3, <1>4, <1>5, <1>6, <1>7, <1>8, <1>9, <1>10, <1>11, <1>12, <1>13
     DEF Next, Closed

\* The inductive invariant holds throughout every run.
THEOREM RunInvariant == Spec => []IInv
<1>1. Init => IInv
  BY InitIInv
<1>2. IInv /\ [Next]_vars => IInv'
  BY StepIInv
<1> QED
  BY <1>1, <1>2, PTL DEF Spec

\* Every ledger, pending list and engine a run reaches has its type, and the
\* clock never leaves the run.
THEOREM TypeCorrect == Spec => []TypeOK
<1>1. IInv => TypeOK
  BY DEF IInv
<1> QED
  BY <1>1, RunInvariant, PTL

\* No record is decided while the answer to its last contact is in flight,
\* and no record has two answers in flight: for every cadence longer than the
\* response delay, whatever the payers do and the agent proposes.
THEOREM NoDecisionBeforeTheAnswer == Spec => []NoReviewInFlight
<1>1. IInv => NoReviewInFlight
  BY DEF IInv, InFlight, NoReviewInFlight
<1> QED
  BY <1>1, RunInvariant, PTL

-----------------------------------------------------------------------------
(* The three kinds of step.                                                 *)

\* The outcome a step may book on invoice i, and when.
Booking(i, o) ==
    /\ Apply(i, o) /\ o \in Outcomes
    /\ UNCHANGED <<tick, phase, engine>>
    /\ ~IsTerminal(accounts[i].state)
    /\ o.kind = "PAID_FULL" => o.amount = Open(i)
    /\ o.kind = "PROMISED" => o.phrase \in PhrasesOf[i] /\ tick < Horizon
    /\ o.kind = "WRITTEN_OFF" => phase = "finalise" /\ accounts[i].state = "EXHAUSTED"
    /\ o.kind # "WRITTEN_OFF" => phase \notin {"finalise", "closed"}
    /\ \/ o.kind \in {"PAID_FULL", "PAID_PARTIAL", "PROMISE_BROKEN", "WRITTEN_OFF"}
       \/ accounts[i].state \in {"CONTACTED", "PROMISED", "DISPUTED"}

\* A step that books nothing and reviews nothing leaves the ledger alone, and
\* the engine too once the run is open.
Quiet ==
    /\ accounts' = accounts
    /\ engine' = engine \/ OpenRun

\* Every step is quiet, books one outcome, or reviews one record.
LEMMA StepKinds ==
    ASSUME IInv, [Next]_vars
    PROVE  \/ Quiet
           \/ \E i \in Invoices, o \in Outcomes : Booking(i, o)
           \/ \E i \in Invoices : Review(i)
<1> DEFINE Goal == \/ Quiet
                   \/ \E i \in Invoices, o \in Outcomes : Booking(i, o)
                   \/ \E i \in Invoices : Review(i)
<1>1. ASSUME NEW p \in pending, LandResponse(p) PROVE Goal
  <2>1. p.invoice \in Invoices /\ tick < Horizon
    BY <1>1 DEF IInv, TypeOK, LandResponse
  <2>2. PICK o \in Responses(p.invoice) : Apply(p.invoice, o)
    BY <1>1 DEF LandResponse
  <2>3. /\ o \in Outcomes /\ o.kind \in ResponseKinds
        /\ o.kind = "PROMISED" => o.phrase \in PhrasesOf[p.invoice]
        /\ o.kind = "PAID_FULL" => o.amount = Open(p.invoice)
    BY <2>1, <2>2, OutcomesOfTheRun DEF IInv
  <2>4. o.kind # "WRITTEN_OFF"
    BY <2>3, RunnerAssumption
  <2>5. /\ UNCHANGED <<tick, phase, engine>> /\ phase = "land"
        /\ ~IsTerminal(accounts[p.invoice].state)
    BY <1>1 DEF LandResponse
  <2>6. accounts[p.invoice].state \in {"CONTACTED", "PROMISED", "DISPUTED"}
    BY <2>5 DEF IInv, InFlight, IsTerminal, TerminalStates
  <2>7. Booking(p.invoice, o)
    BY <2>1, <2>2, <2>3, <2>4, <2>5, <2>6 DEF Booking
  <2> QED
    BY <2>1, <2>3, <2>7
<1>2. ASSUME NEW i \in Invoices, ResolvePromise(i) PROVE Goal
  <2>1. PICK o \in PromiseOutcomes(i) : Apply(i, o)
    BY <1>2 DEF ResolvePromise
  <2>2. /\ o \in Outcomes /\ o.kind \in {"PAID_FULL", "PROMISE_BROKEN"}
        /\ o.kind = "PAID_FULL" => o.amount = Open(i)
    BY <2>1, OutcomesOfTheRun DEF IInv
  <2>3. /\ UNCHANGED <<tick, phase, engine>> /\ phase = "promises" /\ i \in todo
    BY <1>2 DEF ResolvePromise, Visit
  <2>4. ~IsTerminal(accounts[i].state)
    BY <2>3 DEF IInv, Walks, Active
  <2>5. Booking(i, o)
    BY <2>1, <2>2, <2>3, <2>4 DEF Booking
  <2> QED
    BY <2>2, <2>5
<1>3. ASSUME NEW i \in Invoices, SettleSpontaneously(i) PROVE Goal
  <2>1. PICK o \in SpontaneousPayments(i) : Apply(i, o)
    BY <1>3 DEF SettleSpontaneously
  <2>2. /\ o \in Outcomes /\ o.kind \in {"PAID_FULL", "PAID_PARTIAL"}
        /\ o.kind = "PAID_FULL" => o.amount = Open(i)
    BY <2>1, OutcomesOfTheRun DEF IInv
  <2>3. /\ UNCHANGED <<tick, phase, engine>> /\ phase = "spontaneous" /\ i \in todo
    BY <1>3 DEF SettleSpontaneously, Visit
  <2>4. ~IsTerminal(accounts[i].state)
    BY <2>3 DEF IInv, Walks, Active
  <2>5. Booking(i, o)
    BY <2>1, <2>2, <2>3, <2>4 DEF Booking
  <2> QED
    BY <2>2, <2>5
<1>4. ASSUME NEW i \in Invoices, WriteOff(i) PROVE Goal
  <2> DEFINE o == Outcome("WRITTEN_OFF", 0)
  <2>1. o \in Outcomes /\ o.kind = "WRITTEN_OFF"
    BY DEF Outcome, Outcomes, OutcomeKinds
  <2>2. /\ phase = "finalise" /\ i \in todo /\ Apply(i, o)
        /\ UNCHANGED <<tick, phase, engine>>
    BY <1>4 DEF WriteOff, Visit
  <2>3. accounts[i].state = "EXHAUSTED"
    BY <2>2 DEF IInv, Walks
  <2> HIDE DEF o
  <2>4. Booking(i, o)
    BY <2>1, <2>2, <2>3 DEF Booking, IsTerminal, TerminalStates
  <2> QED
    BY <2>1, <2>4
<1>5. CASE OpenRun
  BY <1>5 DEF OpenRun, Quiet
<1>6. ASSUME NEW p \in pending, DropResponse(p) PROVE Goal
  BY <1>6 DEF DropResponse, Quiet
<1>7. CASE StartPromises \/ StartSpontaneous \/ StartReviews \/ Advance \/ CloseRun
  BY <1>7 DEF StartPromises, StartSpontaneous, StartReviews, Advance, CloseRun, StartStep, Quiet
<1>8. ASSUME NEW i \in Invoices, PassPromise(i) \/ StayQuiet(i) PROVE Goal
  BY <1>8 DEF PassPromise, StayQuiet, Quiet
<1>9. CASE UNCHANGED vars
  BY <1>9 DEF vars, Quiet
<1> QED
  BY <1>1, <1>2, <1>3, <1>4, <1>5, <1>6, <1>7, <1>8, <1>9 DEF Next, Closed

\* Booking an outcome changes one account, as ApplyOutcome says.
LEMMA BookingEffect ==
    ASSUME NEW i \in Invoices, NEW o \in Outcomes, TypeOK, Booking(i, o)
    PROVE  LET a == accounts[i]
               b == accounts'[i]
           IN  /\ a \in Accounts /\ b \in Accounts
               /\ \A j \in Invoices : j # i => accounts'[j] = accounts[j]
               /\ b.attempts = a.attempts /\ b.links = a.links
               /\ o.kind = "PROMISED" =>
                     /\ b.due = Resolve[o.phrase][tick]
                     /\ b.recovered = a.recovered /\ b.resolved = a.resolved
                     /\ b.state = IF b.due # NoTick /\ "PROMISED" \in AllowedTransitions[a.state]
                                  THEN "PROMISED" ELSE a.state
               /\ o.kind # "PROMISED" =>
                     /\ b.state = StateAfterOutcome(a.state, o.kind)
                     /\ b.due = IF o.kind = "PROMISE_BROKEN" THEN NoTick ELSE a.due
                     /\ b.recovered = IF o.kind \notin {"PAID_FULL", "PAID_PARTIAL"} THEN a.recovered
                                      ELSE IF a.recovered + o.amount < Amount[i]
                                           THEN a.recovered + o.amount ELSE Amount[i]
                     /\ b.resolved = IF b.state # a.state /\ IsTerminal(b.state)
                                          /\ a.resolved = NoTick
                                     THEN tick ELSE a.resolved
<1>1. /\ accounts[i] \in Accounts /\ tick \in Nat /\ Amount[i] \in Nat
  BY OpenType DEF TypeOK
<1>2. /\ accounts' \in [Invoices -> Accounts]
      /\ \A j \in Invoices : j # i => accounts'[j] = accounts[j]
      /\ accounts'[i] = ApplyOutcome(Amount[i], accounts[i], o, tick)
      /\ accounts'[i].attempts = accounts[i].attempts
      /\ accounts'[i].links = accounts[i].links
  BY ApplyEffect DEF Booking
<1> QED
  BY <1>1, <1>2, OutcomeEffect

\* A review leaves the money and the promise alone, never settles a record,
\* and only STOP exhausts one.
LEMMA ReviewMoves ==
    ASSUME NEW i \in Invoices, IInv, Review(i)
    PROVE  LET a == accounts[i]
               b == accounts'[i]
           IN  /\ a \in Accounts /\ b \in Accounts /\ phase = "decide" /\ i \in todo
               /\ \A j \in Invoices : j # i => accounts'[j] = accounts[j]
               /\ UNCHANGED <<tick, phase>>
               /\ a.state \in {"AT_RISK", "CONTACTED", "PROMISED", "DISPUTED"}
               /\ b.recovered = a.recovered /\ b.due = a.due /\ b.resolved = a.resolved
               /\ a.state = "DISPUTED" => b.state \in {"DISPUTED", "HUMAN_QUEUE"}
               /\ a.state # "DISPUTED" =>
                     b.state \in {a.state, "CONTACTED", "HUMAN_QUEUE", "EXHAUSTED"}
               /\ b.state = "PROMISED" => a.state = "PROMISED"
<1>1. /\ accounts[i] \in Accounts /\ tick \in Nat
      /\ accounts[i].state \in {"AT_RISK", "CONTACTED", "PROMISED", "DISPUTED"}
  BY ReviewEffect, ReviewedRecord DEF IInv, TypeOK
<1>2. /\ accounts' \in [Invoices -> Accounts] /\ phase = "decide" /\ i \in todo
      /\ UNCHANGED <<tick, phase>>
      /\ \A j \in Invoices : j # i => accounts'[j] = accounts[j]
  BY ReviewEffect DEF IInv
<1>3. CASE \E n \in Nat : accounts'[i] = [accounts[i] EXCEPT !.nextReview = n]
  <2>1. /\ accounts'[i].state = accounts[i].state /\ accounts'[i].due = accounts[i].due
        /\ accounts'[i].recovered = accounts[i].recovered
        /\ accounts'[i].resolved = accounts[i].resolved
    BY <1>1, <1>3 DEF Accounts
  <2> QED
    BY <1>1, <1>2, <2>1
<1>4. ASSUME NEW final \in Interventions, accounts'[i] = RecordAction(accounts[i], final, tick)
      PROVE  /\ accounts'[i].recovered = accounts[i].recovered
             /\ accounts'[i].due = accounts[i].due
             /\ accounts'[i].resolved = accounts[i].resolved
             /\ accounts[i].state = "DISPUTED" => accounts'[i].state \in {"DISPUTED", "HUMAN_QUEUE"}
             /\ accounts[i].state # "DISPUTED" =>
                   accounts'[i].state \in {accounts[i].state, "CONTACTED", "HUMAN_QUEUE", "EXHAUSTED"}
             /\ accounts'[i].state = "PROMISED" => accounts[i].state = "PROMISED"
  <2>1. /\ accounts'[i].recovered = accounts[i].recovered /\ accounts'[i].due = accounts[i].due
        /\ accounts'[i].state = StateAfterAction(accounts[i].state, final)
        /\ ~IsTerminal(accounts'[i].state) => accounts'[i].resolved = accounts[i].resolved
    BY <1>1, <1>4, ActionType
  <2>2. /\ accounts[i].state = "DISPUTED" => accounts'[i].state \in {"DISPUTED", "HUMAN_QUEUE"}
        /\ accounts[i].state # "DISPUTED" =>
              accounts'[i].state \in {accounts[i].state, "CONTACTED", "HUMAN_QUEUE", "EXHAUSTED"}
    BY <1>1, <2>1 DEF StateAfterAction, Legal, AllowedTransitions, RecordStates, IsTerminal,
       TerminalStates
  <2> QED
    BY <1>1, <2>1, <2>2 DEF IsTerminal, TerminalStates
<1> QED
  BY <1>1, <1>2, <1>3, <1>4, ReviewEffect DEF IInv

-----------------------------------------------------------------------------
(* What a step may never do to a record.                                    *)

\* A dispute is kept or passed on, a case with a person is kept, and both may
\* be paid; what is paid stays paid.
StaysRaised ==
    \A i \in Invoices :
        /\ accounts[i].state = "DISPUTED" =>
              accounts'[i].state \in {"DISPUTED", "HUMAN_QUEUE", "PAID"}
        /\ accounts[i].state = "HUMAN_QUEUE" => accounts'[i].state \in {"HUMAN_QUEUE", "PAID"}
        /\ accounts[i].state = "PAID" => accounts'[i].state = "PAID"

\* No step takes an objection back, although the table has moves that would.
LEMMA StepKeepsObjections ==
    ASSUME IInv, [Next]_vars
    PROVE  StaysRaised
<1>1. CASE Quiet
  BY <1>1 DEF Quiet, StaysRaised
<1>2. ASSUME NEW j \in Invoices, NEW o \in Outcomes, Booking(j, o) PROVE StaysRaised
  <2>1. /\ \A i \in Invoices : i # j => accounts'[i] = accounts[i]
        /\ accounts[j] \in Accounts
        /\ o.kind # "PROMISED" => accounts'[j].state = StateAfterOutcome(accounts[j].state, o.kind)
        /\ o.kind = "PROMISED" =>
              accounts'[j].state = accounts[j].state
              \/ "PROMISED" \in AllowedTransitions[accounts[j].state]
    BY <1>2, BookingEffect DEF IInv
  <2>2. /\ o.kind # "WRITTEN_OFF" \/ accounts[j].state = "EXHAUSTED"
        /\ \/ o.kind \in {"PAID_FULL", "PAID_PARTIAL", "PROMISE_BROKEN", "WRITTEN_OFF"}
           \/ accounts[j].state \in {"CONTACTED", "PROMISED", "DISPUTED"}
    BY <1>2 DEF Booking
  <2>3. /\ accounts[j].state = "DISPUTED" =>
              accounts'[j].state \in {"DISPUTED", "HUMAN_QUEUE", "PAID"}
        /\ accounts[j].state = "HUMAN_QUEUE" =>
              accounts'[j].state \in {"HUMAN_QUEUE", "PAID"}
        /\ accounts[j].state # "PAID"
    BY <1>2, <2>1, <2>2 DEF Booking, StateAfterOutcome, Legal, AllowedTransitions, RecordStates,
       IsTerminal, TerminalStates
  <2> QED
    BY <2>1, <2>3 DEF StaysRaised
<1>3. ASSUME NEW j \in Invoices, Review(j) PROVE StaysRaised
  BY <1>3, ReviewMoves DEF StaysRaised
<1> QED
  BY <1>1, <1>2, <1>3, StepKinds

\* A dispute or a case with a person stays one until it is paid.
THEOREM ObjectionsStay == Spec => ObjectionsAreKept
<1> DEFINE Kept == \A i \in Invoices :
              /\ accounts[i].state = "DISPUTED" =>
                    accounts'[i].state \in {"DISPUTED", "HUMAN_QUEUE", "PAID"}
              /\ accounts[i].state = "HUMAN_QUEUE" =>
                    accounts'[i].state \in {"HUMAN_QUEUE", "PAID"}
<1>1. IInv /\ [Next]_vars => [Kept]_vars
  BY StepKeepsObjections DEF StaysRaised
<1> QED
  BY <1>1, RunInvariant, PTL DEF Spec, ObjectionsAreKept

\* Where exhausted and written-off records go to and come from.
LossesKept ==
    \A i \in Invoices :
        /\ accounts[i].state = "EXHAUSTED" =>
              accounts'[i].state \in {"EXHAUSTED", "PAID", "WRITTEN_OFF"}
        /\ accounts[i].state # "WRITTEN_OFF" /\ accounts'[i].state = "WRITTEN_OFF" =>
              phase = "finalise" /\ accounts[i].state = "EXHAUSTED"

\* Only a booked write-off loses a record, and only an exhausted one.
LEMMA StepKeepsLosses ==
    ASSUME IInv, [Next]_vars
    PROVE  LossesKept
<1>1. CASE Quiet
  BY <1>1 DEF Quiet, LossesKept
<1>2. ASSUME NEW j \in Invoices, NEW o \in Outcomes, Booking(j, o) PROVE LossesKept
  <2>1. /\ \A i \in Invoices : i # j => accounts'[i] = accounts[i]
        /\ accounts[j] \in Accounts
        /\ o.kind # "PROMISED" => accounts'[j].state = StateAfterOutcome(accounts[j].state, o.kind)
        /\ o.kind = "PROMISED" => accounts'[j].state \in {accounts[j].state, "PROMISED"}
    BY <1>2, BookingEffect DEF IInv
  <2>2. /\ o.kind = "WRITTEN_OFF" => phase = "finalise" /\ accounts[j].state = "EXHAUSTED"
        /\ \/ o.kind \in {"PAID_FULL", "PAID_PARTIAL", "PROMISE_BROKEN", "WRITTEN_OFF"}
           \/ accounts[j].state \in {"CONTACTED", "PROMISED", "DISPUTED"}
    BY <1>2 DEF Booking
  <2>3. /\ accounts[j].state = "EXHAUSTED" =>
              accounts'[j].state \in {"EXHAUSTED", "PAID", "WRITTEN_OFF"}
        /\ accounts[j].state # "WRITTEN_OFF" /\ accounts'[j].state = "WRITTEN_OFF" =>
              o.kind = "WRITTEN_OFF"
    BY <2>1, <2>2 DEF StateAfterOutcome, Legal, AllowedTransitions, RecordStates, IsTerminal,
       TerminalStates
  <2> QED
    BY <2>1, <2>2, <2>3 DEF LossesKept
<1>3. ASSUME NEW j \in Invoices, Review(j) PROVE LossesKept
  <2>1. /\ \A i \in Invoices : i # j => accounts'[i] = accounts[i]
        /\ accounts[j].state # "EXHAUSTED" /\ accounts'[j].state # "WRITTEN_OFF"
    BY <1>3, ReviewMoves
  <2> QED
    BY <2>1 DEF LossesKept
<1> QED
  BY <1>1, <1>2, <1>3, StepKinds

\* An exhausted record stays exhausted until it is paid or written off, and
\* only the finalisation writes off, only what was exhausted.
THEOREM LossesAreTheCloses == Spec => OnlyTheCloseWritesOff
<1>1. IInv /\ [Next]_vars => [LossesKept]_vars
  BY StepKeepsLosses
<1> QED
  BY <1>1, RunInvariant, PTL DEF Spec, OnlyTheCloseWritesOff, LossesKept

-----------------------------------------------------------------------------
(* The books.                                                               *)

\* The balance of the books is inductive on top of the run's invariant.
LEMMA StepBalances == IInv /\ BooksBalance /\ [Next]_vars => BooksBalance'
<1> SUFFICES ASSUME IInv, BooksBalance, [Next]_vars PROVE BooksBalance'
  OBVIOUS
<1>1. CASE Quiet
  BY <1>1 DEF Quiet, BooksBalance
<1>2. ASSUME NEW j \in Invoices, NEW o \in Outcomes, Booking(j, o) PROVE BooksBalance'
  <2> DEFINE a == accounts[j]
             b == accounts'[j]
  <2>1. /\ \A i \in Invoices : i # j => accounts'[i] = accounts[i]
        /\ a \in Accounts /\ b \in Accounts
        /\ o.kind # "PROMISED" => b.state = StateAfterOutcome(a.state, o.kind)
        /\ o.kind = "PROMISED" => /\ b.state \in {a.state, "PROMISED"}
                                  /\ b.recovered = a.recovered /\ b.resolved = a.resolved
        /\ o.kind # "PROMISED" =>
             /\ b.recovered = IF o.kind \notin {"PAID_FULL", "PAID_PARTIAL"} THEN a.recovered
                              ELSE IF a.recovered + o.amount < Amount[j]
                                   THEN a.recovered + o.amount ELSE Amount[j]
             /\ b.resolved = IF b.state # a.state /\ IsTerminal(b.state) /\ a.resolved = NoTick
                             THEN tick ELSE a.resolved
    BY <1>2, BookingEffect DEF IInv
  <2>2. /\ ~IsTerminal(a.state) /\ (o.kind = "PAID_FULL" => o.amount = Open(j))
        /\ o.kind = "WRITTEN_OFF" => a.state = "EXHAUSTED"
    BY <1>2 DEF Booking
  <2>3. /\ a.recovered <= Amount[j] /\ a.resolved = NoTick
        /\ Amount[j] \in Nat /\ a.recovered \in Nat /\ o.amount \in Nat /\ tick \in Nat
    <3>1. TypeOK
      BY DEF IInv
    <3>2. Amount[j] \in Nat /\ a.recovered \in Nat /\ o.amount \in Nat
      BY <2>1, <3>1, OpenType DEF Accounts, Outcomes
    <3>3. tick \in Nat
      BY <3>1, RunnerAssumption DEF TypeOK
    <3>4. a.recovered <= Amount[j] /\ a.resolved = NoTick
      BY <2>2 DEF BooksBalance
    <3> QED
      BY <3>2, <3>3, <3>4
  <2>4. IsTerminal(b.state) <=> o.kind \in {"PAID_FULL", "WRITTEN_OFF"}
    BY <2>1, <2>2 DEF StateAfterOutcome, Legal, AllowedTransitions, RecordStates, IsTerminal,
       TerminalStates, Accounts
  <2>5. b.state = "PAID" => o.kind = "PAID_FULL"
    BY <2>1, <2>2 DEF StateAfterOutcome, Legal, AllowedTransitions, RecordStates, IsTerminal,
       TerminalStates, Accounts
  <2>6. o.kind = "PAID_FULL" => b.recovered = Amount[j]
    BY <2>1, <2>2, <2>3 DEF Open, Outstanding
  <2>7. b.recovered <= Amount[j]
    BY <2>1, <2>3
  <2>8. b.resolved # NoTick <=> IsTerminal(b.state)
    BY <2>1, <2>2, <2>3, <2>4 DEF NoTick
  <2> HIDE DEF a, b
  <2> QED
    BY <2>1, <2>5, <2>6, <2>7, <2>8 DEF BooksBalance, b
<1>3. ASSUME NEW j \in Invoices, Review(j) PROVE BooksBalance'
  <2>1. /\ \A i \in Invoices : i # j => accounts'[i] = accounts[i]
        /\ accounts'[j].recovered = accounts[j].recovered
        /\ accounts'[j].resolved = accounts[j].resolved
        /\ ~IsTerminal(accounts[j].state) /\ ~IsTerminal(accounts'[j].state)
    BY <1>3, ReviewMoves DEF IsTerminal, TerminalStates
  <2>2. accounts'[j].state # "PAID"
    BY <2>1 DEF IsTerminal, TerminalStates
  <2> QED
    BY <2>1, <2>2 DEF BooksBalance
<1> QED
  BY <1>1, <1>2, <1>3, StepKinds

\* Nothing is recovered beyond the bill, PAID means all of it came in, and
\* exactly the settled records carry a resolution tick.
THEOREM BooksAlwaysBalance == Spec => []BooksBalance
<1>1. Init => BooksBalance
  <2>1. Init => \A i \in Invoices : accounts[i] = OpeningAccount
    BY DEF Init
  <2> QED
    BY <2>1, RunnerAssumption DEF BooksBalance, OpeningAccount, IsTerminal, TerminalStates
<1> QED
  BY <1>1, StepBalances, RunInvariant, PTL DEF Spec

-----------------------------------------------------------------------------
(* Promises.                                                                *)

\* A promised record's payer names dates: its pool of phrases is a dated one.
PromisersNameDates ==
    \A i \in Invoices : accounts[i].state = "PROMISED" =>
        /\ accounts[i].due # NoTick
        /\ \A p \in PhrasesOf[i], t \in 0 .. Horizon - 1 : Resolve[p][t] # NoTick

\* A later phrase of a promised record comes from the same pool, so it cannot
\* take the date away, and a broken promise takes the state with it.
LEMMA StepKeepsDates == IInv /\ PromisersNameDates /\ [Next]_vars => PromisersNameDates'
<1> SUFFICES ASSUME IInv, PromisersNameDates, [Next]_vars PROVE PromisersNameDates'
  OBVIOUS
<1>1. CASE Quiet
  BY <1>1 DEF Quiet, PromisersNameDates
<1>2. ASSUME NEW j \in Invoices, NEW o \in Outcomes, Booking(j, o) PROVE PromisersNameDates'
  <2> DEFINE a == accounts[j]
             b == accounts'[j]
             dated == \A p \in PhrasesOf[j], t \in 0 .. Horizon - 1 : Resolve[p][t] # NoTick
  <2>1. /\ \A i \in Invoices : i # j => accounts'[i] = accounts[i]
        /\ a \in Accounts
        /\ o.kind # "PROMISED" => /\ b.state = StateAfterOutcome(a.state, o.kind)
                                  /\ b.due = IF o.kind = "PROMISE_BROKEN" THEN NoTick ELSE a.due
        /\ o.kind = "PROMISED" => /\ b.due = Resolve[o.phrase][tick]
                                  /\ b.state = "PROMISED" => a.state = "PROMISED" \/ b.due # NoTick
    BY <1>2, BookingEffect DEF IInv
  <2>2. b.state = "PROMISED" => b.due # NoTick /\ dated
    <3>1. SUFFICES ASSUME b.state = "PROMISED" PROVE b.due # NoTick /\ dated
      OBVIOUS
    <3>2. CASE o.kind = "PROMISED"
      <4>1. o.phrase \in PhrasesOf[j] /\ tick \in 0 .. Horizon - 1
        BY <1>2, <3>2, RunnerAssumption DEF Booking, IInv, TypeOK
      <4>2. \/ \A p \in PhrasesOf[j], t \in 0 .. Horizon - 1 : Resolve[p][t] = NoTick
            \/ dated
        BY PromiseAssumption
      <4>3. a.state = "PROMISED" => dated
        BY DEF PromisersNameDates
      <4> QED
        BY <2>1, <3>1, <3>2, <4>1, <4>2, <4>3
    <3>3. CASE o.kind # "PROMISED"
      <4>1. a.state = "PROMISED" /\ o.kind # "PROMISE_BROKEN"
        BY <2>1, <3>1, <3>3 DEF StateAfterOutcome, Legal, AllowedTransitions, RecordStates,
           IsTerminal, TerminalStates, Accounts
      <4> QED
        BY <2>1, <3>3, <4>1 DEF PromisersNameDates
    <3> QED
      BY <3>2, <3>3
  <2> HIDE DEF a, b, dated
  <2> QED
    BY <2>1, <2>2 DEF PromisersNameDates, b, dated
<1>3. ASSUME NEW j \in Invoices, Review(j) PROVE PromisersNameDates'
  <2>1. /\ \A i \in Invoices : i # j => accounts'[i] = accounts[i]
        /\ accounts'[j].due = accounts[j].due
        /\ accounts'[j].state = "PROMISED" => accounts[j].state = "PROMISED"
    BY <1>3, ReviewMoves
  <2> QED
    BY <2>1 DEF PromisersNameDates
<1> QED
  BY <1>1, <1>2, <1>3, StepKinds

\* PROMISED always names a date, for every table of phrases in which a
\* payer's pool is all dated or all vague.
THEOREM PromisesAreDated == Spec => []PromisedIsDated
<1>1. Init => PromisersNameDates
  BY DEF Init, PromisersNameDates, OpeningAccount
<1>2. PromisersNameDates => PromisedIsDated
  BY DEF PromisersNameDates, PromisedIsDated
<1> QED
  BY <1>1, <1>2, StepKeepsDates, RunInvariant, PTL DEF Spec

-----------------------------------------------------------------------------
(* The policy gate.                                                         *)

\* What a review behind the policy gate may do: a step that appends a contact
\* found the balance owed, the record in the chase and every limit free.
LEMMA GatedReview ==
    ASSUME NEW i \in Invoices, IInv, HasPolicy, Review(i)
    PROVE  LET a == accounts[i]
               b == accounts'[i]
           IN  \/ /\ b.attempts = a.attempts /\ b.links = a.links /\ b.state = a.state
                  /\ engine' = engine
               \/ \E proposal \in Proposals(i) :
                    LET ctx == Context(i, proposal)
                        final == Reduced(ctx)
                    IN  /\ final \in Interventions
                        /\ b.state = StateAfterAction(a.state, final)
                        /\ b.links = a.links + ApiUnits(final)
                        /\ engine' = EngineAfter(engine, Adjudicate(ctx), i \in engine.suppressed)
                        /\ Adjudicate(ctx).verdict # "VETOED" /\ Adjudicate(ctx).final = final
                        /\ ~IsContact(final) => b.attempts = a.attempts
                        /\ IsContact(final) =>
                             /\ b.attempts = Append(a.attempts, tick)
                             /\ Open(i) > 0 /\ ContactHour(tick)
                             /\ a.state \in {"AT_RISK", "CONTACTED", "PROMISED"}
                             /\ i \notin TextDispute /\ i \notin engine.suppressed
                             /\ PayerContactsSince(accounts, PayerInvoices(i), Floor(tick)) < MaxContacts
                             /\ \A t \in PayerContactTicks(accounts, PayerInvoices(i)) :
                                   tick - t >= ContactSpacing
<1>1. /\ accounts[i] \in Accounts /\ tick \in Nat /\ TypeOK /\ Past
      /\ accounts[i].state \in {"AT_RISK", "CONTACTED", "PROMISED", "DISPUTED"}
  BY ReviewMoves, RunnerAssumption DEF IInv, TypeOK
<1>2. CASE /\ \E n \in Nat : accounts'[i] = [accounts[i] EXCEPT !.nextReview = n]
           /\ UNCHANGED <<pending, engine>>
  BY <1>1, <1>2 DEF Accounts
<1>3. ASSUME NEW final \in Interventions, NEW proposal \in Proposals(i),
             accounts'[i] = RecordAction(accounts[i], final, tick),
             Adjudicate(Context(i, proposal)).verdict # "VETOED",
             Adjudicate(Context(i, proposal)).final = final,
             engine' = EngineAfter(engine, Adjudicate(Context(i, proposal)), i \in engine.suppressed)
      PROVE  LET a == accounts[i]
                 b == accounts'[i]
             IN  /\ final = Reduced(Context(i, proposal))
                 /\ b.state = StateAfterAction(a.state, final)
                 /\ b.links = a.links + ApiUnits(final)
                 /\ ~IsContact(final) => b.attempts = a.attempts
                 /\ IsContact(final) =>
                      /\ b.attempts = Append(a.attempts, tick)
                      /\ Open(i) > 0 /\ ContactHour(tick)
                      /\ a.state \in {"AT_RISK", "CONTACTED", "PROMISED"}
                      /\ i \notin TextDispute /\ i \notin engine.suppressed
                      /\ PayerContactsSince(accounts, PayerInvoices(i), Floor(tick)) < MaxContacts
                      /\ \A t \in PayerContactTicks(accounts, PayerInvoices(i)) :
                            tick - t >= ContactSpacing
  <2>1. Decision(i, proposal) = Adjudicate(Context(i, proposal))
    BY DEF Decision
  <2>2. /\ accounts'[i].state = StateAfterAction(accounts[i].state, final)
        /\ accounts'[i].links = accounts[i].links + ApiUnits(final)
        /\ accounts'[i].attempts = IF IsContact(final) THEN Append(accounts[i].attempts, tick)
                                   ELSE accounts[i].attempts
    BY <1>1, <1>3, ActionType
  <2>3. /\ final = Reduced(Context(i, proposal))
        /\ IsContact(final) =>
             /\ Open(i) > 0 /\ ContactHour(tick) /\ accounts[i].state # "DISPUTED"
             /\ i \notin TextDispute /\ i \notin engine.suppressed
             /\ PayerContactsSince(accounts, PayerInvoices(i), Floor(tick)) < MaxContacts
             /\ \A t \in PayerContactTicks(accounts, PayerInvoices(i)) :
                   tick - t >= ContactSpacing
    BY <1>1, <1>3, <2>1, DecisionsAreLawful
  <2> QED
    BY <1>1, <2>2, <2>3
<1>4. \/ /\ \E n \in Nat : accounts'[i] = [accounts[i] EXCEPT !.nextReview = n]
         /\ UNCHANGED <<pending, engine>>
      \/ \E final \in Interventions, proposal \in Proposals(i) :
            /\ accounts'[i] = RecordAction(accounts[i], final, tick)
            /\ Adjudicate(Context(i, proposal)).verdict # "VETOED"
            /\ Adjudicate(Context(i, proposal)).final = final
            /\ engine' = EngineAfter(engine, Adjudicate(Context(i, proposal)),
                                     i \in engine.suppressed)
  BY <1>1, ReviewEffect
<1> QED
  BY <1>2, <1>3, <1>4

\* A contact is made only about money owed, on a record in the chase, and
\* never on a disputed text or a suppressed group.
THEOREM ContactsAlwaysOwed == Spec => ContactsAreOwed
<1> DEFINE Owed == HasPolicy =>
        \A i \in Invoices : accounts'[i].attempts # accounts[i].attempts =>
            /\ Open(i) > 0
            /\ accounts[i].state \in {"AT_RISK", "CONTACTED", "PROMISED"}
            /\ i \notin TextDispute \cup engine.suppressed
<1>1. ASSUME IInv, [Next]_vars PROVE Owed
  <2>1. CASE Quiet
    BY <2>1 DEF Quiet
  <2>2. ASSUME NEW j \in Invoices, NEW o \in Outcomes, Booking(j, o) PROVE Owed
    BY <1>1, <2>2, BookingEffect DEF IInv
  <2>3. ASSUME NEW j \in Invoices, Review(j) PROVE Owed
    <3>1. \A i \in Invoices : i # j => accounts'[i] = accounts[i]
      BY <1>1, <2>3, ReviewMoves
    <3>2. HasPolicy /\ accounts'[j].attempts # accounts[j].attempts =>
            /\ Open(j) > 0
            /\ accounts[j].state \in {"AT_RISK", "CONTACTED", "PROMISED"}
            /\ j \notin TextDispute \cup engine.suppressed
      BY <1>1, <2>3, GatedReview
    <3> QED
      BY <3>1, <3>2
  <2> QED
    BY <1>1, <2>1, <2>2, <2>3, StepKinds
<1>2. IInv /\ [Next]_vars => [Owed]_vars
  BY <1>1
<1> QED
  BY <1>2, RunInvariant, PTL DEF Spec, ContactsAreOwed

\* A review appends the tick to the contacts of its record, or nothing.
LEMMA ReviewAppends ==
    ASSUME IInv, NEW i \in Invoices, Review(i)
    PROVE  \/ accounts'[i].attempts = accounts[i].attempts
           \/ accounts'[i].attempts = Append(accounts[i].attempts, tick)
<1>1. accounts[i] \in Accounts /\ tick \in Nat
  BY RunnerAssumption DEF IInv, TypeOK
<1>2. CASE \E n \in Nat : accounts'[i] = [accounts[i] EXCEPT !.nextReview = n]
  BY <1>1, <1>2 DEF Accounts
<1>3. CASE \E final \in Interventions : accounts'[i] = RecordAction(accounts[i], final, tick)
  <2>1. PICK final \in Interventions : accounts'[i] = RecordAction(accounts[i], final, tick)
    BY <1>3
  <2>2. accounts'[i].attempts = IF IsContact(final) THEN Append(accounts[i].attempts, tick)
                                ELSE accounts[i].attempts
    BY <1>1, <2>1, ActionType
  <2> QED
    BY <2>2
<1> QED
  BY <1>2, <1>3, ReviewEffect DEF IInv

\* Where the contacts of a step come from: a contact is one of the ledger's
\* already, or the one this step's review appended.
LEMMA NewContacts ==
    ASSUME IInv, [Next]_vars, NEW i \in Invoices, NEW k \in DOMAIN accounts'[i].attempts
    PROVE  \/ k \in DOMAIN accounts[i].attempts /\ accounts'[i].attempts[k] = accounts[i].attempts[k]
           \/ /\ Review(i) /\ accounts'[i].attempts = Append(accounts[i].attempts, tick)
              /\ accounts'[i].attempts[k] = tick /\ k = Len(accounts[i].attempts) + 1
<1>1. accounts[i] \in Accounts /\ accounts[i].attempts \in Seq(Nat) /\ tick \in Nat
  BY RunnerAssumption DEF IInv, TypeOK, Accounts
<1>2. CASE accounts'[i].attempts = accounts[i].attempts
  BY <1>2
<1>3. CASE Review(i) /\ accounts'[i].attempts = Append(accounts[i].attempts, tick)
  BY <1>1, <1>3
<1>4. ASSUME Review(i)
      PROVE  \/ accounts'[i].attempts = accounts[i].attempts
             \/ accounts'[i].attempts = Append(accounts[i].attempts, tick)
  BY <1>4, ReviewAppends
<1>5. ~Review(i) => accounts'[i].attempts = accounts[i].attempts
  <2>1. CASE Quiet
    BY <2>1 DEF Quiet
  <2>2. ASSUME NEW j \in Invoices, NEW o \in Outcomes, Booking(j, o)
        PROVE  accounts'[i].attempts = accounts[i].attempts
    BY <2>2, BookingEffect DEF IInv
  <2>3. ASSUME NEW j \in Invoices, Review(j), ~Review(i)
        PROVE  accounts'[i].attempts = accounts[i].attempts
    <3>1. accounts'[i] = accounts[i]
      BY <2>3, ReviewMoves
    <3> QED
      BY <3>1
  <2> QED
    BY <2>1, <2>2, <2>3, StepKinds
<1> QED
  BY <1>2, <1>3, <1>4, <1>5

\* Every contact is made within the contact hours.
THEOREM ContactsInHours == Spec => []HoursHeld
<1>1. Init => HoursHeld
  BY DEF Init, HoursHeld, Contacts, OpeningAccount
<1>2. ASSUME IInv, HoursHeld, [Next]_vars PROVE HoursHeld'
  <2>1. SUFFICES ASSUME HasPolicy, NEW i \in Invoices, NEW k \in DOMAIN accounts'[i].attempts
                 PROVE  ContactHour(accounts'[i].attempts[k])
    BY DEF HoursHeld, Contacts, ContactTick
  <2>2. CASE /\ k \in DOMAIN accounts[i].attempts
             /\ accounts'[i].attempts[k] = accounts[i].attempts[k]
    <3>1. <<i, k>> \in Contacts /\ ContactTick(<<i, k>>) = accounts[i].attempts[k]
      BY <2>2 DEF Contacts, ContactTick
    <3> QED
      BY <1>2, <2>1, <2>2, <3>1 DEF HoursHeld
  <2>3. CASE /\ Review(i) /\ accounts'[i].attempts = Append(accounts[i].attempts, tick)
             /\ accounts'[i].attempts[k] = tick
    <3>1. accounts'[i].attempts # accounts[i].attempts
      BY <1>2, <2>3 DEF IInv, TypeOK, Accounts
    <3> QED
      BY <1>2, <2>1, <2>3, <3>1, GatedReview
  <2> QED
    BY <1>2, <2>1, <2>2, <2>3, NewContacts
<1> QED
  BY <1>1, <1>2, RunInvariant, PTL DEF Spec

\* Two contacts to one payer are at least the minimum spacing apart, however
\* many invoices the payer has and in whatever order they are reviewed.
THEOREM SpacingAlwaysHeld == Spec => []SpacingHeld
<1>1. Init => SpacingHeld
  BY DEF Init, SpacingHeld, Contacts, OpeningAccount
<1>2. ASSUME IInv, SpacingHeld, [Next]_vars PROVE SpacingHeld'
  <2> DEFINE Old(i, k) == /\ k \in DOMAIN accounts[i].attempts
                          /\ accounts'[i].attempts[k] = accounts[i].attempts[k]
             New(i, k) == /\ Review(i) /\ accounts'[i].attempts = Append(accounts[i].attempts, tick)
                          /\ accounts'[i].attempts[k] = tick
                          /\ k = Len(accounts[i].attempts) + 1
  <2>1. SUFFICES ASSUME HasPolicy,
                        NEW i \in Invoices, NEW k \in DOMAIN accounts'[i].attempts,
                        NEW j \in Invoices, NEW l \in DOMAIN accounts'[j].attempts,
                        <<i, k>> # <<j, l>>, Payer[i] = Payer[j],
                        accounts'[i].attempts[k] <= accounts'[j].attempts[l]
                 PROVE  accounts'[j].attempts[l] - accounts'[i].attempts[k] >= ContactSpacing
    BY DEF SpacingHeld, Contacts, ContactTick
  <2>2. /\ Old(i, k) \/ New(i, k)
        /\ Old(j, l) \/ New(j, l)
    BY <1>2, NewContacts
  <2>3. /\ tick \in Nat /\ ContactSpacing \in Nat
        /\ accounts[i].attempts \in Seq(Nat) /\ accounts[j].attempts \in Seq(Nat)
    BY <1>2, RunnerAssumption, PolicyAssumption DEF IInv, TypeOK, Accounts
  <2>4. CASE Old(i, k) /\ Old(j, l)
    <3>1. /\ <<i, k>> \in Contacts /\ ContactTick(<<i, k>>) = accounts[i].attempts[k]
          /\ <<j, l>> \in Contacts /\ ContactTick(<<j, l>>) = accounts[j].attempts[l]
      BY <2>4 DEF Contacts, ContactTick
    <3> QED
      BY <1>2, <2>1, <2>4, <3>1 DEF SpacingHeld
  \* What a new contact finds on another invoice of its payer.
  <2>5. ASSUME NEW a \in Invoices, NEW m, New(a, m),
               NEW b \in Invoices, NEW n, Old(b, n), Payer[a] = Payer[b]
        PROVE  tick - accounts[b].attempts[n] >= ContactSpacing
    <3>1. accounts'[a].attempts # accounts[a].attempts
      BY <1>2, <2>5 DEF IInv, TypeOK, Accounts
    <3>2. \A t \in PayerContactTicks(accounts, PayerInvoices(a)) : tick - t >= ContactSpacing
      BY <1>2, <2>1, <2>5, <3>1, GatedReview
    <3>3. accounts[b].attempts[n] \in PayerContactTicks(accounts, PayerInvoices(a))
      BY <2>5 DEF PayerContactTicks, PayerInvoices
    <3> QED
      BY <3>2, <3>3
  <2>6. CASE Old(i, k) /\ New(j, l)
    BY <2>1, <2>5, <2>6
  <2>7. CASE New(i, k) /\ Old(j, l)
    <3>1. tick - accounts[j].attempts[l] >= ContactSpacing
      BY <2>1, <2>5, <2>7
    <3>2. accounts[j].attempts[l] <= tick /\ accounts[j].attempts[l] \in Nat
      BY <1>2, <2>3, <2>7 DEF IInv, Past
    <3> QED
      BY <2>1, <2>3, <2>7, <3>1, <3>2
  <2>8. CASE New(i, k) /\ New(j, l)
    <3>1. i \in todo /\ j \in todo /\ i <= j /\ j <= i
      BY <2>8 DEF Review, Visit
    <3>2. i = j
      BY <3>1, RunnerAssumption DEF Invoices
    <3> QED
      BY <2>1, <2>8, <3>2
  <2> HIDE DEF Old, New
  <2> QED
    BY <2>2, <2>4, <2>6, <2>7, <2>8
<1> QED
  BY <1>1, <1>2, RunInvariant, PTL DEF Spec

-----------------------------------------------------------------------------
(* The payer's allowance.                                                   *)

\* The contacts the frequency limit counts at a contact: those to its payer,
\* on any invoice, within the window that ends with it.
WindowOf(c) ==
    {d \in Contacts :
        /\ Payer[d[1]] = Payer[c[1]]
        /\ ContactTick(d) \in ContactTick(c) - ContactWindow .. ContactTick(c)}

TickAfter(c) == accounts'[c[1]].attempts[c[2]]

\* The window and the tick of a contact after a step.
LEMMA WindowAfter ==
    ASSUME NEW c
    PROVE  WindowOf(c)' = {d \in Contacts' :
                              /\ Payer[d[1]] = Payer[c[1]]
                              /\ TickAfter(d) \in TickAfter(c) - ContactWindow .. TickAfter(c)}
  BY DEF WindowOf, ContactTick, TickAfter

\* What one more contact finds: fewer than MaxContacts in the window that is
\* about to end with it, and itself in no earlier one.
LEMMA OneMoreContact ==
    ASSUME IInv, HasPolicy, NEW i \in Invoices, Review(i),
           accounts'[i].attempts = Append(accounts[i].attempts, tick)
    PROVE  LET new == <<i, Len(accounts[i].attempts) + 1>>
               recent == ContactsSince(accounts, PayerInvoices(i), Floor(tick))
           IN  /\ Contacts' = Contacts \cup {new} /\ new \notin Contacts
               /\ TickAfter(new) = tick
               /\ \A c \in Contacts : TickAfter(c) = ContactTick(c)
                                   /\ ContactTick(c) \in Nat /\ ContactTick(c) <= tick
               /\ IsFiniteSet(recent) /\ Cardinality(recent) < MaxContacts
               /\ \A d \in Contacts : Payer[d[1]] = Payer[i] /\ ContactTick(d) >= tick - ContactWindow
                                        => d \in recent
<1> DEFINE new == <<i, Len(accounts[i].attempts) + 1>>
           mine == PayerInvoices(i)
           recent == ContactsSince(accounts, mine, Floor(tick))
<1>1. /\ \A j \in Invoices : accounts[j].attempts \in Seq(Nat)
      /\ \A j \in Invoices : j # i => accounts'[j] = accounts[j]
      /\ tick \in Nat /\ TypeOK
  <2>1. tick \in Nat /\ TypeOK
    BY RunnerAssumption DEF IInv, TypeOK
  <2>2. \A j \in Invoices : accounts[j].attempts \in Seq(Nat)
    BY <2>1 DEF TypeOK, Accounts
  <2>3. \A j \in Invoices : j # i => accounts'[j] = accounts[j]
    BY ReviewMoves
  <2> QED
    BY <2>1, <2>2, <2>3
<1>2. Contacts' = Contacts \cup {new} /\ new \notin Contacts
  <2>1. DOMAIN accounts'[i].attempts = DOMAIN accounts[i].attempts \cup {Len(accounts[i].attempts) + 1}
        /\ Len(accounts[i].attempts) + 1 \notin DOMAIN accounts[i].attempts
    BY <1>1
  <2>2. \A j \in Invoices : j # i => DOMAIN accounts'[j].attempts = DOMAIN accounts[j].attempts
    BY <1>1
  <2> DEFINE n == Len(accounts[i].attempts) + 1
             before(j) == DOMAIN accounts[j].attempts
             after(j) == DOMAIN accounts'[j].attempts
  <2>3. /\ Contacts = UNION {{<<j, k>> : k \in before(j)} : j \in Invoices}
        /\ Contacts' = UNION {{<<j, k>> : k \in after(j)} : j \in Invoices}
        /\ after(i) = before(i) \cup {n} /\ n \notin before(i)
        /\ \A j \in Invoices : j # i => after(j) = before(j)
    BY <2>1, <2>2 DEF Contacts
  <2> HIDE DEF before, after, n
  <2>4. ASSUME NEW c PROVE c \in Contacts' <=> c \in Contacts \/ c = <<i, n>>
    BY <2>3
  <2>5. <<i, n>> \notin Contacts
    BY <2>3
  <2> QED
    BY <2>4, <2>5 DEF n
<1>3. TickAfter(new) = tick
  <2>1. accounts'[i].attempts[Len(accounts[i].attempts) + 1] = tick
    BY <1>1
  <2> QED
    BY <2>1 DEF TickAfter
<1>4. ASSUME NEW c \in Contacts
      PROVE  /\ TickAfter(c) = ContactTick(c) /\ ContactTick(c) \in Nat /\ ContactTick(c) <= tick
             /\ Payer[c[1]] = Payer[i] /\ ContactTick(c) >= tick - ContactWindow => c \in recent
  <2>1. PICK j \in Invoices : \E k \in DOMAIN accounts[j].attempts : c = <<j, k>>
    BY DEF Contacts
  <2>2. PICK k \in DOMAIN accounts[j].attempts : c = <<j, k>>
    BY <2>1
  <2>3. ContactTick(c) = accounts[j].attempts[k] /\ ContactTick(c) \in Nat /\ ContactTick(c) <= tick
    BY <1>1, <2>2 DEF ContactTick, IInv, Past
  <2>4. accounts'[j].attempts[k] = accounts[j].attempts[k]
    <3>1. CASE j = i
      <4> DEFINE s == accounts[i].attempts
      <4>1. s \in Seq(Nat) /\ k \in DOMAIN s
        BY <1>1, <2>2, <3>1
      <4> HIDE DEF s
      <4>2. Append(s, tick)[k] = s[k]
        BY <1>1, <4>1
      <4> QED
        BY <3>1, <4>2 DEF s
    <3>2. CASE j # i
      BY <1>1, <3>2
    <3> QED
      BY <3>1, <3>2
  <2>5. ASSUME Payer[j] = Payer[i], ContactTick(c) >= tick - ContactWindow
        PROVE  c \in recent
    <3>1. j \in mine
      BY <2>5 DEF PayerInvoices
    <3>2. ContactTick(c) >= Floor(tick)
      BY <1>1, <2>3, <2>5, PolicyAssumption DEF Floor, Later
    <3> QED
      BY <2>2, <2>3, <3>1, <3>2 DEF ContactsSince
  <2> QED
    BY <2>2, <2>3, <2>4, <2>5 DEF ContactTick, TickAfter
<1>5. IsFiniteSet(recent)
  <2>1. Floor(tick) \in Nat /\ mine \in SUBSET Invoices
    BY <1>1, FloorType DEF PayerInvoices
  <2> QED
    BY <1>1, <2>1, ContactsAreFinite
<1>6. Cardinality(recent) < MaxContacts
  <2>1. accounts'[i].attempts # accounts[i].attempts
    BY <1>1
  <2> QED
    BY <2>1, GatedReview DEF PayerContactsSince
<1> QED
  BY <1>2, <1>3, <1>4, <1>5, <1>6

\* A step that contacts nobody moves no window.
LEMMA SameContacts ==
    ASSUME \A i \in Invoices : accounts'[i].attempts = accounts[i].attempts
    PROVE  Contacts' = Contacts /\ \A c \in Contacts : WindowOf(c)' = WindowOf(c)
<1>1. Contacts' = Contacts
  BY DEF Contacts
<1>2. \A c \in Contacts : TickAfter(c) = ContactTick(c)
  <2> SUFFICES ASSUME NEW c \in Contacts PROVE TickAfter(c) = ContactTick(c)
    OBVIOUS
  <2>1. PICK i \in Invoices : \E k \in DOMAIN accounts[i].attempts : c = <<i, k>>
    BY DEF Contacts
  <2> QED
    BY <2>1 DEF ContactTick, TickAfter
<1> QED
  BY <1>1, <1>2, WindowAfter DEF WindowOf

\* No payer is contacted more than MaxContacts times within any window that
\* ends with a contact, on however many invoices, whatever the window, the
\* spacing and the cadences are.  A contact made on the tick of an earlier
\* one, which a spacing of zero allows, falls into the earlier one's window
\* too, and that window is then the same.
THEOREM FrequencyAlwaysHeld == Spec => []FrequencyHeld
<1> DEFINE Held == HasPolicy => \A c \in Contacts : Cardinality(WindowOf(c)) <= MaxContacts
<1>1. FrequencyHeld <=> Held
  BY DEF FrequencyHeld, WindowOf
<1>2. Init => FrequencyHeld
  BY DEF Init, FrequencyHeld, Contacts, OpeningAccount
<1>3. ASSUME IInv, FrequencyHeld, [Next]_vars PROVE FrequencyHeld'
  <2>1. CASE \A i \in Invoices : accounts'[i].attempts = accounts[i].attempts
    <3>1. HasPolicy => \A c \in Contacts' : Cardinality(WindowOf(c)') <= MaxContacts
      BY <1>1, <1>3, <2>1, SameContacts
    <3> QED
      BY <3>1 DEF FrequencyHeld, WindowOf
  <2>2. ASSUME NEW i \in Invoices, Review(i),
               accounts'[i].attempts = Append(accounts[i].attempts, tick)
        PROVE  FrequencyHeld'
    <3>1. SUFFICES ASSUME HasPolicy, NEW c \in Contacts'
                   PROVE  Cardinality(WindowOf(c)') <= MaxContacts
      BY DEF FrequencyHeld, WindowOf
    <3> DEFINE new == <<i, Len(accounts[i].attempts) + 1>>
               recent == ContactsSince(accounts, PayerInvoices(i), Floor(tick))
    <3>2. /\ Contacts' = Contacts \cup {new} /\ new \notin Contacts
          /\ TickAfter(new) = tick /\ new[1] = i
          /\ \A d \in Contacts : TickAfter(d) = ContactTick(d)
                              /\ ContactTick(d) \in Nat /\ ContactTick(d) <= tick
          /\ IsFiniteSet(recent) /\ Cardinality(recent) < MaxContacts
          /\ \A d \in Contacts : Payer[d[1]] = Payer[i] /\ ContactTick(d) >= tick - ContactWindow
                                   => d \in recent
      BY <1>3, <2>2, <3>1, OneMoreContact
    <3>3. tick \in Nat /\ ContactWindow \in Nat /\ MaxContacts \in Nat
      BY <1>3, PolicyAssumption DEF IInv, TypeOK
    <3> HIDE DEF new, recent
    <3>4. CASE Payer[c[1]] = Payer[i] /\ TickAfter(c) = tick
      <4>1. WindowOf(c)' \subseteq recent \cup {new}
        BY <3>2, <3>3, <3>4, WindowAfter
      <4>2. IsFiniteSet(recent \cup {new}) /\ Cardinality(recent \cup {new}) <= Cardinality(recent) + 1
        <5>1. IsFiniteSet(recent) /\ Cardinality(recent) \in Nat
          BY <3>2, FS_CardinalityType
        <5>2. /\ IsFiniteSet(recent \cup {new})
              /\ Cardinality(recent \cup {new}) \in {Cardinality(recent), Cardinality(recent) + 1}
          BY <5>1, FS_AddElement
        <5> QED
          BY <5>1, <5>2
      <4>3. Cardinality(WindowOf(c)') <= Cardinality(recent \cup {new})
        BY <4>1, <4>2, FS_Subset
      <4>4. /\ Cardinality(WindowOf(c)') \in Nat /\ Cardinality(recent \cup {new}) \in Nat
            /\ Cardinality(recent) \in Nat
        BY <3>2, <4>1, <4>2, FS_Subset, FS_CardinalityType
      <4> QED
        BY <3>2, <3>3, <4>2, <4>3, <4>4
    <3>5. CASE ~(Payer[c[1]] = Payer[i] /\ TickAfter(c) = tick)
      <4>1. c \in Contacts /\ TickAfter(c) = ContactTick(c)
        BY <3>2, <3>5
      <4>2. Payer[c[1]] # Payer[i] \/ ContactTick(c) < tick
        BY <3>2, <3>3, <3>5, <4>1
      <4>3. \A d \in Contacts' : /\ Payer[d[1]] = Payer[c[1]]
                                /\ TickAfter(d) \in ContactTick(c) - ContactWindow .. ContactTick(c)
                                => d # new
        BY <3>2, <3>3, <4>1, <4>2
      <4>4. WindowOf(c)' = WindowOf(c)
        BY <3>2, <4>1, <4>3, WindowAfter DEF WindowOf
      <4> QED
        BY <1>1, <1>3, <3>1, <4>1, <4>4
    <3> QED
      BY <3>4, <3>5
  <2>3. \/ \A i \in Invoices : accounts'[i].attempts = accounts[i].attempts
        \/ \E i \in Invoices : Review(i) /\ accounts'[i].attempts = Append(accounts[i].attempts, tick)
    <3>1. CASE Quiet
      BY <3>1 DEF Quiet
    <3>2. ASSUME NEW j \in Invoices, NEW o \in Outcomes, Booking(j, o)
          PROVE  \A i \in Invoices : accounts'[i].attempts = accounts[i].attempts
      BY <1>3, <3>2, BookingEffect DEF IInv
    <3>3. ASSUME NEW j \in Invoices, Review(j)
          PROVE  \/ \A i \in Invoices : accounts'[i].attempts = accounts[i].attempts
                 \/ accounts'[j].attempts = Append(accounts[j].attempts, tick)
      <4>1. \A i \in Invoices : i # j => accounts'[i] = accounts[i]
        BY <1>3, <3>3, ReviewMoves
      <4>2. \/ accounts'[j].attempts = accounts[j].attempts
            \/ accounts'[j].attempts = Append(accounts[j].attempts, tick)
        BY <1>3, <3>3, ReviewAppends
      <4> QED
        BY <4>1, <4>2
    <3> QED
      BY <1>3, <3>1, <3>2, <3>3, StepKinds
  <2> QED
    BY <2>1, <2>2, <2>3
<1> QED
  BY <1>2, <1>3, RunInvariant, PTL DEF Spec

-----------------------------------------------------------------------------
(* The caps and the threshold.                                              *)

\* What the three reducing rules leave: a link only below both caps, and an
\* abandonment only at or below the threshold.
LEMMA WhatIsLeft ==
    ASSUME NEW ctx, IsContext(ctx)
    PROVE  /\ Reduced(ctx) = "PAYMENT_LINK" =>
                /\ ctx.links < MaxLinks
                /\ LinkBudget # NoBudget => ctx.linksUsed < LinkBudget
           /\ Reduced(ctx) = "STOP" => ctx.outstanding <= EscalationThreshold
<1>1. /\ ctx.links \in Nat /\ ctx.linksUsed \in Nat /\ ctx.outstanding \in Nat
      /\ MaxLinks \in Nat /\ EscalationThreshold \in Nat /\ LinkBudget \in Nat \cup {NoBudget}
  BY PolicyAssumption DEF IsContext
<1> DEFINE capped == AfterLinkCap(ctx, Judged(ctx))
           budgeted == AfterLinkBudget(ctx, capped)
<1>2. capped = "PAYMENT_LINK" => ctx.links < MaxLinks
  BY <1>1 DEF AfterLinkCap
<1>3. budgeted = "PAYMENT_LINK" =>
        /\ capped = "PAYMENT_LINK"
        /\ LinkBudget # NoBudget => ctx.linksUsed < LinkBudget
  BY <1>1 DEF AfterLinkBudget, NoBudget
<1>4. /\ Reduced(ctx) = "PAYMENT_LINK" => budgeted = "PAYMENT_LINK"
      /\ Reduced(ctx) = "STOP" => ctx.outstanding <= EscalationThreshold
  BY <1>1 DEF Reduced, AfterHighValue
<1> QED
  BY <1>2, <1>3, <1>4

\* No invoice exceeds its cap of links and the run stays within its budget.
THEOREM LinkCapsAlwaysHeld == Spec => []LinkCapsHeld
<1>1. Init => LinkCapsHeld
  BY PolicyAssumption DEF Init, LinkCapsHeld, OpeningAccount, FreshEngine, NoBudget
<1>2. ASSUME IInv, LinkCapsHeld, [Next]_vars, HasPolicy PROVE LinkCapsHeld'
  <2>1. CASE Quiet
    <3>1. engine'.linksUsed = engine.linksUsed
      BY <1>2, <2>1 DEF Quiet, OpenRun, IInv, TypeOK
    <3> QED
      BY <1>2, <2>1, <3>1 DEF Quiet, LinkCapsHeld
  <2>2. ASSUME NEW j \in Invoices, NEW o \in Outcomes, Booking(j, o) PROVE LinkCapsHeld'
    <3>1. \A i \in Invoices : accounts'[i].links = accounts[i].links
      BY <1>2, <2>2, BookingEffect DEF IInv
    <3>2. engine' = engine
      BY <2>2 DEF Booking
    <3> QED
      BY <1>2, <3>1, <3>2 DEF LinkCapsHeld
  <2>3. ASSUME NEW j \in Invoices, Review(j) PROVE LinkCapsHeld'
    <3>1. \A i \in Invoices : i # j => accounts'[i] = accounts[i]
      BY <1>2, <2>3, ReviewMoves
    <3>2. CASE accounts'[j].links = accounts[j].links /\ engine' = engine
      BY <1>2, <3>1, <3>2 DEF LinkCapsHeld
    <3>3. ASSUME NEW proposal \in Proposals(j),
                 LET ctx == Context(j, proposal)
                 IN  /\ accounts'[j].links = accounts[j].links + ApiUnits(Reduced(ctx))
                     /\ engine' = EngineAfter(engine, Adjudicate(ctx), j \in engine.suppressed)
                     /\ Adjudicate(ctx).verdict # "VETOED" /\ Adjudicate(ctx).final = Reduced(ctx)
          PROVE  LinkCapsHeld'
      <4> DEFINE ctx == Context(j, proposal)
      <4>1. /\ IsContext(ctx) /\ ctx.links = accounts[j].links /\ ctx.linksUsed = engine.linksUsed
        BY <1>2, ReviewsHaveContexts DEF Context, IInv
      <4>2. /\ accounts[j].links \in Nat /\ engine.linksUsed \in Nat /\ MaxLinks \in Nat
            /\ LinkBudget \in Nat \cup {NoBudget}
        BY <1>2, PolicyAssumption DEF IInv, TypeOK, Accounts
      <4>3. /\ accounts'[j].links = accounts[j].links + ApiUnits(Reduced(ctx))
            /\ engine' = EngineAfter(engine, Adjudicate(ctx), j \in engine.suppressed)
            /\ Adjudicate(ctx).verdict # "VETOED" /\ Adjudicate(ctx).final = Reduced(ctx)
        BY <3>3
      <4>4. engine'.linksUsed = engine.linksUsed + ApiUnits(Reduced(ctx))
        <5>1. engine \in [linksUsed: Nat, suppressed: SUBSET Invoices,
                          groupEscalationOpened: BOOLEAN]
          BY <1>2 DEF IInv, TypeOK
        <5> HIDE DEF ctx
        <5> QED
          BY <4>3, <5>1 DEF EngineAfter
      <4>5. /\ Reduced(ctx) = "PAYMENT_LINK" =>
                 /\ ctx.links < MaxLinks
                 /\ LinkBudget # NoBudget => ctx.linksUsed < LinkBudget
        BY <4>1, WhatIsLeft
      <4>6. /\ accounts[j].links <= MaxLinks
            /\ LinkBudget # NoBudget => engine.linksUsed <= LinkBudget
        BY <1>2 DEF LinkCapsHeld
      <4> HIDE DEF ctx
      <4>7. /\ accounts'[j].links <= MaxLinks
            /\ LinkBudget # NoBudget => engine'.linksUsed <= LinkBudget
        <5>1. CASE Reduced(ctx) = "PAYMENT_LINK"
          BY <4>1, <4>2, <4>3, <4>4, <4>5, <5>1 DEF ApiUnits
        <5>2. CASE Reduced(ctx) # "PAYMENT_LINK"
          BY <4>2, <4>3, <4>4, <4>6, <5>2 DEF ApiUnits
        <5> QED
          BY <5>1, <5>2
      <4> QED
        BY <1>2, <3>1, <4>7 DEF LinkCapsHeld
    <3> QED
      BY <1>2, <2>3, <3>2, <3>3, GatedReview
  <2> QED
    BY <1>2, <2>1, <2>2, <2>3, StepKinds
<1>3. IInv /\ LinkCapsHeld /\ [Next]_vars => LinkCapsHeld'
  BY <1>2 DEF LinkCapsHeld, HasPolicy
<1> QED
  BY <1>1, <1>3, RunInvariant, PTL DEF Spec

\* Automation never abandons, and so never loses, a balance above the
\* merchant's threshold.
THEOREM HighValuesAreKept == Spec => []NoHighValueLoss
<1>1. Init => NoHighValueLoss
  BY DEF Init, NoHighValueLoss, OpeningAccount
<1>2. ASSUME IInv, NoHighValueLoss, [Next]_vars, HasPolicy PROVE NoHighValueLoss'
  <2>1. CASE Quiet
    BY <1>2, <2>1 DEF Quiet, NoHighValueLoss, Open, Outstanding
  <2>2. ASSUME NEW j \in Invoices, NEW o \in Outcomes, Booking(j, o) PROVE NoHighValueLoss'
    <3>1. /\ \A i \in Invoices : i # j => accounts'[i] = accounts[i]
          /\ accounts[j] \in Accounts
          /\ o.kind # "PROMISED" => accounts'[j].state = StateAfterOutcome(accounts[j].state, o.kind)
          /\ o.kind = "PROMISED" => /\ accounts'[j].state \in {accounts[j].state, "PROMISED"}
                                    /\ accounts'[j].recovered = accounts[j].recovered
          /\ o.kind # "PROMISED" =>
               accounts'[j].recovered =
                 IF o.kind \notin {"PAID_FULL", "PAID_PARTIAL"} THEN accounts[j].recovered
                 ELSE IF accounts[j].recovered + o.amount < Amount[j]
                      THEN accounts[j].recovered + o.amount ELSE Amount[j]
      BY <1>2, <2>2, BookingEffect DEF IInv
    <3>2. /\ Amount[j] \in Nat /\ accounts[j].recovered \in Nat /\ o.amount \in Nat
          /\ EscalationThreshold \in Nat
      BY <3>1, RunnerAssumption, PolicyAssumption DEF Accounts, Outcomes
    <3>3. /\ ~IsTerminal(accounts[j].state)
          /\ o.kind = "WRITTEN_OFF" => accounts[j].state = "EXHAUSTED"
      BY <2>2 DEF Booking
    <3>4. accounts'[j].state \in {"EXHAUSTED", "WRITTEN_OFF"} => accounts[j].state = "EXHAUSTED"
      BY <3>1, <3>3 DEF StateAfterOutcome, Legal, AllowedTransitions, RecordStates, IsTerminal,
         TerminalStates, Accounts
    <3>5. accounts[j].state = "EXHAUSTED" => Open(j) <= EscalationThreshold
      BY <1>2 DEF NoHighValueLoss
    <3>6. Outstanding(Amount[j], accounts[j]) <= EscalationThreshold =>
             Outstanding(Amount[j], accounts'[j]) <= EscalationThreshold
      BY <3>1, <3>2 DEF Outstanding
    <3> QED
      BY <1>2, <3>1, <3>4, <3>5, <3>6 DEF NoHighValueLoss, Open, Outstanding
  <2>3. ASSUME NEW j \in Invoices, Review(j) PROVE NoHighValueLoss'
    <3>1. /\ \A i \in Invoices : i # j => accounts'[i] = accounts[i]
          /\ accounts'[j].recovered = accounts[j].recovered
          /\ accounts[j].state \in {"AT_RISK", "CONTACTED", "PROMISED", "DISPUTED"}
          /\ accounts'[j].state # "WRITTEN_OFF"
      BY <1>2, <2>3, ReviewMoves
    <3>2. Outstanding(Amount[j], accounts'[j]) = Outstanding(Amount[j], accounts[j])
      BY <3>1 DEF Outstanding
    <3>3. accounts'[j].state = "EXHAUSTED" => Open(j) <= EscalationThreshold
      <4>1. SUFFICES ASSUME accounts'[j].state = "EXHAUSTED"
                     PROVE  Open(j) <= EscalationThreshold
        OBVIOUS
      <4>2. PICK proposal \in Proposals(j) :
              accounts'[j].state = StateAfterAction(accounts[j].state, Reduced(Context(j, proposal)))
        BY <1>2, <2>3, <3>1, <4>1, GatedReview
      <4> DEFINE ctx == Context(j, proposal)
      <4>3. IsContext(ctx) /\ ctx.outstanding = Open(j)
        BY <1>2, ReviewsHaveContexts DEF Context, IInv
      <4>4. Reduced(ctx) = "STOP"
        <5> HIDE DEF ctx
        <5>1. accounts'[j].state = StateAfterAction(accounts[j].state, Reduced(ctx))
          BY <4>2 DEF ctx
        <5> QED
          BY <3>1, <4>1, <5>1 DEF StateAfterAction, Legal, AllowedTransitions, RecordStates,
             IsTerminal, TerminalStates, IsContact, ContactInterventions
      <4> HIDE DEF ctx
      <4> QED
        BY <4>3, <4>4, WhatIsLeft
    <3> QED
      BY <1>2, <3>1, <3>2, <3>3 DEF NoHighValueLoss, Open, Outstanding
  <2> QED
    BY <1>2, <2>1, <2>2, <2>3, StepKinds
<1>3. IInv /\ NoHighValueLoss /\ [Next]_vars => NoHighValueLoss'
  BY <1>2 DEF NoHighValueLoss, HasPolicy
<1> QED
  BY <1>1, <1>3, RunInvariant, PTL DEF Spec

\* The row of a contact is the review's, whose record owes what it did before;
\* no other step appends the row of a decision.
LEMMA StepIsAboutMoney == IInv /\ SomethingIsOwed /\ [Next]_vars => SomethingIsOwed'
<1> SUFFICES ASSUME IInv, SomethingIsOwed, [Next]_vars PROVE SomethingIsOwed'
  OBVIOUS
<1>1. ASSUME row'.kind # "DECISION" PROVE SomethingIsOwed'
  BY <1>1 DEF SomethingIsOwed
<1>2. /\ \A i \in Invoices, o \in Outcomes : OutcomeRow(i, o).kind # "DECISION"
      /\ NoRow.kind # "DECISION"
  BY DEF OutcomeRow, NoRow
<1>3. ASSUME NEW i \in Invoices, Review(i) PROVE SomethingIsOwed'
  <2>1. PICK proposal \in Proposals(i) :
            \/ ReviewVetoed(i, Decision(i, proposal))
            \/ ReviewExecuted(i, Decision(i, proposal))
    BY <1>3 DEF Review
  <2> DEFINE v == Decision(i, proposal)
  <2>2. HasPolicy /\ v.verdict # "VETOED" /\ IsContact(v.final) => Open(i) > 0
    BY DecisionsAreLawful DEF IInv
  <2>3. accounts'[i].recovered = accounts[i].recovered
    BY <1>3, ReviewMoves
  <2>4. \/ row' = DecisionRow(i, v.final, FALSE, v.defer)
        \/ v.verdict # "VETOED" /\ row' = DecisionRow(i, v.final, TRUE, NoTick)
    <3>1. CASE ReviewVetoed(i, v)
      <4> HIDE DEF v
      <4> QED
        BY <3>1 DEF ReviewVetoed
    <3>2. CASE ReviewExecuted(i, v)
      <4> HIDE DEF v
      <4> QED
        BY <3>2 DEF ReviewExecuted
    <3> QED
      BY <2>1, <3>1, <3>2
  <2> HIDE DEF v
  <2>5. row'.record = i /\ row'.intervention = v.final /\ (row'.executed => v.verdict # "VETOED")
    BY <2>4 DEF DecisionRow
  <2> QED
    BY <2>2, <2>3, <2>5 DEF SomethingIsOwed, Open, Outstanding, HasPolicy
<1>4. ASSUME NEW i \in Invoices, NEW o, Apply(i, o) PROVE SomethingIsOwed'
  BY <1>1, <1>4 DEF Apply, OutcomeRow
<1>5. ASSUME row' = NoRow PROVE SomethingIsOwed'
  BY <1>1, <1>2, <1>5
<1>6. ASSUME NEW p \in pending, LandResponse(p) \/ DropResponse(p) PROVE SomethingIsOwed'
  BY <1>4, <1>5, <1>6 DEF LandResponse, DropResponse, IInv, TypeOK
<1>7. ASSUME NEW i \in Invoices,
             \/ ResolvePromise(i) \/ PassPromise(i) \/ SettleSpontaneously(i)
             \/ StayQuiet(i) \/ WriteOff(i)
      PROVE  SomethingIsOwed'
  BY <1>4, <1>5, <1>7 DEF ResolvePromise, PassPromise, SettleSpontaneously, StayQuiet, WriteOff
<1>8. CASE OpenRun \/ StartPromises \/ StartSpontaneous \/ StartReviews \/ Advance \/ CloseRun
  BY <1>5, <1>8 DEF OpenRun, StartPromises, StartSpontaneous, StartReviews, Advance, CloseRun,
     StartStep
<1>9. CASE UNCHANGED vars
  BY <1>9 DEF vars, SomethingIsOwed, Open, Outstanding
<1> QED
  BY <1>3, <1>6, <1>7, <1>8, <1>9 DEF Next, Closed

(* All the gate's limits at once, for every book, budget and threshold: the *)
(* property the runs check.                                                 *)
THEOREM LimitsAlwaysHeld == Spec => []LimitsHeld
<1>1. Init => SomethingIsOwed
  BY DEF Init, SomethingIsOwed, NoRow
<1>2. IInv /\ SomethingIsOwed /\ [Next]_vars => SomethingIsOwed'
  BY StepIsAboutMoney
<1> QED
  BY <1>1, <1>2, RunInvariant, ContactsInHours, LinkCapsAlwaysHeld, HighValuesAreKept, PTL
     DEF LimitsHeld, Spec

-----------------------------------------------------------------------------
(* No promise is left behind.                                               *)

\* A record is settled, or holds no promise of tick t or earlier.
Ahead(i, t) == IsTerminal(accounts[i].state) \/ accounts[i].due = NoTick \/ accounts[i].due > t

\* Promises are settled in step 2 and stay settled for the rest of the tick:
\* its last two steps set no promise.
PromisesSettled ==
    /\ phase = "promises" => \A i \in Invoices \ todo : Ahead(i, tick)
    /\ phase \in {"spontaneous", "decide"} => \A i \in Invoices : Ahead(i, tick)
    /\ phase \in {"finalise", "closed"} =>
          /\ \A i \in Invoices : Ahead(i, Horizon - 1)
          /\ \A p \in pending : p.due >= Horizon

\* Only a new promise can put a record behind a date: any other outcome leaves
\* a record ahead, and a settled or a broken promise puts its record ahead.
LEMMA OutcomesKeepAhead ==
    ASSUME NEW j \in Invoices, NEW o \in Outcomes, IInv, Booking(j, o), o.kind # "PROMISED"
    PROVE  /\ \A i \in Invoices, t \in Nat : Ahead(i, t) => Ahead(i, t)'
           /\ o.kind \in {"PAID_FULL", "PROMISE_BROKEN"} => \A t \in Nat : Ahead(j, t)'
<1>1. /\ \A k \in Invoices : k # j => accounts'[k] = accounts[k]
      /\ accounts'[j].state = StateAfterOutcome(accounts[j].state, o.kind)
      /\ accounts'[j].due = IF o.kind = "PROMISE_BROKEN" THEN NoTick ELSE accounts[j].due
      /\ accounts[j].state \in RecordStates
  BY BookingEffect DEF IInv, Accounts
<1>2. ~IsTerminal(accounts[j].state)
  BY DEF Booking
<1>3. o.kind = "PAID_FULL" => IsTerminal(accounts'[j].state)
  BY <1>1, <1>2 DEF StateAfterOutcome, Legal, AllowedTransitions, RecordStates, IsTerminal,
     TerminalStates
<1> QED
  BY <1>1, <1>2, <1>3 DEF Ahead

\* Every action of the tick keeps the promises settled that its step relies on.
LEMMA StepSettlesPromises ==
    ASSUME IInv, PromisesSettled, [Next]_vars
    PROVE  PromisesSettled'
<1>1. tick \in Nat /\ Horizon \in Nat \ {0} /\ Horizon - 1 \in Nat /\ DOMAIN accounts = Invoices
  BY RunnerAssumption DEF IInv, TypeOK
<1>2. ASSUME UNCHANGED <<accounts, tick>>, NEW i \in Invoices, NEW t \in Nat, Ahead(i, t)
      PROVE  Ahead(i, t)'
  BY <1>2 DEF Ahead
<1>3. CASE phase' \in {"open", "land"}
  BY <1>3 DEF PromisesSettled
<1>4. CASE StartPromises
  <2>1. /\ phase' = "promises" /\ UNCHANGED <<tick, accounts>>
        /\ \A i \in Invoices \ todo' : IsTerminal(accounts'[i].state)
    BY <1>1, <1>4 DEF StartPromises, StartStep, Active
  <2> QED
    BY <2>1 DEF PromisesSettled, Ahead
<1>5. ASSUME NEW j \in Invoices, ResolvePromise(j) PROVE PromisesSettled'
  <2>1. PICK o \in PromiseOutcomes(j) : Apply(j, o)
    BY <1>5 DEF ResolvePromise
  <2>2. /\ o \in Outcomes /\ o.kind \in {"PAID_FULL", "PROMISE_BROKEN"}
        /\ o.kind = "PAID_FULL" => o.amount = Open(j)
    BY <2>1, OutcomesOfTheRun DEF IInv
  <2>3. /\ phase = "promises" /\ j \in todo /\ todo' = todo \ {j}
        /\ UNCHANGED <<tick, phase, engine>>
    BY <1>5 DEF ResolvePromise, Visit
  <2>4. Booking(j, o)
    BY <2>1, <2>2, <2>3 DEF Booking, IInv, Walks, Active
  <2>5. /\ \A i \in Invoices : Ahead(i, tick) => Ahead(i, tick)'
        /\ Ahead(j, tick)'
    BY <1>1, <2>2, <2>3, <2>4, OutcomesKeepAhead DEF Ahead
  <2> QED
    BY <2>3, <2>5 DEF PromisesSettled
<1>6. ASSUME NEW j \in Invoices, PassPromise(j) PROVE PromisesSettled'
  <2>1. /\ phase = "promises" /\ j \in todo /\ todo' = todo \ {j}
        /\ UNCHANGED <<tick, phase, accounts>>
        /\ accounts[j].due # NoTick => tick < accounts[j].due
    BY <1>1, <1>6 DEF PassPromise, Visit, PromiseDue, IInv, TypeOK, Accounts
  <2> QED
    BY <2>1 DEF PromisesSettled, Ahead
<1>7. CASE StartSpontaneous \/ StartReviews \/ CloseRun
  BY <1>7 DEF StartSpontaneous, StartReviews, CloseRun, StartStep, PromisesSettled, Ahead
<1>8. ASSUME NEW j \in Invoices, SettleSpontaneously(j) PROVE PromisesSettled'
  <2>1. PICK o \in SpontaneousPayments(j) : Apply(j, o)
    BY <1>8 DEF SettleSpontaneously
  <2>2. /\ o \in Outcomes /\ o.kind \in {"PAID_FULL", "PAID_PARTIAL"}
        /\ o.kind = "PAID_FULL" => o.amount = Open(j)
    BY <2>1, OutcomesOfTheRun DEF IInv
  <2>3. /\ phase = "spontaneous" /\ j \in todo /\ UNCHANGED <<tick, phase, engine>>
    BY <1>8 DEF SettleSpontaneously, Visit
  <2>4. Booking(j, o)
    BY <2>1, <2>2, <2>3 DEF Booking, IInv, Walks, Active
  <2>5. \A i \in Invoices : Ahead(i, tick) => Ahead(i, tick)'
    BY <1>1, <2>2, <2>3, <2>4, OutcomesKeepAhead DEF Ahead
  <2> QED
    BY <2>3, <2>5 DEF PromisesSettled
<1>9. ASSUME NEW j \in Invoices, StayQuiet(j) PROVE PromisesSettled'
  BY <1>9 DEF StayQuiet, Visit, PromisesSettled, Ahead
<1>10. ASSUME NEW j \in Invoices, Review(j) PROVE PromisesSettled'
  <2>1. /\ phase = "decide" /\ UNCHANGED <<tick, phase>>
        /\ \A i \in Invoices : i # j => accounts'[i] = accounts[i]
        /\ accounts'[j].due = accounts[j].due /\ ~IsTerminal(accounts[j].state)
    BY <1>10, ReviewMoves DEF IsTerminal, TerminalStates
  <2>2. \A i \in Invoices : Ahead(i, tick) => Ahead(i, tick)'
    BY <2>1 DEF Ahead
  <2> QED
    BY <2>1, <2>2 DEF PromisesSettled
<1>11. CASE Advance
  <2>1. CASE phase' = "finalise"
    <3>1. /\ phase = "decide" /\ tick = Horizon - 1 /\ UNCHANGED accounts
      BY <1>1, <1>11, <2>1 DEF Advance, IInv, TypeOK
    <3>2. \A p \in pending' : p.due >= Horizon
      BY <1>1, <1>11, <3>1 DEF Advance, IInv, TypeOK, InFlight
    <3> QED
      BY <2>1, <3>1, <3>2 DEF PromisesSettled, Ahead
  <2> QED
    BY <1>3, <1>11, <2>1 DEF Advance
<1>12. ASSUME NEW j \in Invoices, WriteOff(j) PROVE PromisesSettled'
  <2> DEFINE o == Outcome("WRITTEN_OFF", 0)
  <2>1. o \in Outcomes /\ o.kind = "WRITTEN_OFF"
    BY DEF Outcome, Outcomes, OutcomeKinds
  <2>2. /\ phase = "finalise" /\ j \in todo /\ Apply(j, o)
        /\ UNCHANGED <<tick, phase, engine, pending>>
    BY <1>12 DEF WriteOff, Visit
  <2> HIDE DEF o
  <2>3. accounts[j].state = "EXHAUSTED"
    BY <2>2 DEF IInv, Walks
  <2>4. Booking(j, o)
    BY <2>1, <2>2, <2>3 DEF Booking, IsTerminal, TerminalStates
  <2>5. \A i \in Invoices : Ahead(i, Horizon - 1) => Ahead(i, Horizon - 1)'
    BY <1>1, <2>1, <2>4, OutcomesKeepAhead
  <2> QED
    BY <2>2, <2>5 DEF PromisesSettled
<1>13. CASE UNCHANGED vars
  BY <1>13 DEF vars, PromisesSettled, Ahead
<1>14. ASSUME NEW p \in pending, LandResponse(p) \/ DropResponse(p) PROVE PromisesSettled'
  BY <1>3, <1>14 DEF LandResponse, DropResponse
<1> QED
  BY <1>3, <1>4, <1>5, <1>6, <1>7, <1>8, <1>9, <1>10, <1>11, <1>12, <1>13, <1>14
     DEF Next, Closed, OpenRun

\* PROMISED names a date; by the time anything is decided, every promise that
\* fell due is settled; and what the close leaves in flight falls due after it.
THEOREM PromisesNeverStale == Spec => []NoStalePromise
<1>1. Init => PromisesSettled
  BY DEF Init, PromisesSettled
<1>2. IInv /\ PromisesSettled /\ [Next]_vars => PromisesSettled'
  BY StepSettlesPromises
<1>3. IInv /\ PromisesSettled /\ PromisedIsDated => NoStalePromise
  BY DEF IInv, TypeOK, PromisesSettled, Ahead, NoStalePromise, Active
<1> QED
  BY <1>1, <1>2, <1>3, RunInvariant, PromisesAreDated, PTL DEF Spec

-----------------------------------------------------------------------------
(* The group's one escalation.                                              *)

\* What holds of the suppression before it is armed and after.
GroupInv ==
    /\ phase = "open" => /\ \A i \in Invoices : accounts[i].attempts = << >>
                         /\ ~engine.groupEscalationOpened
    /\ ~HasPolicy => engine.suppressed = {} /\ ~engine.groupEscalationOpened
    /\ GroupHeld

\* What opens the group's escalation is a member's case passed to a person.
LEMMA StepHoldsGroup ==
    ASSUME IInv, GroupInv, [Next]_vars
    PROVE  GroupInv'
<1>1. /\ engine \in [linksUsed: Nat, suppressed: SUBSET Invoices, groupEscalationOpened: BOOLEAN]
      /\ HasPolicy' = HasPolicy
  BY DEF IInv, TypeOK, HasPolicy
<1>2. \A i \in Invoices : accounts[i].state \in {"HUMAN_QUEUE", "PAID"} =>
                             accounts'[i].state \in {"HUMAN_QUEUE", "PAID"}
  BY StepKeepsObjections DEF StaysRaised
<1>3. CASE OpenRun
  <2>1. /\ phase = "open" /\ phase' = "land" /\ accounts' = accounts
        /\ \E members \in SUBSET Invoices :
              /\ engine' = [engine EXCEPT !.suppressed = members]
              /\ ~HasPolicy => members = {}
    BY <1>1, <1>3 DEF OpenRun
  <2>2. /\ engine'.groupEscalationOpened = engine.groupEscalationOpened
        /\ engine'.suppressed \in SUBSET Invoices /\ (~HasPolicy => engine'.suppressed = {})
    BY <1>1, <2>1
  <2> QED
    BY <1>1, <2>1, <2>2 DEF GroupInv, GroupHeld
<1>4. CASE /\ phase' # "open" /\ engine' = engine
           /\ \A i \in Invoices : accounts'[i].attempts = accounts[i].attempts
  BY <1>1, <1>2, <1>4 DEF GroupInv, GroupHeld
<1>5. phase' = "open" => phase = "open" /\ UNCHANGED <<accounts, engine>>
  BY <1>1 DEF Next, OpenRun, LandResponse, DropResponse, StartPromises, StartSpontaneous,
     StartReviews, StartStep, ResolvePromise, PassPromise, SettleSpontaneously, StayQuiet,
     Visit, Review, Advance, WriteOff, CloseRun, Closed, vars
<1>6. CASE phase' = "open"
  BY <1>1, <1>5, <1>6 DEF GroupInv, GroupHeld
<1>7. CASE Quiet /\ phase' # "open"
  BY <1>3, <1>4, <1>7 DEF Quiet
<1>8. ASSUME NEW j \in Invoices, NEW o \in Outcomes, Booking(j, o), phase' # "open"
      PROVE  GroupInv'
  <2>1. \A i \in Invoices : accounts'[i].attempts = accounts[i].attempts
    BY <1>8, BookingEffect DEF IInv
  <2> QED
    BY <1>4, <1>8, <2>1 DEF Booking
<1>9. ASSUME NEW j \in Invoices, Review(j), phase' # "open" PROVE GroupInv'
  <2>1. \A i \in Invoices : i # j => accounts'[i] = accounts[i]
    BY <1>9, ReviewMoves
  <2>2. CASE ~HasPolicy
    <3>1. engine' = engine
      BY <1>9, <2>2, ReviewEffect DEF IInv
    <3> QED
      BY <1>1, <1>9, <2>2, <3>1 DEF GroupInv, GroupHeld
  <2>3. CASE HasPolicy
    <3>1. CASE accounts'[j].attempts = accounts[j].attempts /\ engine' = engine
      BY <1>4, <1>9, <2>1, <3>1
    <3>2. ASSUME NEW proposal \in Proposals(j),
                 LET ctx == Context(j, proposal)
                     final == Reduced(ctx)
                 IN  /\ accounts'[j].state = StateAfterAction(accounts[j].state, final)
                     /\ engine' = EngineAfter(engine, Adjudicate(ctx), j \in engine.suppressed)
                     /\ Adjudicate(ctx).verdict # "VETOED" /\ Adjudicate(ctx).final = final
                     /\ ~IsContact(final) => accounts'[j].attempts = accounts[j].attempts
                     /\ IsContact(final) => j \notin engine.suppressed
          PROVE  GroupInv'
      <4> DEFINE ctx == Context(j, proposal)
                 final == Reduced(ctx)
                 member == j \in engine.suppressed
      <4>1. /\ accounts'[j].state = StateAfterAction(accounts[j].state, final)
            /\ engine' = EngineAfter(engine, Adjudicate(ctx), member)
            /\ Adjudicate(ctx).verdict # "VETOED" /\ Adjudicate(ctx).final = final
        BY <3>2
      <4>2. accounts'[j].attempts = accounts[j].attempts \/ j \notin engine.suppressed
        BY <3>2
      <4> HIDE DEF ctx, final
      <4>3. /\ engine'.suppressed = engine.suppressed
            /\ engine'.groupEscalationOpened =
                  (engine.groupEscalationOpened \/ (member /\ final = "ESCALATE_HUMAN"))
        BY <1>1, <4>1 DEF EngineAfter
      <4>4. accounts[j].state \in {"AT_RISK", "CONTACTED", "PROMISED", "DISPUTED"}
        BY <1>9, ReviewMoves
      <4>5. final = "ESCALATE_HUMAN" => accounts'[j].state = "HUMAN_QUEUE"
        BY <4>1, <4>4 DEF StateAfterAction, Legal, AllowedTransitions, RecordStates, IsTerminal,
           TerminalStates, IsContact, ContactInterventions
      <4>6. \A i \in engine'.suppressed : accounts'[i].attempts = << >>
        BY <1>1, <2>1, <4>2, <4>3 DEF GroupInv, GroupHeld
      <4>7. engine'.groupEscalationOpened =>
              \E i \in engine'.suppressed : accounts'[i].state \in {"HUMAN_QUEUE", "PAID"}
        <5>1. CASE engine.groupEscalationOpened
          <6>1. PICK i \in engine.suppressed : accounts[i].state \in {"HUMAN_QUEUE", "PAID"}
            BY <5>1 DEF GroupInv, GroupHeld
          <6> QED
            BY <1>1, <1>2, <4>3, <6>1
        <5>2. CASE ~engine.groupEscalationOpened
          BY <4>3, <4>5, <5>2
        <5> QED
          BY <5>1, <5>2
      <4> QED
        BY <1>1, <1>9, <2>3, <4>6, <4>7 DEF GroupInv, GroupHeld
    <3> QED
      BY <1>9, <2>3, <3>1, <3>2, GatedReview
  <2> QED
    BY <2>2, <2>3
<1> QED
  BY <1>6, <1>7, <1>8, <1>9, StepKinds

\* A suppressed member is never contacted, and the group is held back only
\* while a person has one of its invoices or had it until it was paid.
THEOREM GroupAlwaysHeld == Spec => []GroupHeld
<1>1. Init => GroupInv
  BY DEF Init, GroupInv, GroupHeld, OpeningAccount, FreshEngine
<1>2. IInv /\ GroupInv /\ [Next]_vars => GroupInv'
  BY StepHoldsGroup
<1>3. GroupInv => GroupHeld
  BY DEF GroupInv
<1> QED
  BY <1>1, <1>2, <1>3, RunInvariant, PTL DEF Spec

-----------------------------------------------------------------------------
(* The abstract book.                                                       *)

Standings == [i \in Invoices |-> StandingOf(accounts[i])]
Collected == [i \in Invoices |-> accounts[i].recovered]
BookOpen == phase \notin {"finalise", "closed"}

\* The book closes once, when the finalisation starts.
LEMMA BookClosesOnce ==
    ASSUME IInv, [Next]_vars
    PROVE  ~BookOpen => ~BookOpen'
<1> SUFFICES ASSUME phase \in {"finalise", "closed"} PROVE phase' \in {"finalise", "closed"}
  BY DEF BookOpen
<1>1. CASE \E i \in Invoices : WriteOff(i)
  BY <1>1 DEF WriteOff, Visit
<1>2. CASE CloseRun \/ Closed \/ UNCHANGED vars
  BY <1>2 DEF CloseRun, StartStep, Closed, vars
<1> QED
  BY <1>1, <1>2 DEF Next, OpenRun, LandResponse, DropResponse, StartPromises, ResolvePromise,
     PassPromise, StartSpontaneous, SettleSpontaneously, StayQuiet, StartReviews, Review, Advance,
     StartStep

\* A booked outcome is a payment, a loss, a raised dispute or case, or
\* nothing to the book.
LEMMA BookingIsABookStep ==
    ASSUME IInv, BooksBalance, NEW j \in Invoices, NEW o \in Outcomes, Booking(j, o)
    PROVE  [Book!Next]_(Book!vars)
<1> DEFINE a == accounts[j]
           b == accounts'[j]
<1>1. /\ \A i \in Invoices : i # j => accounts'[i] = accounts[i]
      /\ a \in Accounts /\ b \in Accounts
      /\ o.kind # "PROMISED" => b.state = StateAfterOutcome(a.state, o.kind)
      /\ o.kind = "PROMISED" =>
            b.state = IF b.due # NoTick /\ "PROMISED" \in AllowedTransitions[a.state]
                      THEN "PROMISED" ELSE a.state
      /\ o.kind = "PROMISED" => b.recovered = a.recovered
      /\ o.kind # "PROMISED" =>
           b.recovered = IF o.kind \notin {"PAID_FULL", "PAID_PARTIAL"} THEN a.recovered
                         ELSE IF a.recovered + o.amount < Amount[j]
                              THEN a.recovered + o.amount ELSE Amount[j]
  BY BookingEffect DEF IInv
<1>2. /\ ~IsTerminal(a.state) /\ (o.kind = "PAID_FULL" => o.amount = Open(j))
      /\ o.kind = "WRITTEN_OFF" => a.state = "EXHAUSTED" /\ ~BookOpen
      /\ o.kind # "WRITTEN_OFF" => BookOpen
      /\ BookOpen' = BookOpen
      /\ \/ o.kind \in {"PAID_FULL", "PAID_PARTIAL", "PROMISE_BROKEN", "WRITTEN_OFF"}
         \/ a.state \in {"CONTACTED", "PROMISED", "DISPUTED"}
  BY DEF Booking, BookOpen
<1>3. /\ Amount[j] \in Nat /\ a.recovered \in Nat /\ o.amount \in Nat
      /\ a.recovered <= Amount[j] /\ a.state \in RecordStates /\ o.kind \in OutcomeKinds
  BY <1>1, OpenType DEF IInv, Accounts, Outcomes, BooksBalance
<1> DEFINE s == StandingOf(a)
           t == StandingOf(b)
<1>4. /\ Standings' = [Standings EXCEPT ![j] = t]
      /\ Collected' = [Collected EXCEPT ![j] = b.recovered]
      /\ Standings[j] = s /\ Collected[j] = a.recovered
  BY <1>1 DEF Standings, Collected
<1>5. s \notin {"paid", "lost"}
  BY <1>2, <1>3 DEF StandingOf, IsTerminal, TerminalStates, RecordStates
<1>6. CASE o.kind = "PAID_FULL"
  <2>1. t = "paid" /\ b.recovered = Amount[j]
    BY <1>1, <1>2, <1>3, <1>6 DEF StandingOf, StateAfterOutcome, Legal, AllowedTransitions,
       RecordStates, IsTerminal, TerminalStates, Open, Outstanding
  <2>2. Book!PayInFull(j)
    BY <1>2, <1>4, <1>5, <1>6, <2>1
       DEF Book!PayInFull, Book!Settled, Standings, Collected, BookOpen
  <2> QED
    BY <2>2 DEF Book!Next
<1>7. CASE o.kind = "PAID_PARTIAL"
  <2>1. t = s /\ b.recovered \in a.recovered .. Amount[j]
    <3>1. b.state = a.state
      BY <1>1, <1>7 DEF StateAfterOutcome
    <3>2. t = s
      BY <3>1 DEF StandingOf
    <3>3. b.recovered = IF a.recovered + o.amount < Amount[j]
                        THEN a.recovered + o.amount ELSE Amount[j]
      BY <1>1, <1>7
    <3>4. b.recovered \in a.recovered .. Amount[j]
      BY <1>3, <3>3
    <3> QED
      BY <3>2, <3>4
  <2>2. Standings' = Standings
    BY <1>4, <2>1 DEF Standings
  <2>3. Book!PayInPart(j)
    BY <1>2, <1>4, <1>5, <1>7, <2>1, <2>2
       DEF Book!PayInPart, Book!Settled, Standings, Collected, BookOpen
  <2> QED
    BY <2>3 DEF Book!Next
<1>8. CASE o.kind = "WRITTEN_OFF"
  <2>1. s = "given up" /\ t = "lost" /\ b.recovered = a.recovered
    BY <1>1, <1>2, <1>3, <1>8 DEF StandingOf, StateAfterOutcome, Legal, AllowedTransitions,
       RecordStates, IsTerminal, TerminalStates
  <2>2. Collected' = Collected
    BY <1>4, <2>1 DEF Collected
  <2>3. Book!Lose(j)
    BY <1>2, <1>4, <1>8, <2>1, <2>2 DEF Book!Lose, Standings, Collected, BookOpen
  <2> QED
    BY <2>3 DEF Book!Next
<1>9. CASE o.kind \notin {"PAID_FULL", "PAID_PARTIAL", "WRITTEN_OFF"}
  <2>1. /\ b.recovered = a.recovered
        /\ \/ t = s
           \/ s = "chased" /\ t \in {"disputed", "with a person"}
           \/ s = "disputed" /\ t = "with a person"
    BY <1>1, <1>2, <1>3, <1>9 DEF StandingOf, StateAfterOutcome, Legal, AllowedTransitions,
       RecordStates, IsTerminal, TerminalStates, OutcomeKinds
  <2>2. Collected' = Collected
    BY <1>4, <2>1 DEF Collected
  <2>3. CASE t = s
    <3>1. Standings' = Standings
      BY <1>4, <2>3 DEF Standings
    <3> QED
      BY <1>2, <2>2, <3>1 DEF Book!vars, Standings, Collected, BookOpen
  <2>4. CASE t # s
    <3>1. Book!Raise(j)
      BY <1>2, <1>4, <1>9, <2>1, <2>2, <2>4 DEF Book!Raise, Standings, Collected, BookOpen
    <3> QED
      BY <3>1 DEF Book!Next
  <2> QED
    BY <2>3, <2>4
<1> QED
  BY <1>6, <1>7, <1>8, <1>9

\* A review raises a case, gives one up, or leaves the book alone.
LEMMA ReviewIsABookStep ==
    ASSUME IInv, NEW j \in Invoices, Review(j)
    PROVE  [Book!Next]_(Book!vars)
<1> DEFINE a == accounts[j]
           b == accounts'[j]
           s == StandingOf(a)
           t == StandingOf(b)
<1>1. /\ phase = "decide" /\ phase' = phase
      /\ \A i \in Invoices : i # j => accounts'[i] = accounts[i]
      /\ b.recovered = a.recovered
      /\ a.state \in {"AT_RISK", "CONTACTED", "PROMISED", "DISPUTED"}
      /\ a.state = "DISPUTED" => b.state \in {"DISPUTED", "HUMAN_QUEUE"}
      /\ a.state # "DISPUTED" => b.state \in {a.state, "CONTACTED", "HUMAN_QUEUE", "EXHAUSTED"}
  BY ReviewMoves
<1>2. \/ t = s
      \/ s = "chased" /\ t \in {"with a person", "given up"}
      \/ s = "disputed" /\ t = "with a person"
  BY <1>1 DEF StandingOf
<1>3. /\ Standings' = [Standings EXCEPT ![j] = t] /\ Standings[j] = s
      /\ Collected' = Collected
  BY <1>1 DEF Standings, Collected
<1>4. CASE t = s
  <2>1. Standings' = Standings
    BY <1>3, <1>4 DEF Standings
  <2> QED
    BY <1>1, <1>3, <2>1 DEF Book!vars, Standings, Collected
<1>5. CASE t # s
  <2>1. Book!Raise(j)
    BY <1>1, <1>2, <1>3, <1>5 DEF Book!Raise, Standings, Collected
  <2> QED
    BY <2>1 DEF Book!Next
<1> QED
  BY <1>4, <1>5

\* A run implements the abstract book of Receivable: payments, disputes,
\* cases and abandonment while it is open, losses of what was given up once it
\* is closed, and nothing else.
THEOREM RunImplementsTheBook == Spec => ImplementsReceivable
<1>1. Init => Book!Init
  <2> SUFFICES ASSUME Init PROVE Book!Init
    OBVIOUS
  <2>1. \A i \in Invoices : accounts[i].recovered = 0 /\ StandingOf(accounts[i]) = "chased"
    BY DEF Init, OpeningAccount, StandingOf
  <2> QED
    BY <2>1 DEF Init, Book!Init
<1>2. IInv /\ BooksBalance /\ [Next]_vars => [Book!Next]_(Book!vars)
  <2> SUFFICES ASSUME IInv, BooksBalance, [Next]_vars PROVE [Book!Next]_(Book!vars)
    OBVIOUS
  <2>1. CASE Quiet
    <3>1. CASE BookOpen' = BookOpen
      BY <2>1, <3>1 DEF Quiet, Book!vars, BookOpen
    <3>2. CASE BookOpen' # BookOpen
      <4>1. BookOpen /\ ~BookOpen'
        BY <3>2, BookClosesOnce DEF BookOpen
      <4>2. Book!Close
        BY <2>1, <4>1 DEF Quiet, Book!Close, BookOpen
      <4> QED
        BY <4>2 DEF Book!Next
    <3> QED
      BY <3>1, <3>2
  <2> QED
    BY <2>1, StepKinds, BookingIsABookStep, ReviewIsABookStep
<1> QED
  BY <1>1, <1>2, RunInvariant, BooksAlwaysBalance, PTL DEF Spec, ImplementsReceivable, Book!Spec
=============================================================================
