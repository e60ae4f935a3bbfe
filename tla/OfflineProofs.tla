---------------------------- MODULE OfflineProofs ----------------------------
(***************************************************************************)
(* The two arms without a model implement the runner: whatever they propose *)
(* is something an agent may propose, and the insight they find is one the  *)
(* engine may be given.  What RunnerProofs proves of every run is proved of *)
(* theirs with it.  Two bounds on how long a record can be kept waiting     *)
(* follow, for every constant with a stated ordering: a review is put off   *)
(* past the next spacing only when the payer's allowance is spent, and the  *)
(* chase is given up on nothing before the rungs of its ladder are used up. *)
(***************************************************************************)
EXTENDS OfflineArms, RunnerProofs

\* The members of a group are invoices, and finitely many.
LEMMA OpenMembersCount ==
    ASSUME NEW g
    PROVE  /\ OpenMembers(g) \subseteq Invoices
           /\ Cardinality(OpenMembers(g)) \in Nat
  <1>1. OpenMembers(g) \subseteq Invoices
    BY DEF OpenMembers
  <1>2. IsFiniteSet(Invoices)
    BY RunnerAssumption, FS_Interval DEF Invoices
  <1> QED BY <1>1, <1>2, FS_Subset, FS_CardinalityType

\* Two candidates are never both named: the order on counts, then on
\* position, is total.
LEMMA OneGroupNamed ==
    ASSUME NEW j \in Candidates, NEW k \in Candidates, Named(j), Named(k)
    PROVE  j = k
  <1>1. j \in Nat /\ k \in Nat
    BY OfflineAssumption DEF Candidates
  <1> DEFINE n(c) == Cardinality(OpenMembers(GroupOrder[c]))
  <1>2. n(j) \in Nat /\ n(k) \in Nat
    BY OpenMembersCount
  <1>3. SUFFICES ASSUME j # k PROVE FALSE
    OBVIOUS
  <1>4. n(j) > n(k) \/ (n(j) = n(k) /\ j < k)
    BY <1>3 DEF Named
  <1>5. n(k) > n(j) \/ (n(k) = n(j) /\ k < j)
    BY <1>3 DEF Named
  <1> HIDE DEF n
  <1> QED BY <1>1, <1>2, <1>4, <1>5

\* What the batch fallback arms is nothing, or one group approved whole.
LEMMA FallbackArmsAGroup ==
    \/ ArmedByFallback = {}
    \/ \E g \in {Group[i] : i \in Invoices} :
        SuppressionApproved(g, OpenMembers(g)) /\ ArmedByFallback = OpenMembers(g)
  <1>1. SUFFICES ASSUME ArmedByFallback # {}
                 PROVE  \E g \in {Group[i] : i \in Invoices} :
                          /\ SuppressionApproved(g, OpenMembers(g))
                          /\ ArmedByFallback = OpenMembers(g)
    OBVIOUS
  <1>2. PICK k \in Candidates :
            /\ arm = "AGENT" /\ Named(k)
            /\ SuppressionApproved(GroupOrder[k], OpenMembers(GroupOrder[k]))
    BY <1>1 DEF ArmedByFallback
  <1>3. GroupOrder[k] \in {Group[i] : i \in Invoices}
    BY OfflineAssumption DEF Candidates
  <1>4. ArmedByFallback = OpenMembers(GroupOrder[k])
    <2>1. ArmedByFallback \subseteq OpenMembers(GroupOrder[k])
      BY <1>2, OneGroupNamed DEF ArmedByFallback
    <2>2. OpenMembers(GroupOrder[k]) \subseteq ArmedByFallback
      BY <1>2, OpenMembersCount DEF ArmedByFallback
    <2> QED BY <2>1, <2>2
  <1> QED BY <1>2, <1>3, <1>4

\* The fixed proposals are among those an agent may make.
LEMMA FixedProposalsAreProposals ==
    ASSUME NEW i \in Invoices
    PROVE  FixedProposal(i) \in Proposals(i)
  <1>1. Proposals(i) = [intervention : Interventions, draft : Drafts]
    BY OfflineAssumption DEF Proposals
  <1>2. NoDraft \in Drafts /\ "S" \in Drafts
    BY OfflineAssumption
  <1>3. FallbackChoice(i) \in Interventions
    BY DEF FallbackChoice, Rung, Interventions
  <1>4. FallbackDraft(FallbackChoice(i)) \in Drafts
    BY <1>2 DEF FallbackDraft
  <1>5. NaiveChoice(accounts[i]) \in Interventions
    BY DEF NaiveChoice, Interventions
  <1> QED BY <1>1, <1>2, <1>3, <1>4, <1>5 DEF FixedProposal, FallbackProposal

\* What the batch fallback arms, the runner may be given to arm.
LEMMA OpenOfflineRunOpens == OpenOfflineRun => OpenRun
  <1> SUFFICES ASSUME OpenOfflineRun PROVE OpenRun
    OBVIOUS
  <1>1. HasPolicy
    BY OfflineAssumption DEF HasPolicy
  <1> DEFINE armed(g, members) ==
        IF HasPolicy /\ SuppressionApproved(g, members) THEN members ELSE {}
  <1>2. \E g \in {Group[i] : i \in Invoices} \cup {NoGroup}, members \in SUBSET Invoices :
            armed(g, members) = ArmedByFallback
    <2>1. CASE ArmedByFallback = {}
      <3>1. armed(NoGroup, {}) = {}
        OBVIOUS
      <3> QED BY <2>1, <3>1
    <2>2. CASE ArmedByFallback # {}
      <3>1. PICK g \in {Group[i] : i \in Invoices} :
              SuppressionApproved(g, OpenMembers(g)) /\ ArmedByFallback = OpenMembers(g)
        BY <2>2, FallbackArmsAGroup
      <3>2. armed(g, OpenMembers(g)) = ArmedByFallback
        BY <1>1, <3>1
      <3> HIDE DEF armed
      <3> QED BY <3>1, <3>2, OpenMembersCount
    <2> QED BY <2>1, <2>2
  <1> QED BY <1>2 DEF OpenOfflineRun, OpenRun

\* Each step of an arm without a model is one of the runner's.
LEMMA OfflineStepRuns == [OfflineNext]_offlineVars => [Next]_vars
  <1> SUFFICES ASSUME [OfflineNext]_offlineVars PROVE [Next]_vars
    OBVIOUS
  <1>1. CASE UNCHANGED offlineVars
    BY <1>1 DEF offlineVars
  <1>2. CASE OpenOfflineRun
    BY <1>2, OpenOfflineRunOpens DEF Next
  <1>3. ASSUME NEW i \in Invoices, OfflineReview(i) PROVE Next
    <2>1. Review(i)
      BY <1>3, FixedProposalsAreProposals DEF OfflineReview, Review
    <2> QED BY <2>1 DEF Next
  <1>4. CASE OfflineNext /\ ~OpenOfflineRun /\ ~(\E i \in Invoices : OfflineReview(i))
    BY <1>4 DEF OfflineNext, Next
  <1> QED BY <1>1, <1>2, <1>3, <1>4

\* An arm without a model starts as the runner does, and each of its steps is
\* one of the runner's: the ladder, the chaser and the batch fallback only
\* choose among what batch.py may be handed.
THEOREM OfflineImplementsRunner == OfflineSpec => Spec
  <1>1. OfflineInit => Init
    BY DEF OfflineInit
  <1> QED BY <1>1, OfflineStepRuns, PTL DEF OfflineSpec, Spec

\* No promise of a record goes unchecked past its day, under either arm and
\* at any constants: run at the source's own in offline_arms.
THEOREM OfflinePromisesNeverStale == OfflineSpec => []NoStalePromise
  BY OfflineImplementsRunner, PromisesNeverStale

\* Contacts of the deterministic arms keep the payer's spacing and the hours.
THEOREM OfflineContactsAreLawful ==
    OfflineSpec => []SpacingHeld /\ []HoursHeld /\ []FrequencyHeld
  BY OfflineImplementsRunner, SpacingAlwaysHeld, ContactsInHours, FrequencyAlwaysHeld

-----------------------------------------------------------------------------
(* How far a record may be put off.                                         *)

\* The contacts of a book are finitely many.
LEMMA ContactsOfABook ==
    ASSUME NEW book \in [Invoices -> Accounts]
    PROVE  IsFiniteSet(UNION {{<<j, k>> : k \in DOMAIN book[j].attempts} : j \in Invoices})
  <1> DEFINE made(j) == {<<j, k>> : k \in DOMAIN book[j].attempts}
             parts == {made(j) : j \in Invoices}
  <1>1. ASSUME NEW j \in Invoices PROVE IsFiniteSet(made(j))
    <2>1. book[j].attempts \in Seq(Nat)
      BY DEF Accounts
    <2>2. IsFiniteSet(1 .. Len(book[j].attempts))
      BY <2>1, FS_Interval
    <2>3. DOMAIN book[j].attempts = 1 .. Len(book[j].attempts)
      BY <2>1
    <2>4. [k \in DOMAIN book[j].attempts |-> <<j, k>>]
              \in Surjection(DOMAIN book[j].attempts, made(j))
      BY DEF Surjection
    <2> QED BY <2>2, <2>3, <2>4, FS_Surjection
  <1>2. IsFiniteSet(Invoices)
    BY RunnerAssumption, FS_Interval DEF Invoices
  <1>3. [j \in Invoices |-> made(j)] \in Surjection(Invoices, parts)
    <2> HIDE DEF made
    <2> QED BY DEF Surjection
  <1>4. IsFiniteSet(parts)
    BY <1>2, <1>3, FS_Surjection
  <1>5. \A part \in parts : IsFiniteSet(part)
    BY <1>1
  <1> HIDE DEF parts
  <1>6. IsFiniteSet(UNION parts)
    BY <1>4, <1>5, FS_UNION
  <1> QED BY <1>6 DEF parts

\* Every contact made to the payer of invoice i, on whatever invoice.
Spent(i) == {c \in Contacts : Payer[c[1]] = Payer[i]}

\* They are finitely many, and those the frequency rule counts are of them.
LEMMA SpentCounts ==
    ASSUME TypeOK, NEW i \in Invoices
    PROVE  /\ IsFiniteSet(Spent(i)) /\ Cardinality(Spent(i)) \in Nat
           /\ PayerContactsSince(accounts, PayerInvoices(i), Floor(tick)) <= Cardinality(Spent(i))
           /\ PayerContactsSince(accounts, PayerInvoices(i), Floor(tick)) \in Nat
  <1> DEFINE mine == PayerInvoices(i)
             counted == ContactsSince(accounts, mine, Floor(tick))
  <1>1. mine \in SUBSET Invoices
    BY DEF PayerInvoices
  <1>2. IsFiniteSet(Contacts)
    BY ContactsOfABook DEF TypeOK, Contacts
  <1>3. Spent(i) \subseteq Contacts
    BY DEF Spent
  <1>4. counted \subseteq Spent(i)
    <2> SUFFICES ASSUME NEW c \in counted PROVE c \in Spent(i)
      OBVIOUS
    <2>1. PICK j \in mine : \E k \in DOMAIN accounts[j].attempts : c = <<j, k>>
      BY DEF ContactsSince
    <2> QED BY <2>1 DEF Spent, Contacts, PayerInvoices
  <1>5. IsFiniteSet(Spent(i))
    BY <1>2, <1>3, FS_Subset
  <1> QED BY <1>4, <1>5, FS_Subset, FS_CardinalityType DEF PayerContactsSince

\* The cadences the source has, 8, 12 and 18 ticks: no wait or message is
\* looked at later than a call, which is at least a day, and at least the
\* spacing, after it.
CallsWaitLongest ==
    /\ WaitReview <= PhoneReview /\ MessageReview <= PhoneReview
    /\ ContactSpacing <= PhoneReview /\ TicksPerDay <= PhoneReview

\* A veto puts a record off by at most the longest cadence, unless the payer's
\* allowance is spent or the record's group is suppressed.
LEMMA VetoesPutOffLittle ==
    ASSUME CallsWaitLongest, NEW ctx, IsContext(ctx), ~ctx.suppressed,
           ctx.contactsInWindow < MaxContacts, Adjudicate(ctx).verdict = "VETOED"
    PROVE  NextReview(Adjudicate(ctx).final, ctx.tick, Adjudicate(ctx).defer)
               <= ctx.tick + PhoneReview
  <1>1. Firing(ctx) # {}
    BY DEF Adjudicate
  <1>2. PICK k \in Firing(ctx) : Adjudicate(ctx) = Veto(k, ctx)
    BY <1>1, FirstObjection
  <1>3. k \in 1 .. 7 /\ Objections(ctx)[k].fires
    BY <1>2 DEF Firing, VetoRules
  <1>4. /\ Adjudicate(ctx).final = ctx.original
        /\ Adjudicate(ctx).defer = Objections(ctx)[k].defer
    BY <1>2 DEF Veto
  <1>5. /\ ctx.tick \in Nat /\ PhoneReview \in Nat /\ 4 <= PhoneReview
        /\ ContactSpacing \in Nat /\ ContactSpacing <= PhoneReview
        /\ MessageReview \in Nat /\ MessageReview <= PhoneReview
    BY CadenceAssumption, PolicyAssumption DEF IsContext, CallsWaitLongest, TicksPerDay,
       HoursPerTick
  <1>6. ASSUME IsContact(ctx.original), Objections(ctx)[k].defer = NoTick
        PROVE  NextReview(ctx.original, ctx.tick, NoTick) <= ctx.tick + PhoneReview
    BY <1>5, <1>6 DEF NextReview, ReviewTicks, IsContact, ContactInterventions
  <1>7. IsContact(Judged(ctx)) => IsContact(ctx.original)
    BY LadderDescends
  <1>8. CASE k = 1
    BY <1>3, <1>4, <1>6, <1>8 DEF Objections, NothingOutstanding
  <1>9. CASE k = 2
    BY <1>3, <1>9 DEF Objections, ClusterSuppression
  <1>10. CASE k = 3
    <2>1. Objections(ctx)[k].defer = NextTickAt(ContactHour, ctx.tick)
      BY <1>10 DEF Objections, RbiContactHours
    <2>2. NextTickAt(ContactHour, ctx.tick) \in ctx.tick + 1 .. ctx.tick + 4
      BY <1>5, NextHours
    <2> QED BY <1>4, <1>5, <2>1, <2>2 DEF NextReview, NoTick
  <1>11. CASE k = 4
    <2>1. Objections(ctx)[k].defer = NextTickAt(PromotionalHour, ctx.tick)
      BY <1>11 DEF Objections, TraiPromotionalWindow
    <2>2. NextTickAt(PromotionalHour, ctx.tick) \in ctx.tick + 1 .. ctx.tick + 4
      BY <1>5, NextHours
    <2> QED BY <1>4, <1>5, <2>1, <2>2 DEF NextReview, NoTick
  <1>12. CASE k = 5
    <2>1. Objections(ctx)[k] = TraiMessageCategory(ctx)
      BY <1>12 DEF Objections
    <2>2. Objections(ctx)[k].defer = NoTick /\ CorrectCategory(Judged(ctx)) # NoCategory
      BY <1>3, <2>1 DEF TraiMessageCategory
    <2>3. IsContact(Judged(ctx))
      BY <2>2 DEF CorrectCategory, IsContact, ContactInterventions
    <2> QED BY <1>4, <1>6, <1>7, <2>2, <2>3
  <1>13. CASE k = 6
    <2>1. ctx.contactsInWindow >= MaxContacts
      BY <1>3, <1>13 DEF Objections, PayerContactFrequency
    <2> QED BY <2>1, PolicyAssumption DEF IsContext
  <1>14. CASE k = 7
    <2>1. /\ ctx.contactTicks # {}
          /\ Objections(ctx)[k].defer = Later(ctx.tick + 1, LastContact(ctx) + ContactSpacing)
      BY <1>3, <1>14 DEF Objections, PayerContactSpacing
    <2>2. LastContact(ctx) \in 0 .. ctx.tick
      BY <2>1, HistoryEnds DEF IsContext
    <2> QED BY <1>4, <1>5, <2>1, <2>2 DEF NextReview, NoTick, Later
  <1> QED BY <1>3, <1>8, <1>9, <1>10, <1>11, <1>12, <1>13, <1>14

Chased == {"AT_RISK", "CONTACTED", "PROMISED"}

\* The clock never goes back, and no step returns to the opening.
LEMMA ClockGoesOn ==
    ASSUME IInv, [Next]_vars
    PROVE  /\ tick \in Nat /\ tick' \in {tick, tick + 1}
           /\ phase' = "open" => phase = "open" /\ UNCHANGED <<accounts, engine>>
  <1>1. tick \in Nat
    BY DEF IInv, TypeOK
  <1>2. tick' \in {tick, tick + 1}
    BY DEF Next, OpenRun, LandResponse, DropResponse, StartPromises, StartSpontaneous,
       StartReviews, StartStep, ResolvePromise, PassPromise, SettleSpontaneously, StayQuiet,
       Visit, Review, Advance, WriteOff, CloseRun, Closed, vars
  <1>3. phase' = "open" => phase = "open" /\ UNCHANGED <<accounts, engine>>
    BY DEF Next, OpenRun, LandResponse, DropResponse, StartPromises, StartSpontaneous,
       StartReviews, StartStep, ResolvePromise, PassPromise, SettleSpontaneously, StayQuiet,
       Visit, Review, Advance, WriteOff, CloseRun, Closed, vars
  <1> QED BY <1>1, <1>2, <1>3

\* No contact is ever taken back, so an allowance once spent stays spent.
LEMMA SpentGrows ==
    ASSUME IInv, IInv', [Next]_vars, NEW i \in Invoices
    PROVE  Cardinality(Spent(i)) <= Cardinality(Spent(i))'
  <1>1. Contacts \subseteq Contacts'
    <2>1. ASSUME NEW j \in Invoices
          PROVE  DOMAIN accounts[j].attempts \subseteq DOMAIN accounts'[j].attempts
      <3>1. accounts[j].attempts \in Seq(Nat)
        BY DEF IInv, TypeOK, Accounts
      <3>2. CASE accounts'[j].attempts = accounts[j].attempts
        BY <3>2
      <3>3. CASE accounts'[j].attempts = Append(accounts[j].attempts, tick)
        <4> DEFINE s == accounts[j].attempts
        <4>1. s \in Seq(Nat)
          BY <3>1
        <4> HIDE DEF s
        <4>2. DOMAIN s \subseteq DOMAIN Append(s, tick)
          BY <4>1
        <4> QED BY <3>3, <4>2 DEF s
      <3>4. \/ accounts'[j].attempts = accounts[j].attempts
            \/ accounts'[j].attempts = Append(accounts[j].attempts, tick)
        <4>1. CASE Quiet
          BY <4>1 DEF Quiet
        <4>2. ASSUME NEW k \in Invoices, NEW o \in Outcomes, Booking(k, o)
              PROVE  accounts'[j].attempts = accounts[j].attempts
          BY <4>2, BookingEffect DEF IInv
        <4>3. ASSUME NEW k \in Invoices, Review(k)
              PROVE  \/ accounts'[j].attempts = accounts[j].attempts
                     \/ accounts'[j].attempts = Append(accounts[j].attempts, tick)
          <5>1. k # j => accounts'[j] = accounts[j]
            BY <4>3, ReviewMoves
          <5>2. k = j => \/ accounts'[j].attempts = accounts[j].attempts
                         \/ accounts'[j].attempts = Append(accounts[j].attempts, tick)
            BY <4>3, ReviewAppends
          <5> QED BY <5>1, <5>2
        <4> QED BY <4>1, <4>2, <4>3, StepKinds
      <3> QED BY <3>2, <3>3, <3>4
    <2> QED BY <2>1 DEF Contacts
  <1>2. Spent(i) \subseteq Spent(i)'
    BY <1>1 DEF Spent
  <1>3. IsFiniteSet(Spent(i)')
    <2>1. TypeOK'
      BY DEF IInv
    <2>2. IsFiniteSet(Contacts')
      BY <2>1, ContactsOfABook DEF TypeOK, Contacts
    <2>3. Spent(i)' \subseteq Contacts'
      BY DEF Spent
    <2> QED BY <2>2, <2>3, FS_Subset
  <1> QED BY <1>2, <1>3, FS_Subset

\* PutOffOnlyWhenSpent of one record, and of the book before it is opened.
PutOffWithin(i) ==
    /\ i \notin engine.suppressed /\ accounts[i].state \in Chased
    /\ Cardinality(Spent(i)) < MaxContacts
    => accounts[i].nextReview <= tick + PhoneReview

PutOffInv ==
    /\ \A i \in Invoices : PutOffWithin(i)
    /\ phase = "open" => \A i \in Invoices : accounts[i].nextReview = 0

\* What is put off no further than before stays within the bound.
LEMMA NotPutOffFurther ==
    ASSUME IInv, IInv', [Next]_vars, NEW i \in Invoices, PutOffWithin(i),
           accounts'[i].nextReview = accounts[i].nextReview,
           accounts'[i].state \in Chased => accounts[i].state \in Chased,
           engine'.suppressed = engine.suppressed
    PROVE  PutOffWithin(i)'
  <1>1. tick \in Nat /\ tick' \in {tick, tick + 1}
    BY ClockGoesOn
  <1>2. Cardinality(Spent(i)) <= Cardinality(Spent(i))'
    BY SpentGrows
  <1>3. Cardinality(Spent(i)) \in Nat /\ Cardinality(Spent(i))' \in Nat
    <2>1. TypeOK /\ TypeOK'
      BY DEF IInv
    <2>2. IsFiniteSet(Contacts')
      BY <2>1, ContactsOfABook DEF TypeOK, Contacts
    <2>3. Spent(i)' \subseteq Contacts'
      BY DEF Spent
    <2> QED BY <2>1, <2>2, <2>3, SpentCounts, FS_Subset, FS_CardinalityType
  <1>4. accounts[i].nextReview \in Nat /\ PhoneReview \in Nat /\ MaxContacts \in Nat
    BY CadenceAssumption, PolicyAssumption DEF IInv, TypeOK, Accounts
  <1> QED BY <1>1, <1>2, <1>3, <1>4 DEF PutOffWithin

\* A review puts its record off by a cadence or by what the veto says.
LEMMA ReviewPutsOffLittle ==
    ASSUME CallsWaitLongest, IInv, IInv', [Next]_vars, NEW i \in Invoices, Review(i)
    PROVE  PutOffWithin(i)'
  <1>1. PICK proposal \in Proposals(i) :
            \/ ReviewVetoed(i, Decision(i, proposal))
            \/ ReviewExecuted(i, Decision(i, proposal))
    BY DEF Review
  <1> DEFINE ctx == Context(i, proposal)
             v == Decision(i, proposal)
  <1>2. HasPolicy
    BY OfflineAssumption DEF HasPolicy
  <1>3. v = Adjudicate(ctx)
    BY <1>2 DEF Decision
  <1>4. v.final \in Interventions /\ v.defer \in Nat \cup {NoTick}
    BY DecisionsAreLawful DEF IInv
  <1>5. /\ TypeOK /\ Past /\ tick \in Nat /\ accounts[i] \in Accounts
        /\ accounts \in [Invoices -> Accounts]
        /\ engine.suppressed \in SUBSET Invoices
    BY DEF IInv, TypeOK
  <1>6. /\ accounts[i].state \in Chased \cup {"DISPUTED"} /\ tick' = tick
        /\ accounts[i].state = "DISPUTED" => accounts'[i].state \notin Chased
    BY ReviewMoves DEF Chased
  <1>7. engine'.suppressed = engine.suppressed
    BY <1>1, <1>5 DEF ReviewVetoed, ReviewExecuted, EngineAfter, IInv, TypeOK
  <1>8. SUFFICES ASSUME i \notin engine.suppressed, accounts'[i].state \in Chased,
                        Cardinality(Spent(i))' < MaxContacts
                 PROVE  accounts'[i].nextReview <= tick + PhoneReview
    BY <1>6, <1>7 DEF PutOffWithin
  <1>9. PhoneReview \in Nat /\ WaitReview <= PhoneReview /\ MessageReview <= PhoneReview
        /\ WaitReview \in Nat /\ MessageReview \in Nat
    BY CadenceAssumption DEF CallsWaitLongest
  <1>10. CASE ReviewVetoed(i, v)
    <2>1. accounts'[i] = RecordVeto(accounts[i], v.final, tick, v.defer)
      <3> HIDE DEF v
      <3> QED BY <1>5, <1>10 DEF ReviewVetoed
    <2>2. accounts'[i].nextReview = NextReview(v.final, tick, v.defer)
      <3> HIDE DEF v
      <3> QED BY <2>1, <1>4, <1>5, VetoType
    <2>3. v.verdict = "VETOED"
      <3> HIDE DEF v
      <3> QED BY <1>10 DEF ReviewVetoed
    <2>4. IsContext(ctx)
      BY <1>5, ReviewsHaveContexts
    <2>5. /\ ctx.tick = tick /\ ~ctx.suppressed
          /\ ctx.contactsInWindow = PayerContactsSince(accounts, PayerInvoices(i), Floor(tick))
      BY <1>8 DEF Context
    <2>6. ctx.contactsInWindow < MaxContacts
      <3>1. ctx.contactsInWindow <= Cardinality(Spent(i)) /\ Cardinality(Spent(i)) \in Nat
            /\ ctx.contactsInWindow \in Nat
        BY <1>5, <2>5, SpentCounts
      <3>2. Cardinality(Spent(i)) <= Cardinality(Spent(i))'
        BY SpentGrows
      <3>3. Cardinality(Spent(i))' \in Nat
        <4>1. IsFiniteSet(Contacts')
          BY ContactsOfABook DEF IInv, TypeOK, Contacts
        <4>2. Spent(i)' \subseteq Contacts'
          BY DEF Spent
        <4> QED BY <4>1, <4>2, FS_Subset, FS_CardinalityType
      <3> HIDE DEF ctx
      <3> QED BY <1>8, <3>1, <3>2, <3>3, PolicyAssumption
    <2> HIDE DEF ctx, v
    <2> QED BY <1>3, <2>2, <2>3, <2>4, <2>5, <2>6, VetoesPutOffLittle
  <1>11. CASE ReviewExecuted(i, v)
    <2> HIDE DEF v
    <2>1. accounts'[i] = RecordAction(accounts[i], v.final, tick)
      BY <1>5, <1>11 DEF ReviewExecuted
    <2>2. /\ accounts'[i].nextReview = tick + ReviewTicks(v.final)
          /\ accounts'[i].state = StateAfterAction(accounts[i].state, v.final)
      BY <1>4, <1>5, <2>1, ActionType
    <2>3. v.final \notin {"ESCALATE_HUMAN", "STOP"}
      <3>1. accounts[i].state \in Chased
        BY <1>6, <1>8
      <3>2. \A s \in Chased : /\ StateAfterAction(s, "ESCALATE_HUMAN") = "HUMAN_QUEUE"
                              /\ StateAfterAction(s, "STOP") = "EXHAUSTED"
        BY DEF Chased, StateAfterAction, Legal, AllowedTransitions, RecordStates, IsTerminal,
           TerminalStates, IsContact, ContactInterventions
      <3>3. "HUMAN_QUEUE" \notin Chased /\ "EXHAUSTED" \notin Chased
        BY DEF Chased
      <3>4. StateAfterAction(accounts[i].state, v.final) \in Chased
        BY <1>8, <2>2
      <3> QED BY <3>1, <3>2, <3>3, <3>4
    <2>4. ReviewTicks(v.final) \in Nat /\ ReviewTicks(v.final) <= PhoneReview
      BY <1>4, <1>9, <2>3 DEF ReviewTicks, Interventions
    <2> QED BY <1>5, <1>9, <2>2, <2>4
  <1> QED BY <1>1, <1>10, <1>11

\* A record an outcome leaves in the chase was in it, and keeps its review.
LEMMA BookingKeepsReviews ==
    ASSUME IInv, NEW j \in Invoices, NEW o \in Outcomes, Booking(j, o), NEW i \in Invoices
    PROVE  /\ accounts'[i].nextReview = accounts[i].nextReview
           /\ accounts'[i].state \in Chased => accounts[i].state \in Chased
  <1>1. TypeOK
    BY DEF IInv
  <1>2. CASE i # j
    <2>1. accounts'[i] = accounts[i]
      BY <1>1, <1>2, BookingEffect
    <2> QED BY <2>1
  <1>3. CASE i = j
    <2>1. accounts'[j].nextReview = accounts[j].nextReview
      <3>1. Apply(j, o) /\ (o.kind = "PROMISED" => o.phrase \in PhrasesOf[j] /\ tick < Horizon)
        BY DEF Booking
      <3> QED BY <1>1, <3>1, ApplyEffect
    <2>2. /\ accounts[j].state \in RecordStates
          /\ o.kind = "PROMISED" =>
                \/ accounts'[j].state = accounts[j].state
                \/ accounts'[j].state = "PROMISED" /\ "PROMISED" \in AllowedTransitions[accounts[j].state]
          /\ o.kind # "PROMISED" =>
                accounts'[j].state = StateAfterOutcome(accounts[j].state, o.kind)
      BY <1>1, BookingEffect DEF Accounts
    <2>3. \A s \in RecordStates :
            /\ "PROMISED" \in AllowedTransitions[s] => s \in Chased
            /\ \A k \in OutcomeKinds : k # "PROMISED" /\ StateAfterOutcome(s, k) \in Chased =>
                                           s \in Chased
      BY DEF Chased, StateAfterOutcome, Legal, AllowedTransitions, RecordStates, IsTerminal,
         TerminalStates, OutcomeKinds
    <2>4. o.kind \in OutcomeKinds
      BY DEF Outcomes
    <2> QED BY <1>3, <2>1, <2>2, <2>3, <2>4
  <1> QED BY <1>2, <1>3

\* The bound is kept by every step.
LEMMA StepPutsOffLittle ==
    ASSUME CallsWaitLongest, IInv, PutOffInv, [Next]_vars
    PROVE  PutOffInv'
  <1>1. IInv'
    BY StepIInv
  <1>2. phase' = "open" => phase = "open" /\ accounts' = accounts
    BY ClockGoesOn
  <1>3. (phase = "open" => \A i \in Invoices : accounts[i].nextReview = 0)'
    BY <1>2 DEF PutOffInv
  <1>4. ASSUME NEW i \in Invoices PROVE PutOffWithin(i)'
    <2>1. PutOffWithin(i)
      BY DEF PutOffInv
    <2>2. CASE OpenRun
      <3>1. tick' = tick /\ accounts' = accounts /\ accounts[i].nextReview = 0
        BY <2>2 DEF OpenRun, PutOffInv
      <3>2. tick \in Nat /\ PhoneReview \in Nat
        BY CadenceAssumption DEF IInv, TypeOK
      <3> QED BY <3>1, <3>2 DEF PutOffWithin
    <2>3. CASE Quiet /\ ~OpenRun
      <3>1. engine' = engine /\ accounts' = accounts
        BY <2>3 DEF Quiet
      <3> QED BY <1>1, <2>1, <3>1, NotPutOffFurther
    <2>4. ASSUME NEW j \in Invoices, NEW o \in Outcomes, Booking(j, o)
          PROVE  PutOffWithin(i)'
      <3>1. engine' = engine
        BY <2>4 DEF Booking
      <3> QED BY <1>1, <2>1, <2>4, <3>1, BookingKeepsReviews, NotPutOffFurther
    <2>5. ASSUME NEW j \in Invoices, Review(j)
          PROVE  PutOffWithin(i)'
      <3>1. CASE i = j
        BY <1>1, <2>5, <3>1, ReviewPutsOffLittle
      <3>2. CASE i # j
        <4>1. accounts'[i] = accounts[i]
          BY <2>5, <3>2, ReviewMoves
        <4>2. engine'.suppressed = engine.suppressed
          <5>1. engine' = engine
                \/ \E v : engine' = EngineAfter(engine, v, j \in engine.suppressed)
            BY <2>5 DEF Review, ReviewVetoed, ReviewExecuted
          <5> QED BY <5>1 DEF EngineAfter, IInv, TypeOK
        <4> QED BY <1>1, <2>1, <4>1, <4>2, NotPutOffFurther
      <3> QED BY <3>1, <3>2
    <2> QED BY <2>2, <2>3, <2>4, <2>5, StepKinds
  <1> QED BY <1>3, <1>4 DEF PutOffInv

\* A record in the chase is never put off by more than a call's cadence while
\* its payer has had fewer contacts than the allowance, unless its group is
\* suppressed: for every agent that proposes anything at all, with any merchant
\* policy and cadences of which a call's is the longest.
THEOREM PutOffAlwaysOnlyWhenSpent ==
    ASSUME CallsWaitLongest
    PROVE  Spec => []PutOffOnlyWhenSpent
  <1>1. Init => PutOffInv
    <2> SUFFICES ASSUME Init PROVE PutOffInv
      OBVIOUS
    <2>1. \A i \in Invoices : accounts[i].nextReview = 0
      BY DEF Init, OpeningAccount
    <2>2. tick = 0 /\ PhoneReview \in Nat
      BY CadenceAssumption DEF Init
    <2> QED BY <2>1, <2>2 DEF PutOffInv, PutOffWithin
  <1>2. IInv /\ PutOffInv /\ [Next]_vars => PutOffInv'
    BY StepPutsOffLittle
  <1>3. PutOffInv => PutOffOnlyWhenSpent
    BY DEF PutOffInv, PutOffWithin, PutOffOnlyWhenSpent, Spent, Chased
  <1> QED BY <1>1, <1>2, <1>3, RunInvariant, PTL DEF Spec

-----------------------------------------------------------------------------
(* Why neither arm gives a record up.                                       *)

\* The allowance ends before either arm's ladder does: the window spans the
\* run, the chaser is allowed one contact more than the payer will take, and
\* no rung within the allowance is STOP.  The source's own constants, four
\* contacts in 120 ticks against MAX_ATTEMPTS of 5 and 6, are such.
EndsMidLadder ==
    /\ ContactWindow >= Horizon
    /\ MaxAttempts \in Nat /\ MaxContacts < MaxAttempts
    /\ \A made \in 0 .. MaxContacts : Rung(made) # "STOP"

\* Four contacts against a ladder of six end mid-ladder.
LEMMA SourceEndsMidLadder ==
    ASSUME MaxContacts = 4, LadderAttempts = 6, MaxAttempts = 5, ContactWindow >= Horizon
    PROVE  EndsMidLadder
  BY DEF EndsMidLadder, Rung

\* No record has had more contacts than its payer's allowance.
LEMMA ContactsWithinAllowance ==
    ASSUME IInv, FrequencyHeld, ContactWindow >= Horizon, NEW i \in Invoices
    PROVE  Len(accounts[i].attempts) \in 0 .. MaxContacts
  <1> DEFINE s == accounts[i].attempts
             n == Len(s)
             ticks == {s[k] : k \in DOMAIN s}
             window(c) == {d \in Contacts :
                /\ Payer[d[1]] = Payer[c[1]]
                /\ ContactTick(d) \in ContactTick(c) - ContactWindow .. ContactTick(c)}
  <1>1. /\ s \in Seq(Nat) /\ n \in Nat /\ tick \in Nat /\ tick <= Horizon
        /\ \A k \in DOMAIN s : s[k] \in Nat /\ s[k] <= tick
        /\ ContactWindow \in Nat /\ MaxContacts \in Nat /\ Horizon \in Nat
        /\ DOMAIN s = 1 .. n
    BY RunnerAssumption, PolicyAssumption DEF IInv, TypeOK, Accounts, Past
  <1>2. HasPolicy
    BY OfflineAssumption DEF HasPolicy
  <1>3. CASE n = 0
    BY <1>1, <1>3
  <1>4. CASE n > 0
    <2>1. ticks \in SUBSET (0 .. tick) /\ ticks # {}
      <3>1. 1 \in DOMAIN s
        BY <1>1, <1>4
      <3> HIDE DEF s
      <3> QED BY <1>1, <3>1
    <2>2. PICK m \in ticks : \A t \in ticks : t <= m
      <3> HIDE DEF ticks
      <3> QED BY <1>1, <2>1, GreatestTick
    <2>3. PICK last \in DOMAIN s : m = s[last]
      BY <2>2
    <2> DEFINE c == <<i, last>>
    <2>4. c \in Contacts /\ ContactTick(c) = s[last]
      BY <2>3 DEF Contacts, ContactTick
    <2>5. ASSUME NEW k \in DOMAIN s PROVE <<i, k>> \in window(c)
      <3>1. <<i, k>> \in Contacts /\ ContactTick(<<i, k>>) = s[k]
        BY DEF Contacts, ContactTick
      <3>2. s[k] <= s[last] /\ s[k] \in Nat /\ s[last] \in Nat /\ s[last] <= tick
        BY <1>1, <2>2, <2>3
      <3> HIDE DEF s
      <3>3. s[k] \in s[last] - ContactWindow .. s[last]
        BY <1>1, <3>2
      <3> QED BY <2>4, <3>1, <3>3
    <2>6. IsFiniteSet(window(c))
      <3>1. IsFiniteSet(Contacts)
        BY ContactsOfABook DEF IInv, TypeOK, Contacts
      <3>2. window(c) \subseteq Contacts
        OBVIOUS
      <3> HIDE DEF window
      <3> QED BY <3>1, <3>2, FS_Subset
    <2>7. Cardinality(window(c)) <= MaxContacts
      BY <1>2, <2>4 DEF FrequencyHeld
    <2>8. n <= Cardinality(window(c))
      <3> DEFINE f == [k \in 1 .. n |-> <<i, k>>]
      <3> HIDE DEF window, s, n, c
      <3>1. f \in Injection(1 .. n, window(c))
        <4>1. \A k \in 1 .. n : <<i, k>> \in window(c)
          BY <1>1, <2>5
        <4>2. \A j, k \in 1 .. n : f[j] = f[k] => j = k
          OBVIOUS
        <4>3. f \in [1 .. n -> window(c)]
          BY <4>1
        <4> QED BY <4>2, <4>3 DEF Injection, IsInjective
      <3>2. Cardinality(1 .. n) = n
        <4>1. 1 \in Int /\ n \in Int /\ ~(1 > n) /\ n - 1 + 1 = n
          BY <1>1, <1>4
        <4> QED BY <4>1, FS_Interval
      <3> HIDE DEF f
      <3>3. Cardinality(1 .. n) <= Cardinality(window(c))
        BY <2>6, <3>1, FS_Injection
      <3> QED BY <3>2, <3>3
    <2>9. Cardinality(window(c)) \in Nat
      BY <2>6, FS_CardinalityType
    <2> HIDE DEF window, s, n, c
    <2> QED BY <1>1, <2>7, <2>8, <2>9 DEF s, n
  <1> QED BY <1>1, <1>3, <1>4

\* So neither arm proposes STOP.
LEMMA NeitherArmStops ==
    ASSUME EndsMidLadder, IInv, FrequencyHeld, NEW i \in Invoices
    PROVE  FixedProposal(i).intervention # "STOP"
  <1> DEFINE made == Len(accounts[i].attempts)
  <1>1. made \in 0 .. MaxContacts
    BY ContactsWithinAllowance DEF EndsMidLadder
  <1> HIDE DEF made
  <1>2. FallbackChoice(i) # "STOP"
    BY <1>1 DEF EndsMidLadder, FallbackChoice, made
  <1>3. NaiveChoice(accounts[i]) # "STOP"
    BY <1>1, PolicyAssumption DEF EndsMidLadder, NaiveChoice, made
  <1> QED BY <1>2, <1>3 DEF FixedProposal, FallbackProposal

\* No rule of the ladder turns anything into a STOP.
LEMMA NoRuleStops ==
    ASSUME NEW ctx, IsContext(ctx), ctx.original # "STOP"
    PROVE  Reduced(ctx) # "STOP"
  BY DEF Reduced, AfterHighValue, AfterLinkBudget, AfterLinkCap, Judged, AfterCluster,
         AfterDispute

\* A review of either arm exhausts nothing.
LEMMA ReviewsGiveNothingUp ==
    ASSUME EndsMidLadder, IInv, FrequencyHeld, NEW i \in Invoices, OfflineReview(i)
    PROVE  accounts'[i].state # "EXHAUSTED"
  <1> DEFINE proposal == FixedProposal(i)
             ctx == Context(i, proposal)
             v == Decision(i, proposal)
  <1>1. ReviewVetoed(i, v) \/ ReviewExecuted(i, v)
    BY DEF OfflineReview
  <1>2. proposal \in Proposals(i) /\ proposal.intervention # "STOP"
    BY FixedProposalsAreProposals, NeitherArmStops
  <1>3. Review(i)
    BY <1>2 DEF OfflineReview, Review
  <1>4. /\ TypeOK /\ Past /\ accounts \in [Invoices -> Accounts] /\ accounts[i] \in Accounts
        /\ tick \in Nat
    BY DEF IInv, TypeOK
  <1>5. accounts[i].state \in {"AT_RISK", "CONTACTED", "PROMISED", "DISPUTED"}
    BY <1>3, ReviewMoves
  <1>6. v = Adjudicate(ctx)
    BY OfflineAssumption DEF Decision, HasPolicy
  <1>7. v.final \in Interventions /\ v.defer \in Nat \cup {NoTick}
    BY <1>2, <1>4, DecisionsAreLawful
  <1>8. IsContext(ctx) /\ ctx.original = proposal.intervention
    BY <1>2, <1>4, ReviewsHaveContexts DEF Context
  <1> HIDE DEF v, ctx, proposal
  <1>9. CASE ReviewVetoed(i, v)
    <2>1. accounts'[i] = RecordVeto(accounts[i], v.final, tick, v.defer)
      BY <1>4, <1>9 DEF ReviewVetoed
    <2>2. accounts'[i].state = accounts[i].state
      BY <1>4, <2>1 DEF RecordVeto, Accounts
    <2> QED BY <1>5, <2>2
  <1>10. CASE ReviewExecuted(i, v)
    <2>1. v.final # "STOP"
      BY <1>2, <1>6, <1>8, <1>10, VerdictIsSound, NoRuleStops DEF ReviewExecuted
    <2>2. accounts'[i].state = StateAfterAction(accounts[i].state, v.final)
      BY <1>4, <1>7, <1>10, ActionType DEF ReviewExecuted
    <2> QED BY <1>5, <1>7, <2>1, <2>2 DEF StateAfterAction, Legal, AllowedTransitions,
               RecordStates, IsTerminal, TerminalStates, IsContact, ContactInterventions,
               Interventions
  <1> QED BY <1>1, <1>9, <1>10

\* Each step of either arm is a step of the runner, and its reviews are the
\* arm's own.
LEMMA OfflineStepKinds ==
    ASSUME IInv, [OfflineNext]_offlineVars
    PROVE  /\ [Next]_vars
           /\ \/ Quiet
              \/ \E i \in Invoices, o \in Outcomes : Booking(i, o)
              \/ \E i \in Invoices : OfflineReview(i)
  <1>1. [Next]_vars
    BY OfflineStepRuns
  <1>2. CASE \E i \in Invoices : OfflineReview(i)
    BY <1>1, <1>2
  <1>3. CASE ~ \E i \in Invoices : OfflineReview(i)
    <2>1. CASE \E i \in Invoices : Review(i)
      <3>1. PICK j \in Invoices : Review(j)
        BY <2>1
      <3>2. phase = "decide" /\ j \in todo /\ todo' = todo \ {j}
        BY <3>1 DEF Review, Visit
      <3>3. todo' # todo
        BY <3>2
      <3>4. todo # {}
        BY <3>2
      <3>5. FALSE
        BY <1>3, <3>2, <3>3, <3>4 DEF OfflineNext, offlineVars, vars, OpenOfflineRun,
           LandResponse, DropResponse, StartPromises, StartSpontaneous, StartReviews, StartStep,
           ResolvePromise, PassPromise, SettleSpontaneously, StayQuiet, Advance, WriteOff,
           CloseRun, Closed
      <3> QED BY <3>5
    <2> QED BY <1>1, <2>1, StepKinds
  <1> QED BY <1>2, <1>3

\* No record is given up or written off by either arm in a run the ladder
\* outlasts, whatever the payers answer: the STOP of both ladders is never
\* reached, as docs/BUILD-LOG.md found of the measured runs.
THEOREM NothingIsGivenUp ==
    ASSUME EndsMidLadder
    PROVE  OfflineSpec => []NothingGivenUp
  <1>1. OfflineInit => NothingGivenUp
    BY DEF OfflineInit, Init, OpeningAccount, NothingGivenUp
  <1>2. ASSUME IInv, FrequencyHeld, NothingGivenUp, [OfflineNext]_offlineVars
        PROVE  NothingGivenUp'
    <2>1. [Next]_vars
      BY <1>2, OfflineStepKinds
    <2>2. \A i \in Invoices : accounts'[i].state # "WRITTEN_OFF"
      BY <1>2, <2>1, StepKeepsLosses DEF NothingGivenUp, LossesKept
    <2>3. \A i \in Invoices : accounts'[i].state # "EXHAUSTED"
      <3>1. CASE Quiet
        BY <1>2, <3>1 DEF Quiet, NothingGivenUp
      <3>2. ASSUME NEW j \in Invoices, NEW o \in Outcomes, Booking(j, o), NEW i \in Invoices
            PROVE  accounts'[i].state # "EXHAUSTED"
        <4>1. i # j => accounts'[i] = accounts[i]
          BY <1>2, <3>2, BookingEffect DEF IInv
        <4>2. accounts'[j].state = "EXHAUSTED" => accounts[j].state = "EXHAUSTED"
          BY <1>2, <3>2, OutcomeStates DEF Booking, IInv
        <4> QED BY <1>2, <4>1, <4>2 DEF NothingGivenUp
      <3>3. ASSUME NEW j \in Invoices, OfflineReview(j), NEW i \in Invoices
            PROVE  accounts'[i].state # "EXHAUSTED"
        <4>1. accounts'[j].state # "EXHAUSTED"
          BY <1>2, <3>3, ReviewsGiveNothingUp
        <4>2. Review(j)
          BY <3>3, FixedProposalsAreProposals DEF OfflineReview, Review
        <4>3. i # j => accounts'[i] = accounts[i]
          BY <1>2, <4>2, ReviewMoves
        <4> QED BY <1>2, <4>1, <4>3 DEF NothingGivenUp
      <3> QED BY <1>2, <3>1, <3>2, <3>3, OfflineStepKinds
    <2> QED BY <2>2, <2>3 DEF NothingGivenUp
  <1>3. OfflineSpec => []IInv /\ []FrequencyHeld
    BY OfflineImplementsRunner, RunInvariant, FrequencyAlwaysHeld
  <1> QED BY <1>1, <1>2, <1>3, PTL DEF OfflineSpec
=============================================================================
