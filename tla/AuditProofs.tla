----------------------------- MODULE AuditProofs -----------------------------
(***************************************************************************)
(* What the audit log is enough for, for every book, every arm and every    *)
(* horizon: replaying its rows rebuilds the ledger, and the scorecard that  *)
(* is counted from them is the one the ledger and the engine would give.    *)
(*                                                                         *)
(* Rebuilds is inductive as it stands: each action either leaves the ledger *)
(* and writes no row, or applies one ledger operation and writes a row from *)
(* which replay picks the same operation with the same arguments.  The      *)
(* scorecard needs the run's own invariant, because a record is escalated   *)
(* or stopped once only when reviews stay away from it afterwards.          *)
(***************************************************************************)
EXTENDS ScoredRunner, RunnerProofs

\* Storing the review tick record_action has already computed changes
\* nothing: an executed row carries no deferral.
LEMMA ExecutedRowRepeats ==
    ASSUME NEW a, NEW i, NEW t
    PROVE  [RecordAction(a, i, t) EXCEPT !.nextReview = NextReview(i, t, NoTick)]
               = RecordAction(a, i, t)
  <1> DEFINE moved == [Transition(a, StateAfterAction(a.state, i), t) EXCEPT
                          !.attempts = IF IsContact(i) THEN Append(@, t) ELSE @,
                          !.links = @ + ApiUnits(i)]
             e == NextReview(i, t, NoTick)
  <1>1. RecordAction(a, i, t) = [moved EXCEPT !.nextReview = e]
    BY DEF RecordAction
  <1> HIDE DEF moved, e
  <1>2. [[moved EXCEPT !.nextReview = e] EXCEPT !.nextReview = e]
            = [moved EXCEPT !.nextReview = e]
    OBVIOUS
  <1> QED BY <1>1, <1>2 DEF e

\* A row that is not a decision or an outcome changes no book.
LEMMA QuietRow ==
    ASSUME NEW book
    PROVE  ReplayRow(Amount, book, NoRow) = book
  BY DEF ReplayRow, NoRow

\* Replay repeats every outcome the runner applies.
LEMMA ReplayRepeatsOutcomes ==
    ASSUME NEW i, NEW o, Apply(i, o)
    PROVE  ReplayRow(Amount, accounts, row') = accounts'
  <1>1. row'.kind = "OUTCOME" /\ row'.record = i /\ row'.outcome = o /\ row'.tick = tick
    BY DEF Apply, OutcomeRow
  <1>2. ReplayRow(Amount, accounts, row')
            = [accounts EXCEPT ![i] = ReplayOutcome(Amount[i], @, row')]
    BY <1>1 DEF ReplayRow
  <1>3. ReplayOutcome(Amount[i], accounts[i], row')
            = ApplyOutcome(Amount[i], accounts[i], o, tick)
    BY <1>1 DEF ReplayOutcome
  <1> QED BY <1>2, <1>3 DEF Apply

\* Replay repeats every vetoed review.
LEMMA ReplayRepeatsVetoes ==
    ASSUME NEW i, NEW v, ReviewVetoed(i, v)
    PROVE  ReplayRow(Amount, accounts, row') = accounts'
  <1>1. /\ row'.kind = "DECISION" /\ row'.record = i /\ row'.tick = tick
        /\ row'.intervention = v.final /\ row'.executed = FALSE /\ row'.defer = v.defer
    BY DEF ReviewVetoed, DecisionRow
  <1>2. ReplayRow(Amount, accounts, row')
            = [accounts EXCEPT ![i] = ReplayDecision(@, row')]
    BY <1>1 DEF ReplayRow
  <1>3. ReplayDecision(accounts[i], row') = RecordVeto(accounts[i], v.final, tick, v.defer)
    BY <1>1 DEF ReplayDecision
  <1> QED BY <1>2, <1>3 DEF ReviewVetoed

\* Replay repeats every executed review.
LEMMA ReplayRepeatsActions ==
    ASSUME NEW i, NEW v, ReviewExecuted(i, v)
    PROVE  ReplayRow(Amount, accounts, row') = accounts'
  <1>1. /\ row'.kind = "DECISION" /\ row'.record = i /\ row'.tick = tick
        /\ row'.intervention = v.final /\ row'.executed = TRUE /\ row'.defer = NoTick
    BY DEF ReviewExecuted, DecisionRow
  <1>2. ReplayRow(Amount, accounts, row')
            = [accounts EXCEPT ![i] = ReplayDecision(@, row')]
    BY <1>1 DEF ReplayRow
  <1>3. ReplayDecision(accounts[i], row') = RecordAction(accounts[i], v.final, tick)
    BY <1>1, ExecutedRowRepeats DEF ReplayDecision
  <1> QED BY <1>2, <1>3 DEF ReviewExecuted

\* Every step of the runner is repeated by the row it writes.
LEMMA StepsAreReplayed ==
    ASSUME Next, row = NoRow \/ phase # "closed"
    PROVE  ReplayRow(Amount, accounts, row') = accounts'
  <1>1. CASE OpenRun
    BY <1>1, QuietRow DEF OpenRun
  <1>2. ASSUME NEW p \in pending, LandResponse(p)
        PROVE  ReplayRow(Amount, accounts, row') = accounts'
    BY <1>2, ReplayRepeatsOutcomes DEF LandResponse
  <1>3. ASSUME NEW p \in pending, DropResponse(p)
        PROVE  ReplayRow(Amount, accounts, row') = accounts'
    BY <1>3, QuietRow DEF DropResponse
  <1>4. CASE StartPromises \/ StartSpontaneous \/ StartReviews \/ CloseRun
    BY <1>4, QuietRow DEF StartPromises, StartSpontaneous, StartReviews, CloseRun, StartStep
  <1>5. ASSUME NEW i \in Invoices, ResolvePromise(i)
        PROVE  ReplayRow(Amount, accounts, row') = accounts'
    BY <1>5, ReplayRepeatsOutcomes DEF ResolvePromise
  <1>6. ASSUME NEW i \in Invoices, PassPromise(i) \/ StayQuiet(i)
        PROVE  ReplayRow(Amount, accounts, row') = accounts'
    BY <1>6, QuietRow DEF PassPromise, StayQuiet
  <1>7. ASSUME NEW i \in Invoices, SettleSpontaneously(i)
        PROVE  ReplayRow(Amount, accounts, row') = accounts'
    BY <1>7, ReplayRepeatsOutcomes DEF SettleSpontaneously
  <1>8. ASSUME NEW i \in Invoices, Review(i)
        PROVE  ReplayRow(Amount, accounts, row') = accounts'
    <2>1. PICK proposal \in Proposals(i) :
              \/ ReviewVetoed(i, Decision(i, proposal))
              \/ ReviewExecuted(i, Decision(i, proposal))
      BY <1>8 DEF Review
    <2> QED BY <2>1, ReplayRepeatsVetoes, ReplayRepeatsActions
  <1>9. CASE Advance
    BY <1>9, QuietRow DEF Advance
  <1>10. ASSUME NEW i \in Invoices, WriteOff(i)
         PROVE  ReplayRow(Amount, accounts, row') = accounts'
    BY <1>10, ReplayRepeatsOutcomes DEF WriteOff
  <1>11. CASE Closed
    <2>1. row' = NoRow /\ accounts' = accounts
      BY <1>11 DEF Closed, vars
    <2> QED BY <2>1, QuietRow
  <1> QED
    BY <1>1, <1>2, <1>3, <1>4, <1>5, <1>6, <1>7, <1>8, <1>9, <1>10, <1>11 DEF Next

\* The invariant: the rows rebuild the ledger, and a closed run has written
\* its last row (Closed repeats the last row, so there must be none).
Rebuilds == RowsRebuildTheLedger /\ (phase = "closed" => row = NoRow)

\* A closed run is reached by a step that writes no row.
LEMMA ClosingIsQuiet ==
    ASSUME Next, phase = "closed" => row = NoRow
    PROVE  (phase = "closed" => row = NoRow)'
  <1>1. ASSUME NEW i \in Invoices, Visit(i) PROVE phase' = phase
    BY <1>1 DEF Visit
  <1>2. CASE OpenRun \/ StartPromises \/ StartSpontaneous \/ StartReviews \/ Advance
    BY <1>2 DEF OpenRun, StartPromises, StartSpontaneous, StartReviews, StartStep, Advance
  <1>3. ASSUME NEW p \in pending, LandResponse(p) \/ DropResponse(p)
        PROVE  phase' # "closed"
    BY <1>3 DEF LandResponse, DropResponse
  <1>4. ASSUME NEW i \in Invoices,
               \/ ResolvePromise(i) \/ PassPromise(i) \/ SettleSpontaneously(i)
               \/ StayQuiet(i) \/ Review(i) \/ WriteOff(i)
        PROVE  phase' # "closed"
    BY <1>1, <1>4 DEF ResolvePromise, PassPromise, SettleSpontaneously, StayQuiet, Review,
                      WriteOff
  <1>5. CASE CloseRun
    BY <1>5 DEF CloseRun, StartStep
  <1>6. CASE Closed
    BY <1>6 DEF Closed, vars
  <1> QED BY <1>2, <1>3, <1>4, <1>5, <1>6 DEF Next

\* Replaying the rows written so far gives the ledger at every step of every
\* run, of every arm, over every book.
THEOREM LogIsSufficient == AuditSpec => []RowsRebuildTheLedger
  <1>1. AuditInit => Rebuilds
    BY DEF AuditInit, Init, Rebuilds, RowsRebuildTheLedger, OpeningBook
  <1>2. ASSUME Rebuilds, [AuditNext]_auditVars
        PROVE  Rebuilds'
    <2>1. CASE AuditNext
      <3>1. Next /\ replayed' = ReplayRow(Amount, accounts, row')
        BY <1>2, <2>1 DEF AuditNext, Rebuilds, RowsRebuildTheLedger
      <3>2. replayed' = accounts'
        BY <1>2, <3>1, StepsAreReplayed DEF Rebuilds
      <3>3. (phase = "closed" => row = NoRow)'
        BY <1>2, <3>1, ClosingIsQuiet DEF Rebuilds
      <3> QED BY <3>2, <3>3 DEF Rebuilds, RowsRebuildTheLedger
    <2>2. CASE UNCHANGED auditVars
      BY <1>2, <2>2 DEF auditVars, vars, Rebuilds, RowsRebuildTheLedger
    <2> QED BY <1>2, <2>1, <2>2
  <1>3. Rebuilds => RowsRebuildTheLedger
    BY DEF Rebuilds
  <1> QED BY <1>1, <1>2, <1>3, PTL DEF AuditSpec

-----------------------------------------------------------------------------
(* The scorecard.                                                           *)

\* Only a review writes a decision, so no other row is scored.
LEMMA OnlyReviewsAreScored ==
    ASSUME Next, row = NoRow \/ phase # "closed", ~ \E i \in Invoices : Review(i)
    PROVE  ScoreRow(score, row') = score
  <1>1. ASSUME NEW i, NEW o, Apply(i, o) PROVE row'.kind # "DECISION"
    BY <1>1 DEF Apply, OutcomeRow
  <1>2. ASSUME row' = NoRow PROVE row'.kind # "DECISION"
    BY <1>2 DEF NoRow
  <1>3. ASSUME NEW p \in pending, LandResponse(p) \/ DropResponse(p)
        PROVE  row'.kind # "DECISION"
    BY <1>1, <1>2, <1>3 DEF LandResponse, DropResponse
  <1>4. ASSUME NEW i \in Invoices,
               \/ ResolvePromise(i) \/ PassPromise(i) \/ SettleSpontaneously(i)
               \/ StayQuiet(i) \/ WriteOff(i)
        PROVE  row'.kind # "DECISION"
    BY <1>1, <1>2, <1>4 DEF ResolvePromise, PassPromise, SettleSpontaneously, StayQuiet,
                            WriteOff
  <1>5. ASSUME \/ OpenRun \/ StartPromises \/ StartSpontaneous \/ StartReviews
               \/ Advance \/ CloseRun
        PROVE  row'.kind # "DECISION"
    BY <1>2, <1>5 DEF OpenRun, StartPromises, StartSpontaneous, StartReviews, StartStep,
                      Advance, CloseRun
  <1>6. ASSUME Closed PROVE row'.kind # "DECISION"
    BY <1>2, <1>6 DEF Closed, vars
  <1>7. row'.kind # "DECISION"
    BY <1>3, <1>4, <1>5, <1>6 DEF Next
  <1> QED BY <1>7 DEF ScoreRow

\* A review writes one decision: executed, and the ledger and the engine have
\* moved by what the row says, or vetoed, and only the next review has.
LEMMA ReviewIsLogged ==
    ASSUME IInv, NEW i \in Invoices, Review(i)
    PROVE  \E final \in Interventions, done \in BOOLEAN :
              /\ row'.kind = "DECISION" /\ row'.record = i
              /\ row'.intervention = final /\ row'.executed = done
              /\ done => /\ accounts'[i] = RecordAction(accounts[i], final, tick)
                         /\ HasPolicy => engine'.linksUsed = engine.linksUsed + ApiUnits(final)
              /\ ~done => /\ engine' = engine
                          /\ accounts'[i].attempts = accounts[i].attempts
                          /\ accounts'[i].links = accounts[i].links
                          /\ accounts'[i].state = accounts[i].state
  <1>1. PICK proposal \in Proposals(i) :
            \/ ReviewVetoed(i, Decision(i, proposal))
            \/ ReviewExecuted(i, Decision(i, proposal))
    BY DEF Review
  <1> DEFINE v == Decision(i, proposal)
  <1>2. v.final \in Interventions /\ v.defer \in Nat \cup {NoTick}
    BY DecisionsAreLawful DEF IInv
  <1>3. /\ accounts \in [Invoices -> Accounts] /\ accounts[i] \in Accounts /\ tick \in Nat
        /\ engine \in [linksUsed: Nat, suppressed: SUBSET Invoices,
                       groupEscalationOpened: BOOLEAN]
    BY DEF IInv, TypeOK
  <1> HIDE DEF v
  <1>4. CASE ReviewVetoed(i, v)
    <2>1. /\ row'.kind = "DECISION" /\ row'.record = i
          /\ row'.intervention = v.final /\ row'.executed = FALSE
          /\ engine' = engine
      BY <1>4 DEF ReviewVetoed, DecisionRow
    <2>2. accounts'[i] = [accounts[i] EXCEPT !.nextReview = NextReview(v.final, tick, v.defer)]
      BY <1>2, <1>3, <1>4 DEF ReviewVetoed, RecordVeto
    <2>3. /\ accounts'[i].attempts = accounts[i].attempts
          /\ accounts'[i].links = accounts[i].links
          /\ accounts'[i].state = accounts[i].state
      BY <1>3, <2>2 DEF Accounts
    <2> QED BY <1>2, <2>1, <2>3
  <1>5. CASE ReviewExecuted(i, v)
    <2>1. /\ row'.kind = "DECISION" /\ row'.record = i
          /\ row'.intervention = v.final /\ row'.executed = TRUE
      BY <1>5 DEF ReviewExecuted, DecisionRow
    <2>2. accounts'[i] = RecordAction(accounts[i], v.final, tick)
      BY <1>3, <1>5 DEF ReviewExecuted
    <2>3. HasPolicy => engine'.linksUsed = engine.linksUsed + ApiUnits(v.final)
      BY <1>3, <1>5 DEF ReviewExecuted, EngineAfter
    <2> QED BY <1>2, <2>1, <2>2, <2>3
  <1> QED BY <1>1, <1>4, <1>5 DEF v

\* The invariant of the scorecard: beside the tallies, a stopped record is
\* known to be, and an escalated one stays with its person or is paid.
StoppedAreKnown ==
    \A i \in Invoices :
        accounts[i].state \in {"EXHAUSTED", "WRITTEN_OFF"} => i \in score.stopped

EscalatedAreHeld ==
    \A i \in Invoices : i \in score.escalated => accounts[i].state \in {"HUMAN_QUEUE", "PAID"}

Tallies ==
    /\ score.contacts = SumFunction([i \in Invoices |-> Len(accounts[i].attempts)])
    /\ score.links = SumFunction([i \in Invoices |-> accounts[i].links])
    /\ HasPolicy => engine.linksUsed = score.links

ScoreInv ==
    /\ IInv
    /\ phase = "closed" => row = NoRow
    /\ Tallies /\ StoppedAreKnown /\ EscalatedAreHeld

\* A step that reviews nothing moves no contact, no link and no tally, and
\* exhausts no record.
LEMMA OtherStepsScoreNothing ==
    ASSUME ScoreInv, Next, ~ \E i \in Invoices : Review(i)
    PROVE  /\ ScoreRow(score, row') = score
           /\ engine'.linksUsed = engine.linksUsed
           /\ \A i \in Invoices :
                /\ accounts'[i].attempts = accounts[i].attempts
                /\ accounts'[i].links = accounts[i].links
                /\ accounts'[i].state \in {"EXHAUSTED", "WRITTEN_OFF"} =>
                      accounts[i].state \in {"EXHAUSTED", "WRITTEN_OFF"}
  <1>1. ScoreRow(score, row') = score
    BY OnlyReviewsAreScored DEF ScoreInv
  <1>2. IInv /\ TypeOK
    BY DEF ScoreInv, IInv
  <1>3. CASE Quiet
    <2>1. engine'.linksUsed = engine.linksUsed
      BY <1>2, <1>3 DEF Quiet, OpenRun, TypeOK
    <2> QED BY <1>1, <1>3, <2>1 DEF Quiet
  <1>4. ASSUME NEW j \in Invoices, NEW o \in Outcomes, Booking(j, o)
        PROVE  /\ engine'.linksUsed = engine.linksUsed
               /\ \A i \in Invoices :
                    /\ accounts'[i].attempts = accounts[i].attempts
                    /\ accounts'[i].links = accounts[i].links
                    /\ accounts'[i].state \in {"EXHAUSTED", "WRITTEN_OFF"} =>
                          accounts[i].state \in {"EXHAUSTED", "WRITTEN_OFF"}
    <2>1. /\ \A i \in Invoices : i # j => accounts'[i] = accounts[i]
          /\ accounts'[j].attempts = accounts[j].attempts
          /\ accounts'[j].links = accounts[j].links
      BY <1>2, <1>4, BookingEffect
    <2>2. /\ Apply(j, o)
          /\ o.kind = "PROMISED" => o.phrase \in PhrasesOf[j] /\ tick < Horizon
          /\ engine' = engine
      BY <1>4 DEF Booking
    <2>3. accounts'[j].state = "EXHAUSTED" => accounts[j].state = "EXHAUSTED"
      BY <1>2, <2>2, OutcomeStates
    <2>4. accounts'[j].state = "WRITTEN_OFF" => accounts[j].state \in {"EXHAUSTED", "WRITTEN_OFF"}
      BY <1>2, StepKeepsLosses DEF LossesKept
    <2> QED BY <2>1, <2>2, <2>3, <2>4
  <1> QED BY <1>1, <1>2, <1>3, <1>4, StepKinds

\* A sum over the invoices in which one term at most moves.
LEMMA TallyMoves ==
    ASSUME NEW f, NEW g, NEW i \in Invoices,
           \A x \in Invoices : f[x] \in Nat /\ g[x] \in Nat,
           \A x \in Invoices : x # i => g[x] = f[x],
           DOMAIN f = Invoices, DOMAIN g = Invoices
    PROVE  SumFunction(f) \in Nat /\ SumFunction(g) = SumFunction(f) - f[i] + g[i]
  <1>1. IsFiniteSet(Invoices)
    BY FS_Interval, RunnerAssumption DEF Invoices
  <1> QED BY <1>1, SumMoves DEF SumFunction

\* A review moves the tallies of the rows as it moves the ledger and the engine.
LEMMA ReviewKeepsTallies ==
    ASSUME ScoreInv, NEW i \in Invoices, Review(i), score' = ScoreRow(score, row')
    PROVE  Tallies'
  <1>1. /\ IInv /\ TypeOK /\ accounts' \in [Invoices -> Accounts]
        /\ accounts \in [Invoices -> Accounts]
        /\ \A j \in Invoices : j # i => accounts'[j] = accounts[j]
    BY ReviewEffect DEF ScoreInv, IInv, TypeOK
  <1>2. PICK final \in Interventions, done \in BOOLEAN :
              /\ row'.kind = "DECISION" /\ row'.record = i
              /\ row'.intervention = final /\ row'.executed = done
              /\ done => /\ accounts'[i] = RecordAction(accounts[i], final, tick)
                         /\ HasPolicy => engine'.linksUsed = engine.linksUsed + ApiUnits(final)
              /\ ~done => /\ engine' = engine
                          /\ accounts'[i].attempts = accounts[i].attempts
                          /\ accounts'[i].links = accounts[i].links
                          /\ accounts'[i].state = accounts[i].state
    BY <1>1, ReviewIsLogged
  <1> DEFINE made == IF done /\ IsContact(final) THEN 1 ELSE 0
             spent == IF done THEN ApiUnits(final) ELSE 0
             f == [x \in Invoices |-> Len(accounts[x].attempts)]
             g == [x \in Invoices |-> Len(accounts'[x].attempts)]
             l == [x \in Invoices |-> accounts[x].links]
             m == [x \in Invoices |-> accounts'[x].links]
  <1>3. /\ Len(accounts'[i].attempts) = Len(accounts[i].attempts) + made
        /\ accounts'[i].links = accounts[i].links + spent
    <2>1. accounts[i] \in Accounts /\ accounts[i].attempts \in Seq(Nat) /\ tick \in Nat
          /\ accounts[i].links \in Nat
      BY <1>1 DEF Accounts, TypeOK
    <2>2. CASE done
      <3>1. /\ accounts'[i].links = accounts[i].links + ApiUnits(final)
            /\ accounts'[i].attempts = IF IsContact(final) THEN Append(accounts[i].attempts, tick)
                                                           ELSE accounts[i].attempts
        BY <1>2, <2>1, <2>2, ActionType
      <3>2. Len(Append(accounts[i].attempts, tick)) = Len(accounts[i].attempts) + 1
        BY <2>1
      <3>3. made = (IF IsContact(final) THEN 1 ELSE 0) /\ spent = ApiUnits(final)
        BY <2>2
      <3> HIDE DEF made, spent
      <3>4. Len(accounts'[i].attempts) = Len(accounts[i].attempts) + made
        <4>1. Len(accounts[i].attempts) \in Nat
          BY <2>1
        <4>2. CASE IsContact(final)
          BY <3>1, <3>2, <3>3, <4>2
        <4>3. CASE ~IsContact(final)
          BY <3>1, <3>3, <4>1, <4>3
        <4> QED BY <4>2, <4>3
      <3> QED BY <3>1, <3>3, <3>4
    <2>3. CASE ~done
      <3>1. made = 0 /\ spent = 0
        BY <2>3
      <3> HIDE DEF made, spent
      <3>2. Len(accounts[i].attempts) \in Nat
        BY <2>1
      <3> QED BY <1>2, <2>1, <2>3, <3>1, <3>2
    <2> QED BY <2>2, <2>3
  <1>4. /\ done => /\ score'.contacts = score.contacts + made
                   /\ score'.links = score.links + spent
        /\ ~done => score' = score /\ made = 0 /\ spent = 0
    BY <1>2 DEF ScoreRow
  <1>5. HasPolicy => engine'.linksUsed = engine.linksUsed + spent
    <2>1. engine.linksUsed \in Nat
      BY <1>1 DEF TypeOK
    <2> QED BY <1>2, <2>1
  <1>6. \A x \in Invoices : /\ accounts[x].attempts \in Seq(Nat) /\ accounts'[x].attempts \in Seq(Nat)
                            /\ accounts[x].links \in Nat /\ accounts'[x].links \in Nat
    BY <1>1 DEF Accounts
  <1>7. SumFunction(f) \in Nat /\ SumFunction(g) = SumFunction(f) - f[i] + g[i]
    <2>1. \A x \in Invoices : f[x] \in Nat /\ g[x] \in Nat
      BY <1>6
    <2>2. \A x \in Invoices : x # i => g[x] = f[x]
      BY <1>1
    <2>3. DOMAIN f = Invoices /\ DOMAIN g = Invoices
      OBVIOUS
    <2> HIDE DEF f, g
    <2> QED BY <2>1, <2>2, <2>3, TallyMoves
  <1>8. SumFunction(l) \in Nat /\ SumFunction(m) = SumFunction(l) - l[i] + m[i]
    <2>1. \A x \in Invoices : l[x] \in Nat /\ m[x] \in Nat
      BY <1>6
    <2>2. \A x \in Invoices : x # i => m[x] = l[x]
      BY <1>1
    <2>3. DOMAIN l = Invoices /\ DOMAIN m = Invoices
      OBVIOUS
    <2> HIDE DEF l, m
    <2> QED BY <2>1, <2>2, <2>3, TallyMoves
  <1>9. /\ f[i] = Len(accounts[i].attempts) /\ g[i] = Len(accounts'[i].attempts)
        /\ l[i] = accounts[i].links /\ m[i] = accounts'[i].links
        /\ f[i] \in Nat /\ l[i] \in Nat /\ made \in Nat /\ spent \in Nat
    BY <1>6 DEF ApiUnits
  <1>10. /\ score.contacts = SumFunction(f) /\ score.links = SumFunction(l)
         /\ HasPolicy => engine.linksUsed = score.links
    BY DEF ScoreInv, Tallies
  <1>11. Tallies' = /\ score'.contacts = SumFunction(g)
                    /\ score'.links = SumFunction(m)
                    /\ HasPolicy => engine'.linksUsed = score'.links
    BY DEF Tallies
  <1> HIDE DEF f, g, l, m, made, spent
  <1>12. SumFunction(g) = SumFunction(f) + made /\ SumFunction(m) = SumFunction(l) + spent
    BY <1>3, <1>7, <1>8, <1>9
  <1>13. /\ score'.contacts = score.contacts + made
         /\ score'.links = score.links + spent
    BY <1>4, <1>7, <1>8, <1>10
  <1> QED BY <1>5, <1>10, <1>11, <1>12, <1>13

\* Which records a review leaves in the hands of a person, or exhausts.
LEMMA ReviewKeepsMarks ==
    ASSUME ScoreInv, NEW i \in Invoices, Review(i), score' = ScoreRow(score, row')
    PROVE  /\ StoppedAreKnown' /\ EscalatedAreHeld'
           /\ row'.kind = "DECISION"
           /\ score'.escalated \subseteq score.escalated \cup {i}
           /\ score.escalated \subseteq score'.escalated
           /\ accounts'[i].state = "HUMAN_QUEUE" /\ accounts[i].state # "HUMAN_QUEUE" =>
                 i \in score'.escalated
  <1>1. /\ IInv /\ TypeOK
        /\ \A j \in Invoices : j # i => accounts'[j] = accounts[j]
        /\ accounts[i].state \in {"AT_RISK", "CONTACTED", "PROMISED", "DISPUTED"}
        /\ accounts[i] \in Accounts /\ tick \in Nat
    BY ReviewMoves DEF ScoreInv, IInv, TypeOK
  <1>2. PICK final \in Interventions, done \in BOOLEAN :
              /\ row'.kind = "DECISION" /\ row'.record = i
              /\ row'.intervention = final /\ row'.executed = done
              /\ done => /\ accounts'[i] = RecordAction(accounts[i], final, tick)
                         /\ HasPolicy => engine'.linksUsed = engine.linksUsed + ApiUnits(final)
              /\ ~done => /\ engine' = engine
                          /\ accounts'[i].attempts = accounts[i].attempts
                          /\ accounts'[i].links = accounts[i].links
                          /\ accounts'[i].state = accounts[i].state
    BY <1>1, ReviewIsLogged
  <1>3. done => accounts'[i].state = StateAfterAction(accounts[i].state, final)
    BY <1>1, <1>2, ActionType
  <1>4. /\ done =>
              /\ accounts'[i].state \in {"EXHAUSTED", "WRITTEN_OFF"} => final = "STOP"
              /\ accounts'[i].state = "HUMAN_QUEUE" <=> final = "ESCALATE_HUMAN"
        /\ ~done => accounts'[i].state \in {"AT_RISK", "CONTACTED", "PROMISED", "DISPUTED"}
    BY <1>1, <1>2, <1>3 DEF StateAfterAction, Legal, AllowedTransitions, RecordStates,
       IsTerminal, TerminalStates, IsContact, ContactInterventions, Interventions
  <1>5. /\ score'.escalated =
              score.escalated \cup IF done /\ final = "ESCALATE_HUMAN" THEN {i} ELSE {}
        /\ score'.stopped = score.stopped \cup IF done /\ final = "STOP" THEN {i} ELSE {}
    BY <1>2 DEF ScoreRow
  <1>6. StoppedAreKnown'
    <2> SUFFICES ASSUME NEW j \in Invoices, accounts'[j].state \in {"EXHAUSTED", "WRITTEN_OFF"}
                 PROVE  j \in score'.stopped
      BY DEF StoppedAreKnown
    <2>1. CASE j = i
      BY <1>4, <1>5, <2>1
    <2>2. CASE j # i
      BY <1>1, <1>5, <2>2 DEF ScoreInv, StoppedAreKnown
    <2> QED BY <2>1, <2>2
  <1>7. EscalatedAreHeld'
    <2> SUFFICES ASSUME NEW j \in Invoices, j \in score'.escalated
                 PROVE  accounts'[j].state \in {"HUMAN_QUEUE", "PAID"}
      BY DEF EscalatedAreHeld
    <2>1. CASE j = i
      <3>1. i \notin score.escalated
        BY <1>1 DEF ScoreInv, EscalatedAreHeld
      <3> QED BY <1>4, <1>5, <2>1, <3>1
    <2>2. CASE j # i
      BY <1>1, <1>5, <2>2 DEF ScoreInv, EscalatedAreHeld
    <2> QED BY <2>1, <2>2
  <1>8. accounts'[i].state = "HUMAN_QUEUE" => i \in score'.escalated
    BY <1>4, <1>5
  <1> QED BY <1>2, <1>5, <1>6, <1>7, <1>8

\* The tallies of a run before its first row.
LEMMA NothingScoredYet ==
    ASSUME Init, score = NoScore
    PROVE  ScoreInv
  <1>1. IInv /\ phase = "open"
    BY InitIInv DEF Init
  <1>2. IsFiniteSet(Invoices)
    BY FS_Interval, RunnerAssumption DEF Invoices
  <1>3. \A i \in Invoices : accounts[i] = OpeningAccount
    BY DEF Init
  <1>4. /\ SumFunction([i \in Invoices |-> Len(accounts[i].attempts)]) = 0
        /\ SumFunction([i \in Invoices |-> accounts[i].links]) = 0
    <2> DEFINE f == [i \in Invoices |-> Len(accounts[i].attempts)]
               l == [i \in Invoices |-> accounts[i].links]
    <2>1. /\ \A i \in Invoices : f[i] = 0 /\ l[i] = 0
          /\ DOMAIN f = Invoices /\ DOMAIN l = Invoices
      BY <1>3 DEF OpeningAccount
    <2> HIDE DEF f, l
    <2>2. SumFunctionOnSet(f, Invoices) = 0 /\ SumFunctionOnSet(l, Invoices) = 0
      BY <1>2, <2>1, SumOfNothing
    <2>3. SumFunction(f) = 0 /\ SumFunction(l) = 0
      BY <2>1, <2>2 DEF SumFunction
    <2> QED BY <2>3 DEF f, l
  <1>5. Tallies
    BY <1>4 DEF Tallies, NoScore, Init, FreshEngine
  <1>6. StoppedAreKnown /\ EscalatedAreHeld
    BY <1>3 DEF StoppedAreKnown, EscalatedAreHeld, NoScore, OpeningAccount
  <1> QED BY <1>1, <1>5, <1>6 DEF ScoreInv

\* The scorecard's invariant is kept by every step of the run.
LEMMA StepKeepsScore ==
    ASSUME ScoreInv, [ScoredNext]_scoredVars
    PROVE  ScoreInv'
  <1>1. CASE UNCHANGED scoredVars
    <2>1. UNCHANGED vars /\ score' = score
      BY <1>1 DEF scoredVars, auditVars
    <2>2. IInv'
      BY <2>1, StepIInv DEF ScoreInv
    <2>3. UNCHANGED <<phase, row, accounts, engine>>
      BY <2>1 DEF vars
    <2> QED BY <2>1, <2>2, <2>3 DEF ScoreInv, Tallies, StoppedAreKnown, EscalatedAreHeld
  <1>2. CASE ScoredNext
    <2>1. Next /\ score' = ScoreRow(score, row')
      BY <1>2 DEF ScoredNext, AuditNext
    <2>2. IInv' /\ (phase = "closed" => row = NoRow)'
      BY <2>1, StepIInv, ClosingIsQuiet DEF ScoreInv
    <2>3. ASSUME NEW i \in Invoices, Review(i)
          PROVE  Tallies' /\ StoppedAreKnown' /\ EscalatedAreHeld'
      BY <2>1, <2>3, ReviewKeepsTallies, ReviewKeepsMarks
    <2>4. CASE ~ \E i \in Invoices : Review(i)
      <3>1. /\ score' = score /\ engine'.linksUsed = engine.linksUsed
            /\ \A i \in Invoices :
                 /\ accounts'[i].attempts = accounts[i].attempts
                 /\ accounts'[i].links = accounts[i].links
                 /\ accounts'[i].state \in {"EXHAUSTED", "WRITTEN_OFF"} =>
                       accounts[i].state \in {"EXHAUSTED", "WRITTEN_OFF"}
        BY <2>1, <2>4, OtherStepsScoreNothing
      <3>2. StaysRaised
        BY <2>1, StepKeepsObjections DEF ScoreInv
      <3>3. /\ [i \in Invoices |-> Len(accounts'[i].attempts)]
                  = [i \in Invoices |-> Len(accounts[i].attempts)]
            /\ [i \in Invoices |-> accounts'[i].links] = [i \in Invoices |-> accounts[i].links]
        BY <3>1
      <3>4. Tallies'
        BY <3>1, <3>3 DEF Tallies, ScoreInv
      <3>5. StoppedAreKnown'
        BY <3>1 DEF StoppedAreKnown, ScoreInv
      <3>6. EscalatedAreHeld'
        BY <3>1, <3>2 DEF EscalatedAreHeld, ScoreInv, StaysRaised
      <3> QED BY <2>2, <3>4, <3>5, <3>6 DEF ScoreInv
    <2> QED BY <2>2, <2>3, <2>4 DEF ScoreInv
  <1> QED BY <1>1, <1>2

\* Every run of the scored runner keeps the counts of compute_arm_metrics equal
\* to what its records and its engine hold: the invariant is inductive.
THEOREM ScoreInvariant == ScoredSpec => []ScoreInv
  <1>1. ScoredInit => ScoreInv
    BY NothingScoredYet DEF ScoredInit, AuditInit
  <1>2. ScoreInv /\ [ScoredNext]_scoredVars => ScoreInv'
    BY StepKeepsScore
  <1> QED BY <1>1, <1>2, PTL DEF ScoredSpec

\* compute_arm_metrics counts in the rows the contacts and links the records
\* hold and the engine counted, and scores no loss no row explains: in every
\* run of every arm, over every book.
THEOREM ScoreIsAlwaysTheLedgers == ScoredSpec => []ScoreIsTheLedgers
  <1>1. ASSUME ScoreInv PROVE ScoreIsTheLedgers
    <2>1. DOMAIN accounts = Invoices
      BY <1>1 DEF ScoreInv, IInv, TypeOK
    <2>2. WrittenOff(accounts) \subseteq score.stopped
      BY <1>1, <2>1 DEF ScoreInv, StoppedAreKnown, WrittenOff, In
    <2> QED BY <1>1, <2>2 DEF ScoreInv, Tallies, ScoreIsTheLedgers
  <1>2. ScoreInv => ScoreIsTheLedgers
    BY <1>1
  <1> QED BY <1>2, ScoreInvariant, PTL

\* A step that reviews nothing queues a record by a row of its own.
LEMMA OtherStepsQueueByOutcome ==
    ASSUME IInv, Next, ~ \E i \in Invoices : Review(i), NEW i \in Invoices,
           accounts[i].state # "HUMAN_QUEUE", accounts'[i].state = "HUMAN_QUEUE"
    PROVE  row'.kind = "OUTCOME" /\ accounts[i].state # "PAID"
  <1>1. ~Quiet
    BY DEF Quiet
  <1>2. PICK j \in Invoices, o \in Outcomes : Booking(j, o)
    BY <1>1, StepKinds
  <1>3. \A k \in Invoices : k # j => accounts'[k] = accounts[k]
    BY <1>2, BookingEffect DEF IInv
  <1>4. i = j
    BY <1>3
  <1> QED BY <1>2, <1>4 DEF Booking, Apply, OutcomeRow, IsTerminal, TerminalStates

\* payer_human_queue tells a record a payer's answer queued from one the run
\* escalated, step by step and in every run: no record is ever both.
THEOREM QueueIsAlwaysAttributed == ScoredSpec => QueueIsAttributed
  <1> DEFINE Attributed ==
          \A i \in Invoices : accounts'[i].state = "HUMAN_QUEUE" =>
              IF accounts[i].state = "HUMAN_QUEUE"
              THEN i \in PayerHumanQueue(accounts', score')
                       <=> i \in PayerHumanQueue(accounts, score)
              ELSE i \in PayerHumanQueue(accounts', score') <=> row'.kind = "OUTCOME"
  <1>1. ASSUME ScoreInv, ScoredNext PROVE Attributed
    <2>1. Next /\ score' = ScoreRow(score, row') /\ IInv /\ IInv'
      BY <1>1, StepIInv DEF ScoredNext, AuditNext, ScoreInv
    <2>2. /\ DOMAIN accounts = Invoices /\ DOMAIN accounts' = Invoices
      BY <2>1 DEF IInv, TypeOK
    <2>3. SUFFICES ASSUME NEW i \in Invoices, accounts'[i].state = "HUMAN_QUEUE"
                   PROVE  /\ accounts[i].state = "HUMAN_QUEUE" =>
                                (i \in score'.escalated <=> i \in score.escalated)
                          /\ accounts[i].state # "HUMAN_QUEUE" =>
                                (i \notin score'.escalated <=> row'.kind = "OUTCOME")
      BY <2>2 DEF PayerHumanQueue, In
    <2>4. ASSUME NEW j \in Invoices, Review(j)
          PROVE  /\ accounts[i].state = "HUMAN_QUEUE" =>
                       (i \in score'.escalated <=> i \in score.escalated)
                 /\ accounts[i].state # "HUMAN_QUEUE" =>
                       (i \notin score'.escalated <=> row'.kind = "OUTCOME")
      <3>1. /\ row'.kind = "DECISION"
            /\ score'.escalated \subseteq score.escalated \cup {j}
            /\ score.escalated \subseteq score'.escalated
            /\ accounts'[j].state = "HUMAN_QUEUE" /\ accounts[j].state # "HUMAN_QUEUE" =>
                  j \in score'.escalated
        BY <1>1, <2>1, <2>4, ReviewKeepsMarks
      <3>2. /\ \A k \in Invoices : k # j => accounts'[k] = accounts[k]
            /\ accounts[j].state # "HUMAN_QUEUE"
        BY <2>1, <2>4, ReviewMoves
      <3> QED BY <2>3, <3>1, <3>2
    <2>5. CASE ~ \E j \in Invoices : Review(j)
      <3>1. score' = score
        BY <1>1, <2>1, <2>5, OnlyReviewsAreScored DEF ScoreInv
      <3>2. accounts[i].state # "HUMAN_QUEUE" =>
               row'.kind = "OUTCOME" /\ accounts[i].state # "PAID"
        BY <2>1, <2>3, <2>5, OtherStepsQueueByOutcome
      <3>3. accounts[i].state # "HUMAN_QUEUE" => i \notin score.escalated
        BY <1>1, <3>2 DEF ScoreInv, EscalatedAreHeld
      <3> QED BY <3>1, <3>2, <3>3
    <2> QED BY <2>4, <2>5
  <1>2. ScoreInv /\ [ScoredNext]_scoredVars => [Attributed]_scoredVars
    BY <1>1
  <1> QED BY <1>2, ScoreInvariant, PTL DEF ScoredSpec, QueueIsAttributed

-----------------------------------------------------------------------------
(* The rows the runner writes are rows the reconciler may be given.         *)

\* The row the last step wrote, if it wrote one, is a row of a log.
RowIsLogged == row \in LogRows(Invoices) \cup {NoRow}

\* An outcome the runner books makes a row of a log.
LEMMA OutcomesAreLogRows ==
    ASSUME NEW i \in Invoices, NEW o \in Outcomes, Apply(i, o), tick \in Nat,
           o.kind = "PROMISED" => o.phrase \in PhrasesOf[i] /\ tick < Horizon
    PROVE  row' \in LogRows(Invoices)
  <1>1. row' = [kind |-> "OUTCOME", record |-> i, tick |-> tick, outcome |-> o]
    BY DEF Apply, OutcomeRow
  <1>2. row' \in [kind: {"OUTCOME"}, record: Invoices, tick: Nat, outcome: Outcomes]
    BY <1>1
  <1>3. ASSUME o.kind = "PROMISED"
        PROVE  o.phrase \in Phrases /\ Resolve[o.phrase][tick] \in Nat \cup {NoTick}
    <2>1. o.phrase \in Phrases
      BY <1>3, PromiseAssumption
    <2>2. Resolve[o.phrase] \in [0 .. Horizon - 1 -> Nat \cup {NoTick}]
      BY <2>1, PromiseAssumption
    <2>3. tick \in 0 .. Horizon - 1
      BY <1>3, RunnerAssumption
    <2> QED BY <2>1, <2>2, <2>3
  <1>4. row'.outcome = o /\ row'.tick = tick
    BY <1>1
  <1>5. row'.outcome.kind = "PROMISED" =>
            /\ row'.outcome.phrase \in Phrases
            /\ Resolve[row'.outcome.phrase][row'.tick] \in Nat \cup {NoTick}
    BY <1>3, <1>4
  <1> QED BY <1>2, <1>5 DEF LogRows

\* A review makes a row of a log, whatever it decides.
LEMMA DecisionsAreLogRows ==
    ASSUME IInv, NEW i \in Invoices, Review(i)
    PROVE  row' \in LogRows(Invoices)
  <1>1. PICK proposal \in Proposals(i) :
            \/ ReviewVetoed(i, Decision(i, proposal))
            \/ ReviewExecuted(i, Decision(i, proposal))
    BY DEF Review
  <1> DEFINE v == Decision(i, proposal)
  <1>2. v.final \in Interventions /\ v.defer \in Nat \cup {NoTick}
    BY DecisionsAreLawful DEF IInv
  <1>3. tick \in Nat
    BY DEF IInv, TypeOK
  <1> HIDE DEF v
  <1>4. \/ row' = [kind |-> "DECISION", record |-> i, tick |-> tick, intervention |-> v.final,
                   executed |-> FALSE, defer |-> v.defer]
        \/ row' = [kind |-> "DECISION", record |-> i, tick |-> tick, intervention |-> v.final,
                   executed |-> TRUE, defer |-> NoTick]
    BY <1>1 DEF v, ReviewVetoed, ReviewExecuted, DecisionRow
  <1>5. row' \in [kind: {"DECISION"}, record: Invoices, tick: Nat, intervention: Interventions,
                  executed: BOOLEAN, defer: Nat \cup {NoTick}]
    <2>1. ASSUME NEW final \in Interventions, NEW done \in BOOLEAN,
                 NEW defer \in Nat \cup {NoTick}
          PROVE  [kind |-> "DECISION", record |-> i, tick |-> tick, intervention |-> final,
                  executed |-> done, defer |-> defer]
                     \in [kind: {"DECISION"}, record: Invoices, tick: Nat,
                          intervention: Interventions, executed: BOOLEAN,
                          defer: Nat \cup {NoTick}]
      BY <1>3
    <2>2. NoTick \in Nat \cup {NoTick} /\ TRUE \in BOOLEAN /\ FALSE \in BOOLEAN
      OBVIOUS
    <2>3. CASE row' = [kind |-> "DECISION", record |-> i, tick |-> tick,
                       intervention |-> v.final, executed |-> FALSE, defer |-> v.defer]
      BY <1>2, <2>1, <2>2, <2>3, Zenon
    <2>4. CASE row' = [kind |-> "DECISION", record |-> i, tick |-> tick,
                       intervention |-> v.final, executed |-> TRUE, defer |-> NoTick]
      BY <1>2, <2>1, <2>2, <2>4, Zenon
    <2> QED BY <1>4, <2>3, <2>4
  <1> QED BY <1>5 DEF LogRows

\* Every row of every run is a decision or an outcome on a record of the
\* book, of closed enums, whose promise resolves at the tick it was made:
\* what Reconcile assumes of the finished runs on its disk (ClosingAssumption).
THEOREM RowsAreLogRows == Spec => []RowIsLogged
  <1>1. Init => RowIsLogged
    BY DEF Init, RowIsLogged
  <1>2. ASSUME IInv, RowIsLogged, [Next]_vars
        PROVE  RowIsLogged'
    <2>1. TypeOK /\ tick \in Nat /\ (phase \notin {"finalise", "closed"} => tick < Horizon)
      BY <1>2 DEF IInv, TypeOK
    <2>2. ASSUME NEW p \in pending, LandResponse(p)
          PROVE  RowIsLogged'
      <3>1. p.invoice \in Invoices /\ tick < Horizon
        BY <2>1, <2>2 DEF TypeOK, LandResponse
      <3>2. PICK o \in Responses(p.invoice) : Apply(p.invoice, o)
        BY <2>2 DEF LandResponse
      <3>3. o \in Outcomes /\ (o.kind = "PROMISED" => o.phrase \in PhrasesOf[p.invoice])
        BY <2>1, <3>1, OutcomesOfTheRun
      <3> QED BY <2>1, <3>1, <3>2, <3>3, OutcomesAreLogRows DEF RowIsLogged
    <2>3. ASSUME NEW i \in Invoices, ResolvePromise(i) \/ SettleSpontaneously(i) \/ WriteOff(i)
          PROVE  RowIsLogged'
      <3>1. PICK o \in PromiseOutcomes(i) \cup SpontaneousPayments(i)
                           \cup {Outcome("WRITTEN_OFF", 0)} : Apply(i, o)
        BY <2>3 DEF ResolvePromise, SettleSpontaneously, WriteOff
      <3>2. Outcome("WRITTEN_OFF", 0) \in Outcomes /\ Outcome("WRITTEN_OFF", 0).kind # "PROMISED"
        BY DEF Outcome, Outcomes, OutcomeKinds
      <3>3. o \in Outcomes /\ o.kind # "PROMISED"
        BY <2>1, <3>1, <3>2, OutcomesOfTheRun
      <3> QED BY <2>1, <3>1, <3>3, OutcomesAreLogRows DEF RowIsLogged
    <2>4. ASSUME NEW i \in Invoices, Review(i)
          PROVE  RowIsLogged'
      BY <1>2, <2>4, DecisionsAreLogRows DEF RowIsLogged
    <2>5. ASSUME NEW p \in pending, DropResponse(p)
          PROVE  RowIsLogged'
      BY <2>5 DEF DropResponse, RowIsLogged
    <2>6. ASSUME NEW i \in Invoices, PassPromise(i) \/ StayQuiet(i)
          PROVE  RowIsLogged'
      BY <2>6 DEF PassPromise, StayQuiet, RowIsLogged
    <2>7. CASE \/ OpenRun \/ StartPromises \/ StartSpontaneous \/ StartReviews
               \/ Advance \/ CloseRun
      BY <2>7 DEF OpenRun, StartPromises, StartSpontaneous, StartReviews, StartStep, Advance,
                  CloseRun, RowIsLogged
    <2>8. CASE Closed \/ UNCHANGED vars
      <3>1. row' = row
        BY <2>8 DEF Closed, vars
      <3>2. RowIsLogged' = (row' \in LogRows(Invoices) \cup {NoRow})
        BY DEF RowIsLogged, LogRows, Invoices, NoRow
      <3> QED BY <1>2, <3>1, <3>2 DEF RowIsLogged
    <2> QED BY <1>2, <2>2, <2>3, <2>4, <2>5, <2>6, <2>7, <2>8 DEF Next
  <1> QED BY <1>1, <1>2, RunInvariant, PTL DEF Spec
=============================================================================
