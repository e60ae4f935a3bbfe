---------------------------- MODULE SharedProofs ----------------------------
(***************************************************************************)
(* The world of the adjudicator as theorems: what it draws is what the      *)
(* runner provides for, so every theorem about Runner holds in it; chasing  *)
(* a book never recovers less than leaving it alone; and one contact more   *)
(* never makes a payer likelier to pay or less likely to complain.          *)
(***************************************************************************)
EXTENDS SharedWorld, RunnerProofs

-----------------------------------------------------------------------------
(* Draws and amounts.                                                       *)

\* A ladder answers with one of its rungs or with silence.
LEMMA AnswerKinds ==
    ASSUME NEW ladder, NEW draw
    PROVE  Answer(ladder, draw) \in {Rungs[k] : k \in 1 .. 6} \cup {"NO_RESPONSE"}
  <1>1. CASE \E k \in 1 .. 6 : LandsOn(ladder, draw, k)
    <2>1. (CHOOSE k \in 1 .. 6 : LandsOn(ladder, draw, k)) \in 1 .. 6
      BY <1>1
    <2> QED BY <1>1, <2>1 DEF Answer
  <1>2. CASE ~ \E k \in 1 .. 6 : LandsOn(ladder, draw, k)
    BY <1>2 DEF Answer
  <1> QED BY <1>1, <1>2

\* The draw of the amount channel is a whole percent between 33 and 84.
LEMMA PercentOfDraw ==
    ASSUME NEW draw \in Draws
    PROVE  33 + (draw * 52) \div 10000 \in 33 .. 84
  BY DEF Draws

\* A part payment is one the runner provides for.
LEMMA PartIsProvidedFor ==
    ASSUME NEW i \in Invoices, NEW draw \in Draws
    PROVE  PartPayment(Open(i), draw) \in PartialPayments(i)
  <1> DEFINE percent == 33 + (draw * 52) \div 10000
  <1>1. percent \in 33 .. 84
    BY PercentOfDraw
  <1>2. PartialAmount(Open(i), draw) = Later(1, (Open(i) * percent) \div 100)
    BY DEF PartialAmount, Later
  <1> HIDE DEF percent
  <1> QED BY <1>1, <1>2 DEF PartPayment, PartialPayments

\* The larger of two balances pays the larger part, and keeps the larger rest.
LEMMA LargerKeepsMore ==
    ASSUME NEW x \in Nat \ {0}, NEW y \in Nat \ {0}, x <= y, NEW draw \in Draws
    PROVE  /\ PartialAmount(x, draw) \in 1 .. x
           /\ PartialAmount(y, draw) \in 1 .. y
           /\ x - PartialAmount(x, draw) <= y - PartialAmount(y, draw)
  <1> DEFINE p == 33 + (draw * 52) \div 10000
             partOf(z) == (z * p) \div 100
  <1>1. p \in 33 .. 84
    BY PercentOfDraw
  <1>2. \A z \in Nat \ {0} : PartialAmount(z, draw) = IF partOf(z) > 1 THEN partOf(z) ELSE 1
    BY DEF PartialAmount
  <1> HIDE DEF p
  <1>3. \A z \in Nat \ {0} : partOf(z) \in 0 .. z
    <2> SUFFICES ASSUME NEW z \in Nat \ {0} PROVE partOf(z) \in 0 .. z
      OBVIOUS
    <2>1. z * p \in Nat /\ z * p <= z * 100
      BY <1>1
    <2> QED BY <2>1
  <1>4. partOf(y) - partOf(x) <= y - x
    <2>1. x * p \in Nat /\ y * p \in Nat /\ (y - x) * p <= (y - x) * 100
      BY <1>1
    <2>2. y * p = x * p + (y - x) * p
      BY <1>1
    <2>3. y * p <= x * p + (y - x) * 100
      BY <2>1, <2>2, <1>1
    <2> DEFINE u == x * p
               v == y * p
    <2>4. u \in Nat /\ v \in Nat /\ v <= u + (y - x) * 100
      BY <2>1, <2>3
    <2> HIDE DEF u, v
    <2>5. v \div 100 <= u \div 100 + (y - x)
      BY <2>4
    <2> QED BY <2>4, <2>5 DEF u, v
  <1> DEFINE m == partOf(x)
             n == partOf(y)
  <1>5. m \in 0 .. x /\ n \in 0 .. y /\ n - m <= y - x
    BY <1>3, <1>4
  <1>6. /\ PartialAmount(x, draw) = IF m > 1 THEN m ELSE 1
        /\ PartialAmount(y, draw) = IF n > 1 THEN n ELSE 1
    BY <1>2
  <1> HIDE DEF m, n, partOf
  <1> QED BY <1>5, <1>6

\* Rescaling leaves no ladder taller than the ceiling, and gives no rung more
\* than it had: what is rounded off is silence.
THEOREM RescaledFits ==
    ASSUME NEW masses \in [1 .. 6 -> Nat]
    PROVE  /\ Total(Rescaled(masses)) <= MaxMass
           /\ \A k \in 1 .. 6 : Rescaled(masses)[k] \in 0 .. masses[k]
  <1> DEFINE mass == Total(masses)
             scaled(k) == (masses[k] * MaxMass) \div mass
  <1>1. /\ \A k \in 1 .. 6 : masses[k] \in Nat
        /\ mass = masses[1] + masses[2] + masses[3] + masses[4] + masses[5] + masses[6]
        /\ mass \in Nat
    BY DEF Total
  <1>2. CASE mass > MaxMass
    <2>1. Rescaled(masses) = [k \in 1 .. 6 |-> scaled(k)]
      BY <1>2 DEF Rescaled
    <2> HIDE DEF mass
    <2>2. \A k \in 1 .. 6 : scaled(k) \in Nat /\ scaled(k) * mass <= masses[k] * MaxMass
      <3> SUFFICES ASSUME NEW k \in 1 .. 6
                   PROVE  scaled(k) \in Nat /\ scaled(k) * mass <= masses[k] * MaxMass
        OBVIOUS
      <3>1. masses[k] * MaxMass \in Nat /\ mass \in Nat \ {0}
        BY <1>1, <1>2 DEF MaxMass
      <3> DEFINE n == masses[k] * MaxMass
      <3>2. n \in Nat
        BY <3>1
      <3> HIDE DEF n
      <3>3. n \div mass \in Nat /\ (n \div mass) * mass <= n
        BY <3>1, <3>2
      <3> QED BY <3>3 DEF n
    <2> DEFINE sum == scaled(1) + scaled(2) + scaled(3) + scaled(4) + scaled(5) + scaled(6)
    <2>3. sum \in Nat /\ sum * mass <= mass * MaxMass
      <3> HIDE DEF scaled
      <3> QED BY <1>1, <2>2 DEF MaxMass
    <2>4. sum <= MaxMass
      <3> HIDE DEF sum
      <3> QED BY <1>1, <1>2, <2>3 DEF MaxMass
    <2>5. \A k \in 1 .. 6 : scaled(k) <= masses[k]
      <3> SUFFICES ASSUME NEW k \in 1 .. 6 PROVE scaled(k) <= masses[k]
        OBVIOUS
      <3> DEFINE q == scaled(k)
                 n == masses[k]
      <3>1. q \in Nat /\ n \in Nat /\ q * mass <= n * MaxMass
        BY <1>1, <2>2
      <3> HIDE DEF q, n
      <3>2. n * MaxMass <= n * mass
        BY <1>1, <1>2, <3>1 DEF MaxMass
      <3>3. q <= n
        BY <1>1, <1>2, <3>1, <3>2 DEF MaxMass
      <3> QED BY <3>3 DEF q, n
    <2> HIDE DEF scaled
    <2> QED BY <1>1, <2>1, <2>2, <2>4, <2>5 DEF Total
  <1>3. CASE ~(mass > MaxMass)
    <2>1. Rescaled(masses) = masses
      BY <1>3 DEF Rescaled
    <2> QED BY <1>1, <1>3, <2>1 DEF MaxMass
  <1> QED BY <1>2, <1>3

-----------------------------------------------------------------------------
(* The drawn runner is the runner.                                          *)

\* What a contact draws, the runner may be answered.
LEMMA ResponseIsProvidedFor ==
    ASSUME NEW i \in Invoices, NEW draw, NEW amount \in Draws, NEW phrase \in PhrasesOf[i]
    PROVE  Response(i, draw, amount, phrase) \in Responses(i)
  <1> DEFINE kind == Answer(LadderOf(i), draw)
  <1>1. kind \in ResponseKinds
    BY AnswerKinds, SharedAssumption
  <1>2. kind \in {"NO_RESPONSE", "REPLIED", "PROMISED", "PAID_FULL", "PAID_PARTIAL",
                  "DISPUTE_RAISED", "COMPLAINT"}
    BY <1>1, RunnerAssumption
  <1> HIDE DEF kind
  <1>3. CASE kind = "PAID_FULL"
    BY <1>1, <1>3 DEF Response, Responses, FullPayment, Outcome, kind
  <1>4. CASE kind = "PAID_PARTIAL"
    BY <1>1, <1>4, PartIsProvidedFor DEF Response, Responses, PartPayment, Outcome, kind
  <1>5. CASE kind = "PROMISED"
    BY <1>1, <1>5 DEF Response, Responses, kind
  <1>6. CASE kind \in OutcomeKinds \ {"PAID_FULL", "PAID_PARTIAL", "PROMISED"}
    BY <1>1, <1>6 DEF Response, Responses, Outcome, kind
  <1> QED BY <1>2, <1>3, <1>4, <1>5, <1>6 DEF OutcomeKinds

\* What a payer draws unprompted, the runner provides for, and it is nothing
\* once nothing is left.
LEMMA UnpromptedIsProvidedFor ==
    ASSUME NEW i \in Invoices, TypeOK, NEW l \in Luck,
           Unprompted(i, accounts[i], l) # Nothing
    PROVE  Unprompted(i, accounts[i], l) \in SpontaneousPayments(i)
  <1>1. Open(i) \in Nat /\ Open(i) # 0
    BY OpenType DEF Unprompted, Open
  <1>2. l.amount \in Draws
    BY SharedAssumption DEF Luck
  <1>3. \/ Unprompted(i, accounts[i], l) = PartPayment(Open(i), l.amount)
        \/ Unprompted(i, accounts[i], l) = FullPayment(i)
    BY DEF Unprompted, Open, FullPayment
  <1>4. /\ PartPayment(Open(i), l.amount).kind = "PAID_PARTIAL"
        /\ FullPayment(i).kind = "PAID_FULL"
    BY DEF PartPayment, FullPayment, Outcome
  <1> QED BY <1>1, <1>2, <1>3, <1>4, PartIsProvidedFor, SharedAssumption DEF SpontaneousPayments

\* Each step of the shared world is a step of the runner.
LEMMA SharedStepRuns == TypeOK /\ [SharedNext]_sharedVars => [Next]_vars
  <1> SUFFICES ASSUME TypeOK, [SharedNext]_sharedVars PROVE [Next]_vars
    OBVIOUS
  <1>1. ASSUME NEW p \in pending, LandDrawn(p) PROVE Next
    <2>1. p.invoice \in Invoices
      BY DEF TypeOK
    <2>2. PICK draw \in SomeDraws, amount \in SomeAmounts, phrase \in PhrasesOf[p.invoice] :
            Apply(p.invoice, Response(p.invoice, draw, amount, phrase))
      BY <1>1 DEF LandDrawn
    <2>3. Response(p.invoice, draw, amount, phrase) \in Responses(p.invoice)
      BY <2>1, ResponseIsProvidedFor, SharedAssumption
    <2>4. LandResponse(p)
      BY <1>1, <2>2, <2>3 DEF LandDrawn, LandResponse
    <2> QED BY <2>4 DEF Next
  <1>2. ASSUME NEW p \in pending, DropDrawn(p) PROVE Next
    BY <1>2 DEF DropDrawn, Next
  <1>3. ASSUME NEW i \in Invoices, ResolveDrawn(i) PROVE Next
    <2>1. PICK draw \in SomeDraws : Apply(i, PromiseAnswer(i, draw))
      BY <1>3 DEF ResolveDrawn
    <2>2. PromiseAnswer(i, draw) \in PromiseOutcomes(i)
      BY DEF PromiseAnswer, PromiseOutcomes
    <2>3. ResolvePromise(i)
      BY <1>3, <2>1, <2>2 DEF ResolveDrawn, ResolvePromise
    <2> QED BY <2>3 DEF Next
  <1>4. ASSUME NEW i \in Invoices, SettleDrawn(i) PROVE Next
    <2>1. SettleSpontaneously(i)
      BY <1>4, UnpromptedIsProvidedFor DEF SettleDrawn, SettleSpontaneously
    <2> QED BY <2>1 DEF Next
  <1>5. ASSUME NEW i \in Invoices, StayQuietDrawn(i) PROVE Next
    BY <1>5 DEF StayQuietDrawn, Next
  <1>6. CASE StartSpontaneousOfBoth \/ StartReviewsOfBoth
    BY <1>6 DEF StartSpontaneousOfBoth, StartReviewsOfBoth, Next
  <1>7. ASSUME NEW i \in Invoices, ReviewAsking(i) PROVE Next
    <2>1. Review(i)
      BY <1>7 DEF ReviewAsking, Review
    <2> QED BY <2>1 DEF Next
  <1>8. CASE RestOfRun
    BY <1>8 DEF RestOfRun, Next
  <1>9. CASE UNCHANGED sharedVars
    BY <1>9 DEF sharedVars
  <1> QED BY <1>1, <1>2, <1>3, <1>4, <1>5, <1>6, <1>7, <1>8, <1>9 DEF SharedNext

\* Every run in the world of the adjudicator is a run of Runner, whatever the
\* seed draws: each theorem about Runner holds of it.
THEOREM SharedImplementsRunner == SharedSpec => DrawsAreOutcomes
  <1>1. SharedInit => Init /\ IInv
    BY InitIInv DEF SharedInit
  <1>2. IInv /\ [SharedNext]_sharedVars => [Next]_vars /\ IInv'
    BY SharedStepRuns, StepIInv DEF IInv
  <1> QED BY <1>1, <1>2, PTL DEF SharedSpec, Spec, DrawsAreOutcomes

-----------------------------------------------------------------------------
(* Chasing never costs.                                                     *)

\* The book left alone holds accounts, and nothing is lost before the close.
BookAlone ==
    /\ alone \in [Invoices -> Accounts]
    /\ phase \notin {"finalise", "closed"} =>
          \A i \in Invoices : accounts[i].state # "WRITTEN_OFF"

\* A step of the run never lets a balance grow, and only the close loses one.
LEMMA BalancesOnlyFall ==
    ASSUME IInv, [Next]_vars
    PROVE  /\ \A i \in Invoices : Open(i)' <= Open(i)
           /\ \A i \in Invoices : accounts'[i].state = "WRITTEN_OFF" =>
                  accounts[i].state = "WRITTEN_OFF" \/ phase' \in {"finalise", "closed"}
  <1> DEFINE Goal(i) == /\ Open(i)' <= Open(i)
                        /\ accounts'[i].state = "WRITTEN_OFF" =>
                             accounts[i].state = "WRITTEN_OFF" \/ phase' \in {"finalise", "closed"}
  <1>1. SUFFICES ASSUME NEW i \in Invoices PROVE Goal(i)
    OBVIOUS
  <1>2. TypeOK /\ Amount[i] \in Nat /\ accounts[i].recovered \in Nat
    BY OpenType DEF IInv, TypeOK, Accounts
  <1>3. accounts'[i] = accounts[i] => Goal(i)
    BY <1>2 DEF Open, Outstanding
  <1>4. CASE Quiet
    BY <1>3, <1>4 DEF Quiet
  <1>5. ASSUME NEW j \in Invoices, NEW o \in Outcomes, Booking(j, o) PROVE Goal(i)
    <2>1. CASE i # j
      BY <1>2, <1>3, <1>5, <2>1, BookingEffect
    <2>2. CASE i = j
      <3>1. /\ accounts'[i].recovered \in {accounts[i].recovered, accounts[i].recovered + o.amount, Amount[i]}
            /\ accounts'[i].recovered # Amount[i] => accounts'[i].recovered >= accounts[i].recovered
        <4>1. o.amount \in Nat
          BY DEF Outcomes
        <4> QED BY <1>2, <1>5, <2>2, <4>1, BookingEffect
      <3>2. Open(i)' <= Open(i)
        BY <1>2, <3>1 DEF Open, Outstanding, Outcomes
      <3>3. accounts'[i].state = "WRITTEN_OFF" => phase' \in {"finalise", "closed"}
        <4>1. CASE o.kind = "WRITTEN_OFF"
          BY <1>5, <4>1 DEF Booking
        <4>2. CASE o.kind # "WRITTEN_OFF"
          <5>1. accounts[i].state # "WRITTEN_OFF" /\ accounts[i].state \in RecordStates
            BY <1>2, <1>5, <2>2, OpenType DEF Booking, IsTerminal, TerminalStates, Accounts
          <5>2. \/ accounts'[i].state = StateAfterOutcome(accounts[i].state, o.kind)
                \/ accounts'[i].state \in {"PROMISED", accounts[i].state}
            BY <1>2, <1>5, <2>2, BookingEffect
          <5> QED BY <4>2, <5>1, <5>2 DEF StateAfterOutcome, Legal
        <4> QED BY <4>1, <4>2
      <3> QED BY <3>2, <3>3
    <2> QED BY <2>1, <2>2
  <1>6. ASSUME NEW j \in Invoices, Review(j) PROVE Goal(i)
    <2>1. CASE i # j
      BY <1>3, <1>6, <2>1, ReviewMoves
    <2>2. CASE i = j
      <3>1. accounts'[i].recovered = accounts[i].recovered /\ accounts'[i].state # "WRITTEN_OFF"
        BY <1>6, <2>2, ReviewMoves
      <3> QED BY <1>2, <3>1 DEF Open, Outstanding
    <2> QED BY <2>1, <2>2
  <1> HIDE DEF Goal
  <1> QED BY <1>4, <1>5, <1>6, StepKinds

\* What one tick's luck leaves of a balance: all of it, the rest of a part
\* payment, or nothing.
LEMMA SettledLeaves ==
    ASSUME TypeOK, NEW i \in Invoices, NEW a \in Accounts, NEW l \in Luck
    PROVE  LET left == Outstanding(Amount[i], a)
               rest == Outstanding(Amount[i], Settled(i, a, l))
           IN  /\ Settled(i, a, l) \in Accounts
               /\ left \in Nat
               /\ IsTerminal(a.state) => rest = left
               /\ ~IsTerminal(a.state) =>
                     rest = IF l.draw >= Hazard(ArchetypeOf[i], Age(i)) \/ left = 0 THEN left
                            ELSE IF FallsInPart(ArchetypeOf[i], Age(i), l.draw)
                                 THEN left - PartialAmount(left, l.amount) ELSE 0
  <1> DEFINE left == Outstanding(Amount[i], a)
             rest == Outstanding(Amount[i], Settled(i, a, l))
             u == Unprompted(i, a, l)
  <1>1. Amount[i] \in Nat /\ a.recovered \in Nat /\ left \in Nat /\ tick \in Nat /\ l.amount \in Draws
    BY RunnerAssumption, SharedAssumption DEF TypeOK, Accounts, Luck, Outstanding
  <1>2. CASE IsTerminal(a.state) \/ u = Nothing
    <2>1. Settled(i, a, l) = a
      BY <1>2 DEF Settled
    <2>2. ~IsTerminal(a.state) => l.draw >= Hazard(ArchetypeOf[i], Age(i)) \/ left = 0
      BY <1>2 DEF Unprompted, Nothing, PartPayment, Outcome
    <2> QED BY <1>1, <2>1, <2>2
  <1>3. CASE ~IsTerminal(a.state) /\ u # Nothing
    <2>1. left # 0 /\ ~(l.draw >= Hazard(ArchetypeOf[i], Age(i)))
      BY <1>3 DEF Unprompted
    <2>2. PartialAmount(left, l.amount) \in 1 .. left
      BY <1>1, <2>1, LargerKeepsMore
    <2> DEFINE paid == IF FallsInPart(ArchetypeOf[i], Age(i), l.draw)
                       THEN PartialAmount(left, l.amount) ELSE left
    <2>3. /\ u.amount = paid /\ u.kind \in {"PAID_FULL", "PAID_PARTIAL"}
          /\ u \in Outcomes /\ paid \in 1 .. left
      BY <1>1, <2>1, <2>2 DEF Unprompted, PartPayment, Outcome, Outcomes, OutcomeKinds
    <2>4. Settled(i, a, l) = ApplyOutcome(Amount[i], a, u, tick)
      BY <1>3 DEF Settled
    <2> HIDE DEF u, paid
    <2>5. /\ Settled(i, a, l) \in Accounts
          /\ Settled(i, a, l).recovered =
                IF a.recovered + paid < Amount[i] THEN a.recovered + paid ELSE Amount[i]
      <3>1. u.kind # "PROMISED"
        BY <2>3
      <3>2. ApplyOutcome(Amount[i], a, u, tick) \in Accounts
        BY <1>1, <2>3, <3>1, OutcomeType
      <3>3. ApplyOutcome(Amount[i], a, u, tick).recovered =
               IF a.recovered + u.amount < Amount[i] THEN a.recovered + u.amount ELSE Amount[i]
        BY <1>1, <2>3, <3>1, OutcomeEffect
      <3> QED BY <2>3, <2>4, <3>2, <3>3
    <2>6. rest = left - paid
      BY <1>1, <2>1, <2>3, <2>5 DEF Outstanding
    <2> QED BY <1>1, <1>3, <2>1, <2>2, <2>5, <2>6 DEF paid
  <1> QED BY <1>2, <1>3

\* Under the same luck the smaller balance stays the smaller.
LEMMA SameLuckKeepsOrder ==
    ASSUME TypeOK, NEW i \in Invoices, NEW l \in Luck,
           NEW a \in Accounts, NEW b \in Accounts, ~IsTerminal(a.state),
           Outstanding(Amount[i], a) <= Outstanding(Amount[i], b)
    PROVE  Outstanding(Amount[i], Settled(i, a, l)) <= Outstanding(Amount[i], Settled(i, b, l))
  <1> DEFINE x == Outstanding(Amount[i], a)
             y == Outstanding(Amount[i], b)
             px == PartialAmount(x, l.amount)
             py == PartialAmount(y, l.amount)
             none == l.draw >= Hazard(ArchetypeOf[i], Age(i))
             part == FallsInPart(ArchetypeOf[i], Age(i), l.draw)
  <1>1. /\ x \in Nat /\ y \in Nat /\ x <= y
        /\ Outstanding(Amount[i], Settled(i, a, l)) =
              IF none \/ x = 0 THEN x ELSE IF part THEN x - px ELSE 0
        /\ Outstanding(Amount[i], Settled(i, b, l)) =
              IF IsTerminal(b.state) \/ none \/ y = 0 THEN y ELSE IF part THEN y - py ELSE 0
    BY SettledLeaves
  <1>2. l.amount \in Draws
    BY SharedAssumption DEF Luck
  <1>3. x # 0 => px \in 1 .. x /\ py \in 1 .. y /\ x - px <= y - py
    BY <1>1, <1>2, LargerKeepsMore
  <1>4. y # 0 => py \in 1 .. y
    BY <1>1, <1>2, LargerKeepsMore
  <1> HIDE DEF x, y, px, py, none, part
  <1> QED BY <1>1, <1>3, <1>4

\* The accounts of both books after one step: the order of the balances is
\* kept, and the book left alone keeps its type.
LEMMA StepKeepsOrder ==
    ASSUME IInv, BooksBalance, BookAlone, ChasingNeverCosts, [SharedNext]_sharedVars
    PROVE  alone' \in [Invoices -> Accounts] /\ ChasingNeverCosts'
  <1> DEFINE Kept(i) == Open(i)' <= Outstanding(Amount[i], alone[i])'
  <1>1. TypeOK /\ [Next]_vars
    BY SharedStepRuns DEF IInv
  <1>2. /\ \A i \in Invoices : Open(i)' <= Open(i)
        /\ \A i \in Invoices : Open(i) <= Outstanding(Amount[i], alone[i])
        /\ alone \in [Invoices -> Accounts]
    BY <1>1, BalancesOnlyFall DEF ChasingNeverCosts, BookAlone
  <1>3. \A i \in Invoices : accounts[i] \in Accounts /\ Open(i) \in Nat /\ Amount[i] \in Nat
    BY <1>1, OpenType
  <1>4. ASSUME alone' \in [Invoices -> Accounts],
               \A i \in Invoices : Outstanding(Amount[i], alone'[i]) = Outstanding(Amount[i], alone[i])
        PROVE  ChasingNeverCosts'
    <2> SUFFICES ASSUME NEW i \in Invoices PROVE Kept(i)
      BY DEF ChasingNeverCosts
    <2>1. TypeOK'
      BY <1>1, StepIInv DEF IInv
    <2>2. Open(i)' \in Nat
      BY <1>3, <2>1 DEF TypeOK, Accounts, Open, Outstanding
    <2>3. Outstanding(Amount[i], alone[i]) \in Nat
      BY <1>2, <1>3 DEF Outstanding, Accounts
    <2> QED BY <1>2, <1>3, <1>4, <2>2, <2>3
  <1>5. CASE alone' = alone
    BY <1>2, <1>4, <1>5
  <1>6. CASE StartReviewsOfBoth
    <2>1. \A i \in Invoices : RecordAction(alone[i], "WAIT", tick) \in Accounts
                           /\ RecordAction(alone[i], "WAIT", tick).recovered = alone[i].recovered
      BY <1>1, <1>2, ActionType DEF TypeOK, Interventions
    <2>2. /\ alone' \in [Invoices -> Accounts]
          /\ \A i \in Invoices : alone'[i].recovered = alone[i].recovered
      BY <1>2, <1>6, <2>1 DEF StartReviewsOfBoth
    <2> QED BY <1>4, <2>2 DEF Outstanding
  <1>7. CASE StartSpontaneousOfBoth
    <2>1. PICK luck \in [Active(alone) \ Active(accounts) -> Luck] :
            alone' = [i \in Invoices |-> IF i \in DOMAIN luck THEN Settled(i, alone[i], luck[i])
                                        ELSE alone[i]]
      BY <1>7 DEF StartSpontaneousOfBoth
    <2>2. phase = "promises" /\ accounts' = accounts
      BY <1>7 DEF StartSpontaneousOfBoth, StartSpontaneous, StartStep
    <2>3. \A i \in DOMAIN luck : luck[i] \in Luck /\ i \in Invoices
      BY <1>2 DEF Active
    <2>4. \A i \in DOMAIN luck : Settled(i, alone[i], luck[i]) \in Accounts
      BY <1>1, <1>2, <2>3, SettledLeaves
    <2>5. alone' \in [Invoices -> Accounts]
      BY <1>2, <2>1, <2>4
    <2>6. ASSUME NEW i \in Invoices PROVE Kept(i)
      <3>1. Open(i)' = Open(i)
        BY <2>2 DEF Open, Outstanding
      <3>2. CASE i \notin DOMAIN luck
        BY <1>2, <2>1, <3>1, <3>2
      <3>3. CASE i \in DOMAIN luck
        <4>1. i \notin Active(accounts)
          BY <3>3
        <4>2. accounts[i].state = "PAID"
          BY <1>1, <2>2, <4>1 DEF BookAlone, Active, IsTerminal, TerminalStates, TypeOK
        <4>3. Open(i) = 0
          BY <1>3, <4>2 DEF BooksBalance, Open, Outstanding
        <4>4. Outstanding(Amount[i], alone'[i]) \in Nat
          BY <1>3, <2>5 DEF Outstanding, Accounts
        <4> QED BY <3>1, <4>3, <4>4
      <3> QED BY <3>2, <3>3
    <2> QED BY <2>5, <2>6 DEF ChasingNeverCosts
  <1>8. ASSUME NEW i \in Invoices, NEW l \in Luck, i \in todo, phase = "spontaneous",
               accounts' = [accounts EXCEPT ![i] = Settled(i, @, l)],
               alone' = [alone EXCEPT ![i] = Settled(i, @, l)]
        PROVE  alone' \in [Invoices -> Accounts] /\ ChasingNeverCosts'
    <2>1. ~IsTerminal(accounts[i].state)
      BY <1>8 DEF IInv, Walks, Active
    <2>2. alone' \in [Invoices -> Accounts]
      <3>1. Settled(i, alone[i], l) \in Accounts
        BY <1>1, <1>2, SettledLeaves
      <3> QED BY <1>2, <1>8, <3>1
    <2>3. Outstanding(Amount[i], Settled(i, accounts[i], l)) <= Outstanding(Amount[i], Settled(i, alone[i], l))
      BY <1>1, <1>2, <1>3, <2>1, SameLuckKeepsOrder DEF Open
    <2>4. ASSUME NEW j \in Invoices PROVE Kept(j)
      <3>1. CASE j = i
        <4>1. accounts'[i] = Settled(i, accounts[i], l) /\ alone'[i] = Settled(i, alone[i], l)
          BY <1>1, <1>2, <1>8 DEF TypeOK
        <4> QED BY <2>3, <3>1, <4>1 DEF Open
      <3>2. CASE j # i
        <4>1. accounts'[j] = accounts[j] /\ alone'[j] = alone[j]
          BY <1>1, <1>2, <1>8, <3>2 DEF TypeOK
        <4> QED BY <1>2, <4>1 DEF Open
      <3> QED BY <3>1, <3>2
    <2> QED BY <2>2, <2>4 DEF ChasingNeverCosts
  <1>9. ASSUME NEW i \in Invoices, SettleDrawn(i)
        PROVE  alone' \in [Invoices -> Accounts] /\ ChasingNeverCosts'
    <2>1. PICK l \in Luck :
            /\ Unprompted(i, accounts[i], l) # Nothing
            /\ Apply(i, Unprompted(i, accounts[i], l))
            /\ alone' = [alone EXCEPT ![i] = Settled(i, @, l)]
      BY <1>9 DEF SettleDrawn
    <2>2. i \in todo /\ phase = "spontaneous"
      BY <1>9 DEF SettleDrawn, Visit
    <2>3. ~IsTerminal(accounts[i].state)
      BY <2>2 DEF IInv, Walks, Active
    <2>4. accounts' = [accounts EXCEPT ![i] = Settled(i, @, l)]
      BY <2>1, <2>3 DEF Apply, Settled
    <2> QED BY <1>8, <2>1, <2>2, <2>4
  <1>10. ASSUME NEW i \in Invoices, StayQuietDrawn(i)
         PROVE  alone' \in [Invoices -> Accounts] /\ ChasingNeverCosts'
    <2>1. PICK l \in Luck :
            /\ Unprompted(i, accounts[i], l) = Nothing
            /\ alone' = [alone EXCEPT ![i] = Settled(i, @, l)]
      BY <1>10 DEF StayQuietDrawn
    <2>2. i \in todo /\ phase = "spontaneous" /\ accounts' = accounts
      BY <1>10 DEF StayQuietDrawn, StayQuiet, Visit
    <2>3. accounts' = [accounts EXCEPT ![i] = Settled(i, @, l)]
      <3>1. Settled(i, accounts[i], l) = accounts[i]
        BY <2>1 DEF Settled
      <3> QED BY <1>1, <2>2, <3>1 DEF TypeOK
    <2> QED BY <1>8, <2>1, <2>2, <2>3
  <1>11. CASE UNCHANGED sharedVars \/ RestOfRun
    BY <1>5, <1>11 DEF sharedVars, RestOfRun
  <1>12. ASSUME NEW p \in pending, LandDrawn(p) \/ DropDrawn(p)
         PROVE  alone' = alone
    BY <1>12 DEF LandDrawn, DropDrawn
  <1>13. ASSUME NEW i \in Invoices, ResolveDrawn(i) \/ ReviewAsking(i)
         PROVE  alone' = alone
    BY <1>13 DEF ResolveDrawn, ReviewAsking
  <1> QED BY <1>5, <1>6, <1>7, <1>9, <1>10, <1>11, <1>12, <1>13 DEF SharedNext

\* The book left alone and the order of the two books hold together.
LEMMA BookAloneIsKept == SharedSpec => [](BookAlone /\ ChasingNeverCosts)
  <1>1. SharedInit => Init /\ BookAlone /\ ChasingNeverCosts
    <2> SUFFICES ASSUME SharedInit PROVE Init /\ BookAlone /\ ChasingNeverCosts
      OBVIOUS
    <2>1. Init /\ alone = accounts /\ alone = [i \in Invoices |-> OpeningAccount]
      BY DEF SharedInit, Init
    <2>2. TypeOK
      BY <2>1, InitIInv DEF IInv
    <2>3. \A i \in Invoices : Open(i) \in Nat
      BY <2>2, OpenType
    <2> QED BY <2>1, <2>2, <2>3 DEF BookAlone, ChasingNeverCosts, Open, OpeningAccount, TypeOK
  <1>2. IInv /\ BooksBalance /\ BookAlone /\ ChasingNeverCosts /\ [SharedNext]_sharedVars
          => BookAlone' /\ ChasingNeverCosts'
    <2> SUFFICES ASSUME IInv, BooksBalance, BookAlone, ChasingNeverCosts, [SharedNext]_sharedVars
                 PROVE  BookAlone' /\ ChasingNeverCosts'
      OBVIOUS
    <2>1. [Next]_vars
      BY SharedStepRuns DEF IInv
    <2>2. alone' \in [Invoices -> Accounts] /\ ChasingNeverCosts'
      BY StepKeepsOrder
    <2>3. phase' \notin {"finalise", "closed"} =>
             \A i \in Invoices : accounts'[i].state # "WRITTEN_OFF"
      BY <2>1, BalancesOnlyFall, BookClosesOnce DEF BookAlone, BookOpen
    <2> QED BY <2>2, <2>3 DEF BookAlone
  <1>3. SharedSpec => []IInv /\ []BooksBalance
    BY SharedImplementsRunner, RunInvariant, BooksAlwaysBalance DEF DrawsAreOutcomes
  <1> QED BY <1>1, <1>2, <1>3, PTL DEF SharedSpec

\* At every moment of every run, under every arm, the run has recovered on
\* each invoice at least what the same book, left alone under the same luck,
\* has: whatever the contacts did to the odds.
THEOREM ChasingNeverCostsAnyone == SharedSpec => []ChasingNeverCosts
  BY BookAloneIsKept, PTL

-----------------------------------------------------------------------------
(* A record nobody has touched.                                             *)

\* The invariant: the book left alone only ever waits or is paid, only a
\* record that was contacted has an answer to come or a promise to keep, and
\* an untouched record stands where the book left alone has it.
Untouched(i) == accounts[i].attempts = << >>

UntouchedInv ==
    /\ \A i \in Invoices : alone[i].state \in {"AT_RISK", "PAID"}
    /\ \A p \in pending : ~Untouched(p.invoice)
    /\ \A i \in Invoices : Untouched(i) => accounts[i].due = NoTick
    /\ UntouchedPaysAlike

\* Two open accounts with the same money end a tick alike under the same luck,
\* whatever else is on them, and luck touches neither contacts nor promises.
LEMMA SameLuckSameEnd ==
    ASSUME TypeOK, NEW i \in Invoices, NEW l \in Luck,
           NEW a \in Accounts, NEW b \in Accounts,
           ~IsTerminal(a.state), ~IsTerminal(b.state), a.recovered = b.recovered
    PROVE  LET c == Settled(i, a, l)
               d == Settled(i, b, l)
           IN  /\ c.recovered = d.recovered
               /\ c.state = "PAID" <=> d.state = "PAID"
               /\ c.attempts = a.attempts /\ c.due = a.due
               /\ d.state \in {b.state, "PAID"}
  <1> DEFINE u == Unprompted(i, a, l)
             left == Outstanding(Amount[i], a)
  <1>1. Unprompted(i, b, l) = u /\ Amount[i] \in Nat /\ tick \in Nat
    BY RunnerAssumption DEF Unprompted, Outstanding, TypeOK
  <1>2. CASE u = Nothing
    <2>1. Settled(i, a, l) = a /\ Settled(i, b, l) = b
      BY <1>1, <1>2 DEF Settled
    <2>2. a.state # "PAID" /\ b.state # "PAID"
      BY DEF IsTerminal, TerminalStates
    <2> QED BY <2>1, <2>2
  <1>3. CASE u # Nothing
    <2>1. u \in Outcomes /\ u.kind \in {"PAID_FULL", "PAID_PARTIAL"}
      <3>1. left \in Nat /\ left # 0 /\ l.amount \in Draws
        BY <1>1, <1>3, SharedAssumption DEF Unprompted, Outstanding, Accounts, Luck
      <3>2. PartialAmount(left, l.amount) \in Nat
        BY <3>1, LargerKeepsMore
      <3> HIDE DEF left
      <3>3. u \in {PartPayment(left, l.amount), Outcome("PAID_FULL", left)}
        BY <1>3 DEF Unprompted, left
      <3> QED BY <3>1, <3>2, <3>3 DEF PartPayment, Outcome, Outcomes, OutcomeKinds
    <2>2. Settled(i, a, l) = ApplyOutcome(Amount[i], a, u, tick)
          /\ Settled(i, b, l) = ApplyOutcome(Amount[i], b, u, tick)
      BY <1>1, <1>3 DEF Settled
    <2> HIDE DEF u
    <2>3. ASSUME NEW e \in Accounts, ~IsTerminal(e.state)
          PROVE  LET f == ApplyOutcome(Amount[i], e, u, tick)
                 IN  /\ f.state = IF u.kind = "PAID_FULL" THEN "PAID" ELSE e.state
                     /\ f.attempts = e.attempts /\ f.due = e.due
                     /\ f.recovered = IF e.recovered + u.amount < Amount[i]
                                      THEN e.recovered + u.amount ELSE Amount[i]
      <3>1. StateAfterOutcome(e.state, u.kind) = IF u.kind = "PAID_FULL" THEN "PAID" ELSE e.state
        BY <2>1, <2>3 DEF StateAfterOutcome, Legal, AllowedTransitions, RecordStates, IsTerminal,
                          TerminalStates, Accounts
      <3>2. u.kind # "PROMISED" /\ u.kind # "PROMISE_BROKEN"
        BY <2>1
      <3>3. ApplyOutcome(Amount[i], e, u, tick).attempts = e.attempts
        BY <1>1, <2>1, <3>2, OutcomeType
      <3>4. /\ ApplyOutcome(Amount[i], e, u, tick).state = StateAfterOutcome(e.state, u.kind)
            /\ ApplyOutcome(Amount[i], e, u, tick).due = e.due
            /\ ApplyOutcome(Amount[i], e, u, tick).recovered =
                  IF e.recovered + u.amount < Amount[i] THEN e.recovered + u.amount ELSE Amount[i]
        BY <1>1, <2>1, <3>2, OutcomeEffect
      <3> QED BY <3>1, <3>3, <3>4
    <2>4. a.state # "PAID" /\ b.state # "PAID"
      BY DEF IsTerminal, TerminalStates
    <2> QED BY <2>2, <2>3, <2>4
  <1> QED BY <1>2, <1>3

\* An outcome booked on a record that was contacted is no concern of an
\* untouched one.
LEMMA ContactedMoves ==
    ASSUME IInv, UntouchedInv, NEW j \in Invoices, ~Untouched(j),
           accounts'[j].attempts = accounts[j].attempts,
           \A i \in Invoices : i # j => accounts'[i] = accounts[i],
           pending' \subseteq pending, alone' = alone
    PROVE  UntouchedInv'
  <1>1. \A i \in Invoices : Untouched(i)' <=> Untouched(i)
    BY DEF Untouched
  <1>2. \A i \in Invoices : Untouched(i) => accounts'[i] = accounts[i]
    OBVIOUS
  <1>3. \A p \in pending' : p.invoice \in Invoices /\ p \in pending
    BY DEF IInv, TypeOK
  <1>4. UntouchedPaysAlike'
    <2>1. SUFFICES ASSUME NEW i \in Invoices, Untouched(i)'
                   PROVE  /\ accounts'[i].recovered = alone'[i].recovered
                          /\ accounts'[i].state = "PAID" <=> alone'[i].state = "PAID"
      BY DEF UntouchedPaysAlike, Untouched
    <2> QED BY <1>1, <1>2, <2>1 DEF UntouchedInv, UntouchedPaysAlike, Untouched
  <1>5. \A i \in Invoices : Untouched(i)' => accounts'[i].due = NoTick
    BY <1>1, <1>2 DEF UntouchedInv
  <1>6. \A p \in pending' : ~Untouched(p.invoice)'
    BY <1>1, <1>3 DEF UntouchedInv
  <1> QED BY <1>4, <1>5, <1>6 DEF UntouchedInv

\* A step that leaves the ledger, the answers to come and the book alone.
LEMMA NobodyMoves ==
    ASSUME IInv, UntouchedInv, accounts' = accounts, pending' \subseteq pending, alone' = alone
    PROVE  UntouchedInv'
  BY DEF UntouchedInv, UntouchedPaysAlike, Untouched

\* The same luck on the same record of both books.
LEMMA BothSettle ==
    ASSUME IInv, BookAlone, UntouchedInv, NEW i \in Invoices, NEW l \in Luck,
           ~IsTerminal(accounts[i].state),
           accounts' = [accounts EXCEPT ![i] = Settled(i, @, l)],
           alone' = [alone EXCEPT ![i] = Settled(i, @, l)],
           pending' = pending
    PROVE  UntouchedInv'
  <1>1. /\ TypeOK /\ accounts[i] \in Accounts /\ alone[i] \in Accounts
        /\ accounts'[i] = Settled(i, accounts[i], l) /\ alone'[i] = Settled(i, alone[i], l)
        /\ \A j \in Invoices : j # i => accounts'[j] = accounts[j] /\ alone'[j] = alone[j]
    BY DEF IInv, TypeOK, BookAlone
  <1>2. /\ accounts'[i].attempts = accounts[i].attempts /\ accounts'[i].due = accounts[i].due
    BY <1>1, SameLuckSameEnd
  <1>3. alone'[i].state \in {"AT_RISK", "PAID"}
    <2>1. CASE IsTerminal(alone[i].state)
      BY <1>1, <2>1 DEF Settled, UntouchedInv
    <2>2. CASE ~IsTerminal(alone[i].state)
      <3>1. alone'[i].state \in {alone[i].state, "PAID"}
        BY <1>1, <2>2, SameLuckSameEnd
      <3> QED BY <3>1 DEF UntouchedInv
    <2> QED BY <2>1, <2>2
  <1>4. Untouched(i) => /\ accounts'[i].recovered = alone'[i].recovered
                        /\ accounts'[i].state = "PAID" <=> alone'[i].state = "PAID"
    <2>1. SUFFICES ASSUME Untouched(i)
                   PROVE  /\ accounts'[i].recovered = alone'[i].recovered
                          /\ accounts'[i].state = "PAID" <=> alone'[i].state = "PAID"
      OBVIOUS
    <2>2. accounts[i].recovered = alone[i].recovered /\ ~IsTerminal(alone[i].state)
      BY <2>1 DEF UntouchedInv, UntouchedPaysAlike, Untouched, IsTerminal, TerminalStates
    <2> QED BY <1>1, <2>2, SameLuckSameEnd
  <1>5. \A j \in Invoices : Untouched(j)' <=> Untouched(j)
    BY <1>1, <1>2 DEF Untouched
  <1>6. UntouchedPaysAlike'
    <2>1. SUFFICES ASSUME NEW j \in Invoices, Untouched(j)'
                   PROVE  /\ accounts'[j].recovered = alone'[j].recovered
                          /\ accounts'[j].state = "PAID" <=> alone'[j].state = "PAID"
      BY DEF UntouchedPaysAlike, Untouched
    <2>2. CASE j = i
      BY <1>4, <1>5, <2>1, <2>2
    <2>3. CASE j # i
      BY <1>1, <1>5, <2>1, <2>3 DEF UntouchedInv, UntouchedPaysAlike, Untouched
    <2> QED BY <2>2, <2>3
  <1>7. \A j \in Invoices : Untouched(j)' => accounts'[j].due = NoTick
    BY <1>1, <1>2, <1>5 DEF UntouchedInv
  <1>8. \A p \in pending' : ~Untouched(p.invoice)'
    BY <1>1, <1>5 DEF UntouchedInv, TypeOK
  <1>9. \A j \in Invoices : alone'[j].state \in {"AT_RISK", "PAID"}
    BY <1>1, <1>3 DEF UntouchedInv
  <1> QED BY <1>6, <1>7, <1>8, <1>9 DEF UntouchedInv

\* Each step keeps the invariant.
LEMMA StepKeepsUntouched ==
    ASSUME IInv, BookAlone, UntouchedInv, [SharedNext]_sharedVars
    PROVE  UntouchedInv'
  <1>1. TypeOK /\ \A i \in Invoices : accounts[i] \in Accounts
    BY OpenType DEF IInv
  <1>2. ASSUME NEW p \in pending, LandDrawn(p) PROVE UntouchedInv'
    <2> DEFINE i == p.invoice
    <2>1. /\ i \in Invoices /\ ~Untouched(i) /\ tick < Horizon
          /\ pending' \subseteq pending /\ alone' = alone
      BY <1>1, <1>2 DEF LandDrawn, UntouchedInv, TypeOK, IInv, Walks
    <2>2. PICK draw \in SomeDraws, amount \in SomeAmounts, phrase \in PhrasesOf[i] :
            Apply(i, Response(i, draw, amount, phrase))
      BY <1>2 DEF LandDrawn
    <2> DEFINE o == Response(i, draw, amount, phrase)
    <2>3. o \in Responses(i)
      BY <2>1, ResponseIsProvidedFor, SharedAssumption
    <2> HIDE DEF o, i
    <2>4. o \in Outcomes /\ (o.kind = "PROMISED" => o.phrase \in PhrasesOf[i])
      BY <1>1, <2>1, <2>3, OutcomesOfTheRun
    <2>5. Apply(i, o)
      BY <2>2 DEF o
    <2>6. /\ accounts'[i].attempts = accounts[i].attempts
          /\ \A j \in Invoices : j # i => accounts'[j] = accounts[j]
      BY <1>1, <2>1, <2>4, <2>5, ApplyEffect
    <2> QED BY <2>1, <2>6, ContactedMoves
  <1>3. ASSUME NEW p \in pending, DropDrawn(p) PROVE UntouchedInv'
    BY <1>3, NobodyMoves DEF DropDrawn, DropResponse
  <1>4. ASSUME NEW i \in Invoices, ResolveDrawn(i) PROVE UntouchedInv'
    <2>1. ~Untouched(i) /\ pending' = pending /\ alone' = alone
      BY <1>4 DEF ResolveDrawn, PromiseDue, UntouchedInv
    <2>2. PICK draw \in SomeDraws : Apply(i, PromiseAnswer(i, draw))
      BY <1>4 DEF ResolveDrawn
    <2>3. PromiseAnswer(i, draw) \in PromiseOutcomes(i)
      BY DEF PromiseAnswer, PromiseOutcomes
    <2>4. PromiseAnswer(i, draw) \in Outcomes /\ PromiseAnswer(i, draw).kind # "PROMISED"
      BY <1>1, <2>3, OutcomesOfTheRun
    <2>5. /\ accounts'[i].attempts = accounts[i].attempts
          /\ \A j \in Invoices : j # i => accounts'[j] = accounts[j]
      BY <1>1, <2>2, <2>4, ApplyEffect
    <2> QED BY <2>1, <2>5, ContactedMoves
  <1>5. CASE StartSpontaneousOfBoth
    <2>1. PICK luck \in [Active(alone) \ Active(accounts) -> Luck] :
            alone' = [i \in Invoices |-> IF i \in DOMAIN luck THEN Settled(i, alone[i], luck[i])
                                        ELSE alone[i]]
      BY <1>5 DEF StartSpontaneousOfBoth
    <2>2. phase = "promises" /\ accounts' = accounts /\ pending' = pending
      BY <1>5 DEF StartSpontaneousOfBoth, StartSpontaneous, StartStep
    <2>3. ASSUME NEW i \in DOMAIN luck
          PROVE  /\ i \in Invoices /\ luck[i] \in Luck /\ alone[i] \in Accounts
                 /\ ~IsTerminal(alone[i].state) /\ IsTerminal(accounts[i].state)
      BY <1>1, <2>3 DEF Active, BookAlone, TypeOK
    <2>4. ASSUME NEW i \in Invoices PROVE alone'[i].state \in {"AT_RISK", "PAID"}
      <3>1. CASE i \in DOMAIN luck
        <4>1. Settled(i, alone[i], luck[i]).state \in {alone[i].state, "PAID"}
          BY <1>1, <2>3, <3>1, SameLuckSameEnd
        <4> QED BY <2>1, <3>1, <4>1 DEF UntouchedInv
      <3>2. CASE i \notin DOMAIN luck
        BY <2>1, <3>2 DEF UntouchedInv
      <3> QED BY <3>1, <3>2
    <2>5. ASSUME NEW i \in Invoices, Untouched(i) PROVE alone'[i] = alone[i]
      <3>1. CASE i \in DOMAIN luck
        <4>1. accounts[i].state = "PAID"
          BY <2>2, <2>3, <3>1 DEF BookAlone, IsTerminal, TerminalStates
        <4>2. alone[i].state = "PAID"
          BY <2>5, <4>1 DEF UntouchedInv, UntouchedPaysAlike, Untouched
        <4> QED BY <2>3, <3>1, <4>2 DEF IsTerminal, TerminalStates
      <3>2. CASE i \notin DOMAIN luck
        BY <2>1, <3>2
      <3> QED BY <3>1, <3>2
    <2> QED BY <2>2, <2>4, <2>5 DEF UntouchedInv, UntouchedPaysAlike, Untouched
  <1>6. ASSUME NEW i \in Invoices, NEW l \in Luck, i \in todo, phase = "spontaneous",
               accounts' = [accounts EXCEPT ![i] = Settled(i, @, l)],
               alone' = [alone EXCEPT ![i] = Settled(i, @, l)], pending' = pending
        PROVE  UntouchedInv'
    <2>1. ~IsTerminal(accounts[i].state)
      BY <1>6 DEF IInv, Walks, Active
    <2> QED BY <1>6, <2>1, BothSettle
  <1>7. ASSUME NEW i \in Invoices, SettleDrawn(i) PROVE UntouchedInv'
    <2>1. PICK l \in Luck :
            /\ Unprompted(i, accounts[i], l) # Nothing
            /\ Apply(i, Unprompted(i, accounts[i], l))
            /\ alone' = [alone EXCEPT ![i] = Settled(i, @, l)]
      BY <1>7 DEF SettleDrawn
    <2>2. i \in todo /\ phase = "spontaneous" /\ pending' = pending
      BY <1>7 DEF SettleDrawn, Visit
    <2>3. ~IsTerminal(accounts[i].state)
      BY <2>2 DEF IInv, Walks, Active
    <2>4. accounts' = [accounts EXCEPT ![i] = Settled(i, @, l)]
      BY <2>1, <2>3 DEF Apply, Settled
    <2> QED BY <1>6, <2>1, <2>2, <2>4
  <1>8. ASSUME NEW i \in Invoices, StayQuietDrawn(i) PROVE UntouchedInv'
    <2>1. PICK l \in Luck :
            /\ Unprompted(i, accounts[i], l) = Nothing
            /\ alone' = [alone EXCEPT ![i] = Settled(i, @, l)]
      BY <1>8 DEF StayQuietDrawn
    <2>2. i \in todo /\ phase = "spontaneous" /\ accounts' = accounts /\ pending' = pending
      BY <1>8 DEF StayQuietDrawn, StayQuiet, Visit
    <2>3. accounts' = [accounts EXCEPT ![i] = Settled(i, @, l)]
      <3>1. Settled(i, accounts[i], l) = accounts[i]
        BY <2>1 DEF Settled
      <3> QED BY <1>1, <2>2, <3>1 DEF TypeOK
    <2> QED BY <1>6, <2>1, <2>2, <2>3
  <1>9. CASE StartReviewsOfBoth
    <2>1. accounts' = accounts /\ pending' = pending
      BY <1>9 DEF StartReviewsOfBoth, StartReviews, StartStep
    <2>2. ASSUME NEW i \in Invoices
          PROVE  alone'[i].recovered = alone[i].recovered /\ alone'[i].state = alone[i].state
      <3>1. alone[i] \in Accounts /\ tick \in Nat /\ "WAIT" \in Interventions
        BY <1>1 DEF BookAlone, TypeOK, Interventions
      <3>2. /\ RecordAction(alone[i], "WAIT", tick).recovered = alone[i].recovered
            /\ RecordAction(alone[i], "WAIT", tick).state = StateAfterAction(alone[i].state, "WAIT")
        BY <3>1, ActionType
      <3>3. StateAfterAction(alone[i].state, "WAIT") = alone[i].state
        BY DEF StateAfterAction, IsContact, ContactInterventions
      <3> QED BY <1>9, <3>2, <3>3 DEF StartReviewsOfBoth
    <2> QED BY <2>1, <2>2 DEF UntouchedInv, UntouchedPaysAlike, Untouched
  <1>10. ASSUME NEW i \in Invoices, ReviewAsking(i) PROVE UntouchedInv'
    <2>1. Review(i) /\ alone' = alone
      BY <1>10 DEF ReviewAsking, Review
    <2>2. /\ \A j \in Invoices : j # i => accounts'[j] = accounts[j]
          /\ accounts'[i].recovered = accounts[i].recovered /\ accounts'[i].due = accounts[i].due
          /\ accounts[i].state # "PAID" /\ accounts'[i].state # "PAID"
      BY <2>1, ReviewMoves
    <2>3. \/ accounts'[i].attempts = accounts[i].attempts /\ pending' = pending
          \/ /\ accounts'[i].attempts = Append(accounts[i].attempts, tick)
             /\ \A p \in pending' : p \in pending \/ p.invoice = i
      <3>1. \/ \E n \in Nat : accounts'[i] = [accounts[i] EXCEPT !.nextReview = n] /\ pending' = pending
            \/ \E final \in Interventions :
                  /\ accounts'[i] = RecordAction(accounts[i], final, tick)
                  /\ pending' = IF IsContact(final)
                                THEN pending \cup {[invoice |-> i, due |-> tick + ResponseDelay]}
                                ELSE pending
        BY <1>1, <2>1, ReviewEffect DEF IInv
      <3>2. CASE \E n \in Nat : accounts'[i] = [accounts[i] EXCEPT !.nextReview = n] /\ pending' = pending
        BY <1>1, <3>2 DEF Accounts
      <3>3. ASSUME NEW final \in Interventions,
                   accounts'[i] = RecordAction(accounts[i], final, tick),
                   pending' = IF IsContact(final)
                              THEN pending \cup {[invoice |-> i, due |-> tick + ResponseDelay]}
                              ELSE pending
            PROVE  \/ accounts'[i].attempts = accounts[i].attempts /\ pending' = pending
                   \/ /\ accounts'[i].attempts = Append(accounts[i].attempts, tick)
                      /\ \A p \in pending' : p \in pending \/ p.invoice = i
        <4>1. accounts'[i].attempts =
                 IF IsContact(final) THEN Append(accounts[i].attempts, tick) ELSE accounts[i].attempts
          BY <1>1, <3>3, ActionType DEF TypeOK
        <4> QED BY <3>3, <4>1
      <3> QED BY <3>1, <3>2, <3>3
    <2>4. Append(accounts[i].attempts, tick) # << >>
      BY <1>1 DEF TypeOK, Accounts
    <2>5. \A j \in Invoices : Untouched(j)' => Untouched(j) /\ accounts'[j].due = NoTick
      BY <2>2, <2>3, <2>4 DEF Untouched, UntouchedInv
    <2>6. \A p \in pending' : ~Untouched(p.invoice)'
      BY <1>1, <2>2, <2>3, <2>4 DEF Untouched, UntouchedInv, TypeOK
    <2>7. ASSUME NEW j \in Invoices, Untouched(j)'
          PROVE  /\ accounts'[j].recovered = alone'[j].recovered
                 /\ accounts'[j].state = "PAID" <=> alone'[j].state = "PAID"
      <3>1. /\ accounts'[j].recovered = accounts[j].recovered
            /\ accounts'[j].state = "PAID" <=> accounts[j].state = "PAID"
        BY <2>2
      <3> QED BY <2>1, <2>5, <2>7, <3>1 DEF UntouchedInv, UntouchedPaysAlike, Untouched
    <2>8. UntouchedPaysAlike'
      BY <2>7 DEF UntouchedPaysAlike, Untouched
    <2> QED BY <2>1, <2>5, <2>6, <2>8 DEF UntouchedInv
  <1>11. ASSUME NEW i \in Invoices, WriteOff(i), alone' = alone PROVE UntouchedInv'
    <2> DEFINE o == Outcome("WRITTEN_OFF", 0)
    <2>1. accounts[i].state = "EXHAUSTED" /\ pending' = pending /\ Apply(i, o)
      BY <1>11 DEF WriteOff, Visit, IInv, Walks
    <2>2. o \in Outcomes /\ o.kind = "WRITTEN_OFF"
      BY DEF Outcome, Outcomes, OutcomeKinds
    <2> HIDE DEF o
    <2>3. /\ accounts'[i].attempts = accounts[i].attempts
          /\ \A j \in Invoices : j # i => accounts'[j] = accounts[j]
          /\ accounts'[i] = ApplyOutcome(Amount[i], accounts[i], o, tick)
      BY <1>1, <2>1, <2>2, ApplyEffect
    <2>4. tick \in Nat /\ Amount[i] \in Nat
      BY <1>1, OpenType DEF TypeOK
    <2>5. /\ accounts'[i].due = accounts[i].due /\ accounts'[i].recovered = accounts[i].recovered
          /\ accounts'[i].state = StateAfterOutcome("EXHAUSTED", "WRITTEN_OFF")
      BY <1>1, <2>1, <2>2, <2>3, <2>4, OutcomeEffect
    <2>6. accounts'[i].state # "PAID"
      BY <2>5 DEF StateAfterOutcome, Legal, IsTerminal, TerminalStates
    <2>7. \A j \in Invoices : /\ accounts'[j].attempts = accounts[j].attempts
                              /\ accounts'[j].due = accounts[j].due
                              /\ accounts'[j].recovered = accounts[j].recovered
                              /\ accounts'[j].state = "PAID" <=> accounts[j].state = "PAID"
      BY <2>1, <2>3, <2>5, <2>6
    <2>8. \A j \in Invoices : Untouched(j)' <=> Untouched(j)
      BY <2>7 DEF Untouched
    <2>9. \A p \in pending' : ~Untouched(p.invoice)'
      BY <1>1, <2>1, <2>8 DEF UntouchedInv, TypeOK
    <2>10. UntouchedPaysAlike'
      BY <1>11, <2>7 DEF UntouchedInv, UntouchedPaysAlike
    <2> QED BY <1>11, <2>7, <2>8, <2>9, <2>10 DEF UntouchedInv
  <1>12. CASE RestOfRun
    <2>1. CASE \E i \in Invoices : WriteOff(i)
      BY <1>11, <1>12, <2>1 DEF RestOfRun
    <2>2. CASE ~ \E i \in Invoices : WriteOff(i)
      <3>1. accounts' = accounts /\ pending' = pending /\ alone' = alone
        BY <1>12, <2>2 DEF RestOfRun, OpenRun, StartPromises, PassPromise, Advance, CloseRun,
                           Closed, StartStep, vars
      <3> QED BY <3>1, NobodyMoves
    <2> QED BY <2>1, <2>2
  <1>13. CASE UNCHANGED sharedVars
    BY <1>13, NobodyMoves DEF sharedVars, vars
  <1> QED BY <1>2, <1>3, <1>4, <1>5, <1>7, <1>8, <1>9, <1>10, <1>12, <1>13 DEF SharedNext

\* A record nobody has contacted stands, at every moment of every run, where
\* the book left alone has it, whatever was done to the rest of the book.
THEOREM UntouchedAlwaysPaysAlike == SharedSpec => []UntouchedPaysAlike
  <1>1. SharedInit => UntouchedInv
    <2> SUFFICES ASSUME SharedInit PROVE UntouchedInv
      OBVIOUS
    <2>1. /\ accounts = [i \in Invoices |-> OpeningAccount] /\ alone = accounts /\ pending = {}
      BY DEF SharedInit, Init
    <2>2. OpeningAccount.state = "AT_RISK" /\ OpeningAccount.due = NoTick
      BY DEF OpeningAccount
    <2> QED BY <2>1, <2>2 DEF UntouchedInv, UntouchedPaysAlike
  <1>2. IInv /\ BookAlone /\ UntouchedInv /\ [SharedNext]_sharedVars => UntouchedInv'
    BY StepKeepsUntouched
  <1>3. SharedSpec => []IInv /\ []BookAlone
    BY SharedImplementsRunner, RunInvariant, BookAloneIsKept, PTL DEF DrawsAreOutcomes
  <1>4. UntouchedInv => UntouchedPaysAlike
    BY DEF UntouchedInv
  <1> QED BY <1>1, <1>2, <1>3, <1>4, PTL DEF SharedSpec

-----------------------------------------------------------------------------
(* What tiredness weighs: the pay odds and the tables.                      *)

\* What eighteen contacts past the onset leave of the pay odds, in percent; every
\* later one leaves nothing.
PayCurve == <<100, 82, 67, 54, 44, 36, 29, 23, 18, 14, 11, 9, 7, 5, 4, 3, 2, 1>>

\* The recursive function that decays the pay odds is what its definition says:
\* 82 percent of the step before, rounded down. The function defined by cases on
\* the curve satisfies the equation, so one does.
LEMMA PayDecayUnfolds ==
    /\ PayDecay[0] = 100
    /\ \A n \in Nat : PayDecay[n + 1] = (PayDecay[n] * 82) \div 100
  <1> DEFINE curve == [n \in Nat |-> IF n < 18 THEN PayCurve[n + 1] ELSE 0]
             Step(f) == [n \in Nat |-> IF n = 0 THEN 100 ELSE (f[n - 1] * 82) \div 100]
  <1>1. \A n \in Nat : curve[n] = IF n = 0 THEN 100 ELSE (curve[n - 1] * 82) \div 100
    <2> SUFFICES ASSUME NEW n \in Nat
                 PROVE  curve[n] = IF n = 0 THEN 100 ELSE (curve[n - 1] * 82) \div 100
      OBVIOUS
    <2>1. CASE n = 0
      BY <2>1 DEF PayCurve
    <2>2. CASE n \in 1 .. 9
      <3>1. curve[n] = PayCurve[n + 1] /\ curve[n - 1] = PayCurve[n]
        BY <2>2
      <3> QED BY <2>2, <3>1 DEF PayCurve
    <2>3. CASE n \in 10 .. 17
      <3>1. curve[n] = PayCurve[n + 1] /\ curve[n - 1] = PayCurve[n]
        BY <2>3
      <3> QED BY <2>3, <3>1 DEF PayCurve
    <2>4. CASE n = 18
      BY <2>4 DEF PayCurve
    <2>5. CASE n > 18
      BY <2>5
    <2> QED BY <2>1, <2>2, <2>3, <2>4, <2>5
  <1>2. curve = Step(curve)
    BY <1>1
  <1>3. PayDecay = CHOOSE f : f = Step(f)
    BY DEF PayDecay
  <1>4. PayDecay = Step(PayDecay)
    <2> HIDE DEF curve, Step
    <2> QED BY <1>2, <1>3
  <1> QED BY <1>4

\* So it is the curve and then nothing; the least step off the curve is none.
LEMMA PayDecayValues ==
    \A n \in Nat : PayDecay[n] = IF n < 18 THEN PayCurve[n + 1] ELSE 0
  <1> DEFINE curve(n) == IF n < 18 THEN PayCurve[n + 1] ELSE 0
             Off == {n \in Nat : PayDecay[n] # curve(n)}
  <1>1. curve(0) = 100
    BY DEF PayCurve
  <1>2. \A n \in Nat : curve(n + 1) = (curve(n) * 82) \div 100
    BY DEF PayCurve
  <1>3. SUFFICES ASSUME Off # {} PROVE FALSE
    OBVIOUS
  <1>4. PICK n \in Off : \A m \in Off : n <= m
    <2>1. Off \in SUBSET Nat
      OBVIOUS
    <2> HIDE DEF Off
    <2> QED BY <1>3, <2>1, LeastTick
  <1>5. n # 0
    BY <1>1, <1>4, PayDecayUnfolds
  <1>6. n - 1 \in Nat /\ n - 1 \notin Off
    BY <1>4, <1>5
  <1> HIDE DEF curve
  <1>7. PayDecay[n] = curve(n)
    BY <1>2, <1>6, PayDecayUnfolds
  <1> QED BY <1>4, <1>7

\* The weight of a rung before age and fatigue; what the rungs that pay or
\* promise weigh together, and what the others do.
Base(a, q, k) == Profiles[a].odds[k] * Potency[q][k]
Paying(a, q) == Base(a, q, 1) + Base(a, q, 2) + Base(a, q, 3)
Speaking(a, q) == Base(a, q, 4) \div 10 + Base(a, q, 5) \div 10 + Base(a, q, 6) \div 10

\* The rows of PROFILES.
LEMMA OddsOf ==
    ASSUME NEW a \in Archetypes
    PROVE  /\ Archetypes = {"RELIABLE_BUT_SLOW", "CHRONIC_LATE", "DISPUTING", "DISTRESSED",
                            "SILENT", "PAID_UNRECONCILED"}
           /\ a = "RELIABLE_BUT_SLOW" => Profiles[a].odds = <<30, 10, 150, 300, 5, 20>>
           /\ a = "CHRONIC_LATE" => Profiles[a].odds = <<110, 70, 240, 220, 20, 30>>
           /\ a = "DISPUTING" => Profiles[a].odds = <<15, 30, 50, 180, 260, 45>>
           /\ a = "DISTRESSED" => Profiles[a].odds = <<20, 55, 170, 230, 20, 90>>
           /\ a = "SILENT" => Profiles[a].odds = <<30, 20, 45, 70, 10, 20>>
           /\ a = "PAID_UNRECONCILED" => Profiles[a].odds = <<40, 5, 30, 420, 30, 70>>
  BY DEF Archetypes, Profiles

\* The rows of POTENCY a contact can take.
LEMMA PotencyOf ==
    ASSUME NEW q \in ContactInterventions
    PROVE  /\ q \in {"SOFT_REMINDER", "PAYMENT_LINK", "PHONE_FOLLOWUP"}
           /\ q = "SOFT_REMINDER" => Potency[q] = <<100, 100, 100, 100, 100, 100>>
           /\ q = "PAYMENT_LINK" => Potency[q] = <<165, 165, 85, 90, 105, 115>>
           /\ q = "PHONE_FOLLOWUP" => Potency[q] = <<120, 120, 170, 145, 130, 160>>
  BY DEF ContactInterventions, Potency

\* A weight is a number.
LEMMA BaseIsNat ==
    ASSUME NEW a \in Archetypes, NEW q \in ContactInterventions, NEW k \in 1 .. 6
    PROVE  Base(a, q, k) \in Nat
  <1>1. Profiles[a].odds[k] \in Nat
    BY OddsOf
  <1>2. Potency[q][k] \in Nat
    BY PotencyOf
  <1> DEFINE x == Profiles[a].odds[k]
             y == Potency[q][k]
  <1>3. x \in Nat /\ y \in Nat
    BY <1>1, <1>2
  <1> HIDE DEF x, y
  <1>4. x * y \in Nat
    BY <1>3
  <1> QED BY <1>4 DEF Base, x, y

\* What the tables give a ladder to weigh: s for the rungs that pay or
\* promise, r for the others.
Weighs(a, q, s, r) ==
    /\ s \in 0 .. 62400 /\ r \in 0 .. 7600
    /\ \/ 10 * r + s <= 81500
       \/ s = 37900 /\ r = 5035
       \/ s = 10500 /\ r = 7600
       \/ s = 62400 /\ r = 3930 /\ a = "CHRONIC_LATE" /\ q = "PHONE_FOLLOWUP"

\* Read off the tables, one row of PROFILES and one of POTENCY at a time.
LEMMA WeightsOf ==
    ASSUME NEW a \in Archetypes, NEW q \in ContactInterventions
    PROVE  Weighs(a, q, Paying(a, q), Speaking(a, q))
  <1> DEFINE done == Weighs(a, q, Paying(a, q), Speaking(a, q))
  <1>1. CASE q = "SOFT_REMINDER"
    <2>1. ASSUME a = "RELIABLE_BUT_SLOW" PROVE done
      <3>1. Paying(a, q) = 19000 /\ Speaking(a, q) = 3250
        BY <1>1, <2>1, OddsOf, PotencyOf DEF Base, Paying, Speaking
      <3>2. Weighs(a, q, 19000, 3250)
        BY <1>1, <2>1 DEF Weighs
      <3> QED BY <3>1, <3>2
    <2>2. ASSUME a = "CHRONIC_LATE" PROVE done
      <3>1. Paying(a, q) = 42000 /\ Speaking(a, q) = 2700
        BY <1>1, <2>2, OddsOf, PotencyOf DEF Base, Paying, Speaking
      <3>2. Weighs(a, q, 42000, 2700)
        BY <1>1, <2>2 DEF Weighs
      <3> QED BY <3>1, <3>2
    <2>3. ASSUME a = "DISPUTING" PROVE done
      <3>1. Paying(a, q) = 9500 /\ Speaking(a, q) = 4850
        BY <1>1, <2>3, OddsOf, PotencyOf DEF Base, Paying, Speaking
      <3>2. Weighs(a, q, 9500, 4850)
        BY <1>1, <2>3 DEF Weighs
      <3> QED BY <3>1, <3>2
    <2>4. ASSUME a = "DISTRESSED" PROVE done
      <3>1. Paying(a, q) = 24500 /\ Speaking(a, q) = 3400
        BY <1>1, <2>4, OddsOf, PotencyOf DEF Base, Paying, Speaking
      <3>2. Weighs(a, q, 24500, 3400)
        BY <1>1, <2>4 DEF Weighs
      <3> QED BY <3>1, <3>2
    <2>5. ASSUME a = "SILENT" PROVE done
      <3>1. Paying(a, q) = 9500 /\ Speaking(a, q) = 1000
        BY <1>1, <2>5, OddsOf, PotencyOf DEF Base, Paying, Speaking
      <3>2. Weighs(a, q, 9500, 1000)
        BY <1>1, <2>5 DEF Weighs
      <3> QED BY <3>1, <3>2
    <2>6. ASSUME a = "PAID_UNRECONCILED" PROVE done
      <3>1. Paying(a, q) = 7500 /\ Speaking(a, q) = 5200
        BY <1>1, <2>6, OddsOf, PotencyOf DEF Base, Paying, Speaking
      <3>2. Weighs(a, q, 7500, 5200)
        BY <1>1, <2>6 DEF Weighs
      <3> QED BY <3>1, <3>2
    <2> HIDE DEF done
    <2>7. done
      BY <2>1, <2>2, <2>3, <2>4, <2>5, <2>6, OddsOf
    <2> QED BY <2>7 DEF done
  <1>2. CASE q = "PAYMENT_LINK"
    <2>1. ASSUME a = "RELIABLE_BUT_SLOW" PROVE done
      <3>1. Paying(a, q) = 19350 /\ Speaking(a, q) = 2982
        BY <1>2, <2>1, OddsOf, PotencyOf DEF Base, Paying, Speaking
      <3>2. Weighs(a, q, 19350, 2982)
        BY <1>2, <2>1 DEF Weighs
      <3> QED BY <3>1, <3>2
    <2>2. ASSUME a = "CHRONIC_LATE" PROVE done
      <3>1. Paying(a, q) = 50100 /\ Speaking(a, q) = 2535
        BY <1>2, <2>2, OddsOf, PotencyOf DEF Base, Paying, Speaking
      <3>2. Weighs(a, q, 50100, 2535)
        BY <1>2, <2>2 DEF Weighs
      <3> QED BY <3>1, <3>2
    <2>3. ASSUME a = "DISPUTING" PROVE done
      <3>1. Paying(a, q) = 11675 /\ Speaking(a, q) = 4867
        BY <1>2, <2>3, OddsOf, PotencyOf DEF Base, Paying, Speaking
      <3>2. Weighs(a, q, 11675, 4867)
        BY <1>2, <2>3 DEF Weighs
      <3> QED BY <3>1, <3>2
    <2>4. ASSUME a = "DISTRESSED" PROVE done
      <3>1. Paying(a, q) = 26825 /\ Speaking(a, q) = 3315
        BY <1>2, <2>4, OddsOf, PotencyOf DEF Base, Paying, Speaking
      <3>2. Weighs(a, q, 26825, 3315)
        BY <1>2, <2>4 DEF Weighs
      <3> QED BY <3>1, <3>2
    <2>5. ASSUME a = "SILENT" PROVE done
      <3>1. Paying(a, q) = 12075 /\ Speaking(a, q) = 965
        BY <1>2, <2>5, OddsOf, PotencyOf DEF Base, Paying, Speaking
      <3>2. Weighs(a, q, 12075, 965)
        BY <1>2, <2>5 DEF Weighs
      <3> QED BY <3>1, <3>2
    <2>6. ASSUME a = "PAID_UNRECONCILED" PROVE done
      <3>1. Paying(a, q) = 9975 /\ Speaking(a, q) = 4900
        BY <1>2, <2>6, OddsOf, PotencyOf DEF Base, Paying, Speaking
      <3>2. Weighs(a, q, 9975, 4900)
        BY <1>2, <2>6 DEF Weighs
      <3> QED BY <3>1, <3>2
    <2> HIDE DEF done
    <2>7. done
      BY <2>1, <2>2, <2>3, <2>4, <2>5, <2>6, OddsOf
    <2> QED BY <2>7 DEF done
  <1>3. CASE q = "PHONE_FOLLOWUP"
    <2>1. ASSUME a = "RELIABLE_BUT_SLOW" PROVE done
      <3>1. Paying(a, q) = 30300 /\ Speaking(a, q) = 4735
        BY <1>3, <2>1, OddsOf, PotencyOf DEF Base, Paying, Speaking
      <3>2. Weighs(a, q, 30300, 4735)
        BY <1>3, <2>1 DEF Weighs
      <3> QED BY <3>1, <3>2
    <2>2. ASSUME a = "CHRONIC_LATE" PROVE done
      <3>1. Paying(a, q) = 62400 /\ Speaking(a, q) = 3930
        BY <1>3, <2>2, OddsOf, PotencyOf DEF Base, Paying, Speaking
      <3>2. Weighs(a, q, 62400, 3930)
        BY <1>3, <2>2 DEF Weighs
      <3> QED BY <3>1, <3>2
    <2>3. ASSUME a = "DISPUTING" PROVE done
      <3>1. Paying(a, q) = 13900 /\ Speaking(a, q) = 6710
        BY <1>3, <2>3, OddsOf, PotencyOf DEF Base, Paying, Speaking
      <3>2. Weighs(a, q, 13900, 6710)
        BY <1>3, <2>3 DEF Weighs
      <3> QED BY <3>1, <3>2
    <2>4. ASSUME a = "DISTRESSED" PROVE done
      <3>1. Paying(a, q) = 37900 /\ Speaking(a, q) = 5035
        BY <1>3, <2>4, OddsOf, PotencyOf DEF Base, Paying, Speaking
      <3>2. Weighs(a, q, 37900, 5035)
        BY <1>3, <2>4 DEF Weighs
      <3> QED BY <3>1, <3>2
    <2>5. ASSUME a = "SILENT" PROVE done
      <3>1. Paying(a, q) = 13650 /\ Speaking(a, q) = 1465
        BY <1>3, <2>5, OddsOf, PotencyOf DEF Base, Paying, Speaking
      <3>2. Weighs(a, q, 13650, 1465)
        BY <1>3, <2>5 DEF Weighs
      <3> QED BY <3>1, <3>2
    <2>6. ASSUME a = "PAID_UNRECONCILED" PROVE done
      <3>1. Paying(a, q) = 10500 /\ Speaking(a, q) = 7600
        BY <1>3, <2>6, OddsOf, PotencyOf DEF Base, Paying, Speaking
      <3>2. Weighs(a, q, 10500, 7600)
        BY <1>3, <2>6 DEF Weighs
      <3> QED BY <3>1, <3>2
    <2> HIDE DEF done
    <2>7. done
      BY <2>1, <2>2, <2>3, <2>4, <2>5, <2>6, OddsOf
    <2> QED BY <2>7 DEF done
  <1> QED BY <1>1, <1>2, <1>3, PotencyOf

\* How the pay curve falls: pay is left after n steps, and the next takes drop.
Falls(n, pay, drop) ==
    /\ pay \in 1 .. 100 /\ drop \in 1 .. 18
    /\ n >= 2 => drop <= 14
    /\ n >= 9 => drop <= 3
    /\ n >= 10 => drop <= 2
    /\ n <= 8 => pay <= 100 - 8 * n
    /\ n \in 1 .. 9 => pay <= 86 - 4 * n

\* So the curve falls: its eighteen steps, nine at a time.
LEMMA CurveFalls ==
    ASSUME NEW n \in 0 .. 17
    PROVE  Falls(n, PayCurve[n + 1], PayCurve[n + 1] - (PayCurve[n + 1] * 82) \div 100)
  <1>1. CASE n \in 0 .. 8
    BY <1>1 DEF PayCurve, Falls
  <1>2. CASE n \in 9 .. 17
    BY <1>2 DEF PayCurve, Falls
  <1> QED BY <1>1, <1>2

\* With n contacts past the onset and rungs that weigh s and r, the next
\* contact takes at most a complaint's weight from the paying rungs, or the
\* ladder is under the ceiling.
HasRoom(s, r, n, pay, drop) ==
    \/ s * drop <= 147000
    \/ 1000 * r + 150000 * n + s * pay <= 9500000

\* Every ladder has room but that of a first call past the onset to a payer
\* who is always late.
LEMMA Headroom ==
    ASSUME NEW a, NEW q, NEW s, NEW r, Weighs(a, q, s, r),
           NEW n \in 0 .. 17, NEW pay, NEW drop, Falls(n, pay, drop)
    PROVE  \/ HasRoom(s, r, n, pay, drop)
           \/ a = "CHRONIC_LATE" /\ q = "PHONE_FOLLOWUP" /\ n = 0
  <1> DEFINE chronic == a = "CHRONIC_LATE" /\ q = "PHONE_FOLLOWUP"
             low == s * drop <= 147000
             under == 1000 * r + 150000 * n + s * pay <= 9500000
  <1>1. s \in Nat /\ r \in Nat /\ s <= 62400 /\ r <= 7600
    BY DEF Weighs
  <1>2. \/ 10 * r + s <= 81500
        \/ s = 37900 /\ r = 5035
        \/ s = 10500 /\ r = 7600
        \/ s = 62400 /\ r = 3930 /\ chronic
    BY DEF Weighs
  <1>3. /\ pay \in Nat /\ pay <= 100 /\ drop \in Nat /\ drop <= 18
        /\ n >= 2 => drop <= 14
        /\ n >= 9 => drop <= 3
        /\ n >= 10 => drop <= 2
        /\ n <= 8 => pay <= 100 - 8 * n
        /\ n >= 1 /\ n <= 9 => pay <= 86 - 4 * n
    BY DEF Falls
  <1>4. ASSUME 10 * r + s <= 81500 PROVE low \/ under
    <2>1. s * pay <= s * 100
      BY <1>1, <1>3
    <2>2. n >= 10 => s * drop <= s * 2
      BY <1>1, <1>3
    <2>3. n >= 10 => low
      BY <1>1, <1>3, <2>2
    <2>4. n <= 9 => under
      BY <1>1, <1>3, <1>4, <2>1
    <2> HIDE DEF low, under
    <2> QED BY <2>3, <2>4
  <1>5. ASSUME s = 37900, r = 5035 PROVE low \/ under
    BY <1>3, <1>5
  <1>6. ASSUME s = 10500, r = 7600 PROVE low \/ under
    BY <1>3, <1>6
  <1>7. ASSUME s = 62400, r = 3930, n # 0 PROVE low \/ under
    BY <1>3, <1>7
  <1> HIDE DEF low, under
  <1>8. low \/ under \/ (chronic /\ n = 0)
    BY <1>2, <1>4, <1>5, <1>6, <1>7
  <1>9. low \/ under => HasRoom(s, r, n, pay, drop)
    BY DEF low, under, HasRoom
  <1> QED BY <1>8, <1>9

-----------------------------------------------------------------------------
(* Rounding and rescaling keep the order of shares.                         *)

\* A quotient rounded down.
LEMMA FloorOf ==
    ASSUME NEW x \in Nat, NEW d \in Nat \ {0}, NEW y, y = x \div d
    PROVE  y \in Nat /\ y * d <= x /\ x < (y + 1) * d
  <1>1. y \in Nat /\ y * d <= x /\ x < y * d + d
    OBVIOUS
  <1>2. (y + 1) * d = y * d + d
    BY <1>1
  <1> QED BY <1>1, <1>2

\* Rounding down keeps the order of two shares.
LEMMA FloorsKeepOrder ==
    ASSUME NEW a \in Nat, NEW b \in Nat, NEW x \in Nat \ {0}, NEW y \in Nat \ {0},
           NEW c \in Nat, a * y <= b * x
    PROVE  (a * c) \div x <= (b * c) \div y
  <1> DEFINE u == (a * c) \div x
             v == (b * c) \div y
  <1>1. a * c \in Nat /\ b * c \in Nat
    OBVIOUS
  <1>2. /\ u \in Nat /\ u * x <= a * c
        /\ v \in Nat /\ b * c < (v + 1) * y
    BY <1>1, FloorOf
  <1> HIDE DEF u, v
  <1>3. SUFFICES ASSUME u >= v + 1 PROVE FALSE
    BY <1>2 DEF u, v
  <1>4. (u * x) * y <= (a * c) * y
    BY <1>2
  <1>5. (a * c) * y <= (b * c) * x
    <2>1. (a * y) * c <= (b * x) * c
      OBVIOUS
    <2> QED BY <2>1
  <1>6. (b * c) * x < ((v + 1) * y) * x
    BY <1>2
  <1>7. ((v + 1) * y) * x <= (u * y) * x
    <2>1. (v + 1) * y <= u * y
      BY <1>2, <1>3
    <2> QED BY <1>2, <2>1
  <1>8. (u * y) * x = (u * x) * y
    BY <1>2
  <1> DEFINE w1 == (u * x) * y
             w2 == (a * c) * y
             w3 == (b * c) * x
             w4 == ((v + 1) * y) * x
  <1>9. w1 \in Nat /\ w2 \in Nat /\ w3 \in Nat /\ w4 \in Nat
    BY <1>2
  <1>10. w1 <= w2 /\ w2 <= w3 /\ w3 < w4 /\ w4 <= w1
    BY <1>4, <1>5, <1>6, <1>7, <1>8
  <1> HIDE DEF w1, w2, w3, w4
  <1> QED BY <1>9, <1>10

\* Rescaling keeps the order of a rung of two ladders, when the smaller is
\* also the smaller share.
LEMMA RescaledKeepsOrder ==
    ASSUME NEW A \in [1 .. 6 -> Nat], NEW B \in [1 .. 6 -> Nat], NEW k \in 1 .. 6,
           A[k] <= B[k], A[k] * Total(B) <= B[k] * Total(A)
    PROVE  Rescaled(A)[k] <= Rescaled(B)[k]
  <1> DEFINE a == A[k]
             b == B[k]
             x == Total(A)
             y == Total(B)
  <1>1. a \in Nat /\ b \in Nat /\ x \in Nat /\ y \in Nat /\ a <= b /\ a * y <= b * x
    BY DEF Total
  <1>2. /\ Rescaled(A)[k] = IF x > MaxMass THEN (a * MaxMass) \div x ELSE a
        /\ Rescaled(B)[k] = IF y > MaxMass THEN (b * MaxMass) \div y ELSE b
    BY DEF Rescaled
  <1>3. Rescaled(A)[k] \in 0 .. a
    BY RescaledFits
  <1> HIDE DEF a, b, x, y
  <1>4. CASE x > MaxMass /\ y > MaxMass
    <2>1. (a * MaxMass) \div x <= (b * MaxMass) \div y
      BY <1>1, <1>4, FloorsKeepOrder DEF MaxMass
    <2> QED BY <1>2, <1>4, <2>1
  <1>5. CASE ~(y > MaxMass)
    BY <1>1, <1>2, <1>3, <1>5
  <1>6. CASE ~(x > MaxMass) /\ y > MaxMass
    <2> DEFINE v == (b * MaxMass) \div y
    <2>1. b * MaxMass \in Nat /\ y \in Nat \ {0}
      BY <1>1, <1>6 DEF MaxMass
    <2>2. v \in Nat /\ b * MaxMass < (v + 1) * y
      BY <2>1, FloorOf
    <2>3. Rescaled(A)[k] = a /\ Rescaled(B)[k] = v
      BY <1>2, <1>6
    <2> HIDE DEF v
    <2>4. b * x <= b * MaxMass
      BY <1>1, <1>6 DEF MaxMass
    <2>5. a * y < (v + 1) * y
      <3> DEFINE w1 == a * y
                 w2 == b * x
                 w3 == b * MaxMass
                 w4 == (v + 1) * y
      <3>1. w1 \in Nat /\ w2 \in Nat /\ w3 \in Nat /\ w4 \in Nat
        BY <1>1, <2>1, <2>2
      <3>2. w1 <= w2 /\ w2 <= w3 /\ w3 < w4
        BY <1>1, <2>2, <2>4
      <3> HIDE DEF w1, w2, w3, w4
      <3>3. w1 < w4
        BY <3>1, <3>2
      <3> QED BY <3>3 DEF w1, w4
    <2>6. a < v + 1
      <3>1. SUFFICES ASSUME a >= v + 1 PROVE FALSE
        BY <1>1, <2>2
      <3>2. a * y >= (v + 1) * y
        BY <1>1, <2>2, <3>1
      <3> QED BY <1>1, <2>2, <2>5, <3>2
    <2> QED BY <1>1, <2>2, <2>3, <2>6
  <1> QED BY <1>4, <1>5, <1>6

-----------------------------------------------------------------------------
(* What one contact more does to a ladder.                                  *)

\* The multiplier of an invoice's age is one of six.
LEMMA MultiplierOf ==
    ASSUME NEW days \in Int
    PROVE  OverdueMultiplier(days) \in {100, 79, 63, 50, 40, 35}
  <1> DEFINE steps == (days - 30) \div 30
  <1>1. CASE days <= 30
    BY <1>1 DEF OverdueMultiplier
  <1>2. CASE days > 30
    <2>1. steps \in Nat
      BY <1>2
    <2>2. OverdueMultiplier(days) = IF steps < 5 THEN <<100, 79, 63, 50, 40>>[steps + 1] ELSE 35
      BY <1>2 DEF OverdueMultiplier
    <2> HIDE DEF steps
    <2> QED BY <2>1, <2>2
  <1> QED BY <1>1, <1>2

\* What a rung of weight x has, the multiplier being m percent and the pay
\* odds p percent.
Share(x, m, p) == (x * m * p) \div 100000

\* A rung of weight x had now and has then, after the pay odds p lost d.
Faded(x, p, d, now, then) ==
    /\ now \in Nat /\ then \in Nat /\ then <= now
    /\ 1000 * now <= x * p
    /\ 1000 * (now - then) <= x * d + 1000
    /\ d = p => then = 0

\* Whatever the multiplier m, of 100.
LEMMA RungFades ==
    ASSUME NEW x \in Nat, NEW m \in 0 .. 100, NEW p \in Nat, NEW t \in 0 .. p
    PROVE  Faded(x, p, p - t, Share(x, m, p), Share(x, m, t))
  <1> DEFINE now == Share(x, m, p)
             then == Share(x, m, t)
             d == p - t
             u == x * m * p
             v == x * m * t
             h == x * p
             g == x * d
  <1>1. d \in 0 .. p /\ t = p - d
    OBVIOUS
  <1>2. x * m \in Nat /\ x * m <= x * 100
    OBVIOUS
  <1>3. u \in Nat /\ v \in Nat /\ h \in Nat /\ g \in Nat
    BY <1>2
  <1>4. (x * m) * p <= (x * 100) * p /\ (x * m) * d <= (x * 100) * d
    BY <1>2
  <1>5. (x * 100) * p = 100 * h /\ (x * 100) * d = 100 * g
    OBVIOUS
  <1>6. u <= 100 * h
    BY <1>4, <1>5
  <1>7. u - v = (x * m) * d
    BY <1>2
  <1>8. (x * m) * d \in Nat
    BY <1>2
  <1>9. v <= u /\ u <= v + 100 * g
    BY <1>3, <1>4, <1>5, <1>7, <1>8
  <1>10. now = u \div 100000 /\ then = v \div 100000 /\ (t = 0 => v = 0)
    BY <1>2 DEF Share
  <1> HIDE DEF d, now, then, u, v, h, g
  <1>11. /\ now \in Nat /\ now * 100000 <= u
         /\ then \in Nat /\ then * 100000 <= v /\ v < (then + 1) * 100000
    BY <1>3, <1>10, FloorOf
  <1>12. then <= now
    BY <1>3, <1>9, <1>10
  <1>13. 1000 * now <= h /\ 1000 * (now - then) <= g + 1000
    BY <1>3, <1>6, <1>9, <1>11
  <1>14. t = 0 => then = 0
    BY <1>10
  <1>15. Faded(x, p, d, now, then)
    BY <1>1, <1>11, <1>12, <1>13, <1>14 DEF h, g, Faded
  <1> QED BY <1>15 DEF d, now, then

\* The rungs of a ladder before the ceiling: the first three fade with p, the
\* last grows with n.
HasRungs(ladder, a, q, m, p, n) ==
    /\ ladder \in [1 .. 6 -> Nat]
    /\ ladder[1] = Share(Base(a, q, 1), m, p)
    /\ ladder[2] = Share(Base(a, q, 2), m, p)
    /\ ladder[3] = Share(Base(a, q, 3), 100, p)
    /\ ladder[4] = Base(a, q, 4) \div 10 /\ ladder[5] = Base(a, q, 5) \div 10
    /\ ladder[6] = Base(a, q, 6) \div 10 + 150 * n

\* The pay odds n contacts past the onset, and after one more.
LEMMA PayFalls ==
    ASSUME NEW n \in Nat
    PROVE  /\ PayDecay[n] \in 0 .. 100 /\ PayDecay[n + 1] \in 0 .. PayDecay[n]
           /\ PayDecay[n + 1] = (PayDecay[n] * 82) \div 100
           /\ n <= 17 => PayDecay[n] = PayCurve[n + 1]
           /\ n > 17 => PayDecay[n] = 0
  <1> DEFINE p == PayDecay[n]
             t == PayDecay[n + 1]
  <1>1. p = IF n < 18 THEN PayCurve[n + 1] ELSE 0
    BY PayDecayValues
  <1>2. t = (p * 82) \div 100
    BY PayDecayUnfolds
  <1>3. n < 18 => PayCurve[n + 1] \in 0 .. 100
    BY DEF PayCurve
  <1> HIDE DEF p, t
  <1>4. p \in 0 .. 100
    BY <1>1, <1>3
  <1>5. t \in 0 .. p
    BY <1>2, <1>4
  <1> QED BY <1>1, <1>2, <1>4, <1>5 DEF p, t

\* The ladder of a payer n contacts past the onset.
LEMMA RungsOf ==
    ASSUME NEW a \in Archetypes, NEW q \in ContactInterventions, NEW days \in Int,
           NEW n \in Nat
    PROVE  HasRungs(Masses(a, q, days, FatigueOnset + n), a, q,
                    OverdueMultiplier(days), PayDecay[n], n)
  <1> DEFINE recent == FatigueOnset + n
             m == OverdueMultiplier(days)
             p == PayDecay[n]
             B == Masses(a, q, days, recent)
             base == [k \in 1 .. 6 |-> Profiles[a].odds[k] * Potency[q][k]]
  <1>1. m \in Nat /\ p \in Nat /\ recent \in Nat
    <2>1. m \in Nat
      BY MultiplierOf
    <2>2. p \in Nat
      <3>1. p \in 0 .. 100
        BY PayFalls
      <3> HIDE DEF p
      <3> QED BY <3>1
    <2>3. recent \in Nat
      BY FatigueAssumption
    <2> QED BY <2>1, <2>2, <2>3
  <1>2. n = IF recent > FatigueOnset THEN recent - FatigueOnset ELSE 0
    BY FatigueAssumption
  <1>3. B = [k \in 1 .. 6 |->
                CASE k \in 1 .. 2 -> (base[k] * OverdueMultiplier(days) * Fatigue(recent).pay) \div 100000
                  [] k = 3 -> (base[k] * Fatigue(recent).pay) \div 1000
                  [] k \in 4 .. 5 -> base[k] \div 10
                  [] k = 6 -> base[k] \div 10 + Fatigue(recent).complaint]
    BY DEF Masses
  <1>4. /\ B[1] = Share(Base(a, q, 1), m, p)
        /\ B[2] = Share(Base(a, q, 2), m, p)
        /\ B[3] = (Base(a, q, 3) * p) \div 1000
        /\ B[4] = Base(a, q, 4) \div 10 /\ B[5] = Base(a, q, 5) \div 10
        /\ B[6] = Base(a, q, 6) \div 10 + 150 * n
    <2>1. \A k \in 1 .. 6 : base[k] = Base(a, q, k)
      BY DEF Base
    <2>2. Fatigue(recent).pay = p /\ Fatigue(recent).complaint = 150 * n
      BY <1>2 DEF Fatigue
    <2> HIDE DEF base, B, recent
    <2> QED BY <1>3, <2>1, <2>2 DEF Share
  <1> HIDE DEF m, p, B, recent, base
  <1>5. \A k \in 1 .. 6 : Base(a, q, k) \in Nat
    BY BaseIsNat
  <1>6. \A x \in Nat, d \in Nat \ {0} : x \div d \in Nat
    OBVIOUS
  <1>7. \A k \in 1 .. 6 : B[k] \in Nat
    <2>1. \A k \in 1 .. 6 : Base(a, q, k) * m * p \in Nat /\ Base(a, q, k) * p \in Nat
      BY <1>1, <1>5
    <2>2. B[1] \in Nat /\ B[2] \in Nat /\ B[3] \in Nat
      BY <1>4, <1>6, <2>1 DEF Share
    <2>3. B[4] \in Nat /\ B[5] \in Nat
      BY <1>4, <1>5, <1>6
    <2>4. B[6] \in Nat
      BY <1>4, <1>5
    <2> QED BY <2>2, <2>3, <2>4
  <1>8. B \in [1 .. 6 -> Nat]
    BY <1>3, <1>7
  <1>9. \A z \in Nat : (z * p) \div 1000 = Share(z, 100, p)
    <2> SUFFICES ASSUME NEW z \in Nat PROVE (z * p) \div 1000 = Share(z, 100, p)
      OBVIOUS
    <2> DEFINE w == z * p
    <2>1. w \in Nat /\ z * 100 * p = 100 * w
      BY <1>1
    <2> HIDE DEF w
    <2>2. w \div 1000 = (100 * w) \div 100000
      BY <2>1
    <2> QED BY <2>1, <2>2 DEF w, Share
  <1>10. HasRungs(B, a, q, m, p, n)
    BY <1>4, <1>5, <1>8, <1>9 DEF HasRungs
  <1> QED BY <1>10 DEF B, m, p, recent

\* Past the onset one contact more fades the first three rungs and adds one
\* complaint's weight to the last.
LEMMA OneContactMore ==
    ASSUME NEW a \in Archetypes, NEW q \in ContactInterventions, NEW days \in Int,
           NEW n \in Nat, NEW p, p = PayDecay[n], NEW d, d = p - PayDecay[n + 1],
           NEW B, B = Masses(a, q, days, FatigueOnset + n),
           NEW A, A = Masses(a, q, days, FatigueOnset + n + 1),
           NEW s, s = Paying(a, q), NEW r, r = Speaking(a, q)
    PROVE  /\ A \in [1 .. 6 -> Nat] /\ B \in [1 .. 6 -> Nat] /\ s \in Nat /\ r \in Nat
           /\ \A k \in 1 .. 3 : A[k] <= B[k]
           /\ A[4] = B[4] /\ A[5] = B[5] /\ A[6] = B[6] + 150
           /\ B[4] + B[5] + B[6] = r + 150 * n
           /\ 1000 * (B[1] + B[2] + B[3]) <= s * p
           /\ 1000 * (B[1] + B[2] + B[3]) - 1000 * (A[1] + A[2] + A[3]) <= s * d + 3000
           /\ n >= 17 => \A k \in 1 .. 3 : A[k] = 0
  <1> DEFINE m == OverdueMultiplier(days)
             t == PayDecay[n + 1]
  <1>1. m \in 0 .. 100
    BY MultiplierOf
  <1>2. p \in 0 .. 100 /\ t \in 0 .. p /\ d = p - t /\ (n >= 17 => t = 0)
    <2>1. n = 17 => t = 0
      BY PayDecayValues
    <2> QED BY <2>1, PayFalls
  <1>3. d \in 0 .. p /\ t = p - d
    BY <1>2
  <1>4. /\ B \in [1 .. 6 -> Nat]
        /\ B[1] = Share(Base(a, q, 1), m, p)
        /\ B[2] = Share(Base(a, q, 2), m, p)
        /\ B[3] = Share(Base(a, q, 3), 100, p)
        /\ B[4] = Base(a, q, 4) \div 10 /\ B[5] = Base(a, q, 5) \div 10
        /\ B[6] = Base(a, q, 6) \div 10 + 150 * n
    BY RungsOf DEF HasRungs
  <1>5. /\ A \in [1 .. 6 -> Nat]
        /\ A[1] = Share(Base(a, q, 1), m, t)
        /\ A[2] = Share(Base(a, q, 2), m, t)
        /\ A[3] = Share(Base(a, q, 3), 100, t)
        /\ A[4] = Base(a, q, 4) \div 10 /\ A[5] = Base(a, q, 5) \div 10
        /\ A[6] = Base(a, q, 6) \div 10 + 150 * (n + 1)
    <2>1. n + 1 \in Nat /\ FatigueOnset + (n + 1) = FatigueOnset + n + 1
      BY FatigueAssumption
    <2>2. HasRungs(Masses(a, q, days, FatigueOnset + (n + 1)), a, q, m, t, n + 1)
      BY <2>1, RungsOf
    <2> QED BY <2>1, <2>2 DEF HasRungs
  <1>6. /\ Base(a, q, 1) \in Nat /\ Base(a, q, 2) \in Nat /\ Base(a, q, 3) \in Nat
        /\ Base(a, q, 4) \in Nat /\ Base(a, q, 5) \in Nat /\ Base(a, q, 6) \in Nat
    BY BaseIsNat
  <1>7. p \in Nat /\ t \in 0 .. p /\ d = p - t /\ 100 \in 0 .. 100
    BY <1>2
  <1> HIDE DEF m, t
  <1>8. Faded(Base(a, q, 1), p, d, B[1], A[1])
    <2>1. Faded(Base(a, q, 1), p, p - t, Share(Base(a, q, 1), m, p), Share(Base(a, q, 1), m, t))
      BY <1>1, <1>6, <1>7, RungFades
    <2>2. B[1] = Share(Base(a, q, 1), m, p) /\ A[1] = Share(Base(a, q, 1), m, t)
      BY <1>4, <1>5
    <2>3. d = p - t
      BY <1>7
    <2> QED BY <2>1, <2>2, <2>3
  <1>9. Faded(Base(a, q, 2), p, d, B[2], A[2])
    <2>1. Faded(Base(a, q, 2), p, p - t, Share(Base(a, q, 2), m, p), Share(Base(a, q, 2), m, t))
      BY <1>1, <1>6, <1>7, RungFades
    <2>2. B[2] = Share(Base(a, q, 2), m, p) /\ A[2] = Share(Base(a, q, 2), m, t)
      BY <1>4, <1>5
    <2>3. d = p - t
      BY <1>7
    <2> QED BY <2>1, <2>2, <2>3
  <1>10. Faded(Base(a, q, 3), p, d, B[3], A[3])
    <2>1. Faded(Base(a, q, 3), p, p - t, Share(Base(a, q, 3), 100, p), Share(Base(a, q, 3), 100, t))
      BY <1>1, <1>6, <1>7, RungFades
    <2>2. B[3] = Share(Base(a, q, 3), 100, p) /\ A[3] = Share(Base(a, q, 3), 100, t)
      BY <1>4, <1>5
    <2>3. d = p - t
      BY <1>7
    <2> QED BY <2>1, <2>2, <2>3
  <1>11. /\ s = Base(a, q, 1) + Base(a, q, 2) + Base(a, q, 3)
         /\ r = Base(a, q, 4) \div 10 + Base(a, q, 5) \div 10 + Base(a, q, 6) \div 10
    BY DEF Paying, Speaking
  <1>12. s \in Nat /\ r \in Nat
    BY <1>6, <1>11
  <1>13. /\ s * p = Base(a, q, 1) * p + Base(a, q, 2) * p + Base(a, q, 3) * p
         /\ s * d = Base(a, q, 1) * d + Base(a, q, 2) * d + Base(a, q, 3) * d
    BY <1>2, <1>3, <1>6, <1>11
  <1>14. /\ 1000 * (B[1] + B[2] + B[3]) <= s * p
         /\ 1000 * (B[1] + B[2] + B[3]) - 1000 * (A[1] + A[2] + A[3]) <= s * d + 3000
    BY <1>2, <1>3, <1>6, <1>8, <1>9, <1>10, <1>13 DEF Faded
  <1>15. /\ A[4] = B[4] /\ A[5] = B[5] /\ A[6] = B[6] + 150
         /\ B[4] + B[5] + B[6] = r + 150 * n
    BY <1>4, <1>5, <1>6, <1>11
  <1>16. n >= 17 => A[1] = 0 /\ A[2] = 0 /\ A[3] = 0
    BY <1>2, <1>8, <1>9, <1>10 DEF Faded
  <1> QED BY <1>4, <1>5, <1>8, <1>9, <1>10, <1>12, <1>14, <1>15, <1>16 DEF Faded

\* The one step that takes more than a complaint's weight over the ceiling: the
\* first call past the onset to a payer who is always late.
LEMMA FirstTiringCall ==
    ASSUME NEW a \in Archetypes, a = "CHRONIC_LATE",
           NEW q \in ContactInterventions, q = "PHONE_FOLLOWUP", NEW days \in Int,
           NEW B, B = Masses(a, q, days, FatigueOnset),
           NEW A, A = Masses(a, q, days, FatigueOnset + 1), NEW k \in 1 .. 3
    PROVE  A[k] * Total(B) <= B[k] * Total(A)
  <1> DEFINE m == OverdueMultiplier(days)
             holds == A[k] * Total(B) <= B[k] * Total(A)
  <1>1. m \in {100, 79, 63, 50, 40, 35}
    BY MultiplierOf
  <1>2. PayDecay[0] = 100 /\ PayDecay[1] = 82
    BY PayDecayUnfolds
  <1>3. /\ Base(a, q, 1) = 13200 /\ Base(a, q, 2) = 8400 /\ Base(a, q, 3) = 40800
        /\ Base(a, q, 4) = 31900 /\ Base(a, q, 5) = 2600 /\ Base(a, q, 6) = 4800
    BY OddsOf, PotencyOf DEF Base
  <1>4. FatigueOnset + 0 = FatigueOnset /\ 0 + 1 = 1
    BY FatigueAssumption
  <1>5. HasRungs(B, a, q, m, 100, 0)
    <2>1. HasRungs(Masses(a, q, days, FatigueOnset + 0), a, q, m, PayDecay[0], 0)
      BY RungsOf
    <2> QED BY <1>4, <1>2, <2>1
  <1>6. HasRungs(A, a, q, m, 82, 1)
    <2>1. HasRungs(Masses(a, q, days, FatigueOnset + 1), a, q, m, PayDecay[1], 1)
      BY RungsOf
    <2> QED BY <1>2, <2>1
  <1> HIDE DEF m
  <1>7. /\ B[4] = 3190 /\ B[5] = 260 /\ B[6] = 480 /\ B[3] = 4080
        /\ A[4] = 3190 /\ A[5] = 260 /\ A[6] = 630 /\ A[3] = 3345
    BY <1>3, <1>5, <1>6 DEF Share, HasRungs
  <1>8. /\ B[1] = Share(13200, m, 100) /\ B[2] = Share(8400, m, 100)
        /\ A[1] = Share(13200, m, 82) /\ A[2] = Share(8400, m, 82)
    BY <1>3, <1>5, <1>6 DEF HasRungs
  <1>9. ASSUME m = 100 PROVE holds
    <2>1. B[1] = 1320 /\ B[2] = 840 /\ A[1] = 1082 /\ A[2] = 688
      BY <1>8, <1>9 DEF Share
    <2>2. Total(B) = 10170 /\ Total(A) = 9195
      BY <1>7, <2>1 DEF Total
    <2> QED BY <1>7, <2>1, <2>2
  <1>10. ASSUME m = 79 PROVE holds
    <2>1. B[1] = 1042 /\ B[2] = 663 /\ A[1] = 855 /\ A[2] = 544
      BY <1>8, <1>10 DEF Share
    <2>2. Total(B) = 9715 /\ Total(A) = 8824
      BY <1>7, <2>1 DEF Total
    <2> QED BY <1>7, <2>1, <2>2
  <1>11. ASSUME m = 63 PROVE holds
    <2>1. B[1] = 831 /\ B[2] = 529 /\ A[1] = 681 /\ A[2] = 433
      BY <1>8, <1>11 DEF Share
    <2>2. Total(B) = 9370 /\ Total(A) = 8539
      BY <1>7, <2>1 DEF Total
    <2> QED BY <1>7, <2>1, <2>2
  <1>12. ASSUME m = 50 PROVE holds
    <2>1. B[1] = 660 /\ B[2] = 420 /\ A[1] = 541 /\ A[2] = 344
      BY <1>8, <1>12 DEF Share
    <2>2. Total(B) = 9090 /\ Total(A) = 8310
      BY <1>7, <2>1 DEF Total
    <2> QED BY <1>7, <2>1, <2>2
  <1>13. ASSUME m = 40 PROVE holds
    <2>1. B[1] = 528 /\ B[2] = 336 /\ A[1] = 432 /\ A[2] = 275
      BY <1>8, <1>13 DEF Share
    <2>2. Total(B) = 8874 /\ Total(A) = 8132
      BY <1>7, <2>1 DEF Total
    <2> QED BY <1>7, <2>1, <2>2
  <1>14. ASSUME m = 35 PROVE holds
    <2>1. B[1] = 462 /\ B[2] = 294 /\ A[1] = 378 /\ A[2] = 241
      BY <1>8, <1>14 DEF Share
    <2>2. Total(B) = 8766 /\ Total(A) = 8044
      BY <1>7, <2>1 DEF Total
    <2> QED BY <1>7, <2>1, <2>2
  <1> HIDE DEF holds
  <1>15. holds
    BY <1>1, <1>9, <1>10, <1>11, <1>12, <1>13, <1>14
  <1> QED BY <1>15 DEF holds

\* A larger number times a larger number.
LEMMA ProductsKeepOrder ==
    ASSUME NEW x \in Nat, NEW y \in Nat, x <= y, NEW u \in Nat, NEW v \in Nat, u <= v
    PROVE  x * u <= y * v
  <1>1. x * u <= x * v
    OBVIOUS
  <1>2. x * v <= y * v
    OBVIOUS
  <1> QED BY <1>1, <1>2

\* So one contact more takes from each paying rung at least its share of what
\* it takes from the ladder, wherever the ceiling is in play.
LEMMA PayingRungsLoseMost ==
    ASSUME NEW a \in Archetypes, NEW q \in ContactInterventions, NEW days \in Int,
           NEW n \in Nat, NEW B, B = Masses(a, q, days, FatigueOnset + n),
           NEW A, A = Masses(a, q, days, FatigueOnset + n + 1), NEW k \in 1 .. 3
    PROVE  \/ A[k] * Total(B) <= B[k] * Total(A)
           \/ Total(A) <= MaxMass /\ Total(B) <= MaxMass
  <1> DEFINE p == PayDecay[n]
             d == p - PayDecay[n + 1]
             s == Paying(a, q)
             r == Speaking(a, q)
             x == A[1] + A[2] + A[3]
             y == B[1] + B[2] + B[3]
             z == B[4] + B[5] + B[6]
             holds == \/ A[k] * Total(B) <= B[k] * Total(A)
                      \/ Total(A) <= MaxMass /\ Total(B) <= MaxMass
  <1>1. /\ A \in [1 .. 6 -> Nat] /\ B \in [1 .. 6 -> Nat]
        /\ \A j \in 1 .. 3 : A[j] <= B[j]
        /\ n >= 17 => \A j \in 1 .. 3 : A[j] = 0
    BY OneContactMore
  <1>2. A[4] = B[4] /\ A[5] = B[5] /\ A[6] = B[6] + 150
    BY OneContactMore
  <1>3. s \in Nat /\ r \in Nat /\ z = r + 150 * n
    BY OneContactMore
  <1>4. 1000 * y <= s * p /\ 1000 * y - 1000 * x <= s * d + 3000
    BY OneContactMore
  <1>5. /\ x \in Nat /\ y \in Nat /\ z \in Nat
        /\ Total(A) = x + z + 150 /\ Total(B) = y + z
    BY <1>1, <1>2 DEF Total
  <1>6. A[k] \in Nat /\ B[k] \in Nat /\ A[k] <= B[k] /\ (n >= 17 => A[k] = 0)
    BY <1>1
  <1>7. p \in Nat /\ d \in Nat /\ (n <= 17 => Falls(n, p, d))
    <2>1. p \in 0 .. 100 /\ PayDecay[n + 1] \in 0 .. p
      BY PayFalls
    <2>2. ASSUME n <= 17 PROVE Falls(n, p, d)
      <3>1. /\ n \in 0 .. 17 /\ p = PayCurve[n + 1]
            /\ d = PayCurve[n + 1] - (PayCurve[n + 1] * 82) \div 100
        BY <2>2, PayFalls
      <3> HIDE DEF p, d
      <3>2. Falls(n, PayCurve[n + 1], PayCurve[n + 1] - (PayCurve[n + 1] * 82) \div 100)
        BY <3>1, CurveFalls
      <3> QED BY <3>1, <3>2
    <2> QED BY <2>1, <2>2
  <1>8. Weighs(a, q, s, r)
    BY WeightsOf
  <1> HIDE DEF p, d, s, r, x, y, z
  <1>9. Total(A) \in Nat /\ Total(B) \in Nat
    BY <1>5
  <1>10. ASSUME Total(B) <= Total(A) PROVE holds
    <2>1. A[k] * Total(B) <= B[k] * Total(A)
      BY <1>6, <1>9, <1>10, ProductsKeepOrder
    <2> QED BY <2>1
  <1>11. ASSUME n >= 17 PROVE holds
    <2>1. A[k] = 0
      BY <1>6, <1>11
    <2>2. A[k] * Total(B) = 0
      BY <1>9, <2>1
    <2>3. B[k] * Total(A) \in Nat
      BY <1>6, <1>9
    <2>4. A[k] * Total(B) <= B[k] * Total(A)
      BY <2>2, <2>3
    <2> QED BY <2>4
  <1>12. ASSUME n <= 17, s * d <= 147000 PROVE holds
    <2> DEFINE sd == s * d
    <2>3. sd \in Nat /\ sd <= 147000 /\ 1000 * y - 1000 * x <= sd + 3000
      BY <1>7, <1>12, <1>3, <1>4
    <2> HIDE DEF sd
    <2>1. y <= x + 150
      BY <1>5, <2>3
    <2>2. Total(B) <= Total(A)
      BY <1>5, <2>1
    <2> QED BY <1>10, <2>2
  <1>13. ASSUME n <= 17, 1000 * r + 150000 * n + s * p <= 9500000 PROVE holds
    <2> DEFINE sp == s * p
    <2>1. sp \in Nat /\ 1000 * y <= sp /\ 1000 * r + 150000 * n + sp <= 9500000
      BY <1>7, <1>13, <1>3, <1>4
    <2> HIDE DEF sp
    <2>2. y + z <= 9500
      BY <1>5, <1>3, <2>1
    <2>3. Total(B) <= MaxMass
      BY <1>5, <2>2 DEF MaxMass
    <2>4. CASE Total(B) <= Total(A)
      BY <1>10, <2>4
    <2>5. CASE ~(Total(B) <= Total(A))
      BY <1>9, <2>3, <2>5 DEF MaxMass
    <2> QED BY <2>4, <2>5
  <1>14. ASSUME a = "CHRONIC_LATE", q = "PHONE_FOLLOWUP", n = 0 PROVE holds
    <2>1. B = Masses(a, q, days, FatigueOnset) /\ A = Masses(a, q, days, FatigueOnset + 1)
      <3>1. FatigueOnset + 0 = FatigueOnset
        BY FatigueAssumption
      <3> QED BY <1>14, <3>1
    <2> QED BY <1>14, <2>1, FirstTiringCall
  <1>15. n <= 17 => \/ HasRoom(s, r, n, p, d)
                    \/ a = "CHRONIC_LATE" /\ q = "PHONE_FOLLOWUP" /\ n = 0
    <2>1. ASSUME n <= 17
          PROVE  HasRoom(s, r, n, p, d) \/ (a = "CHRONIC_LATE" /\ q = "PHONE_FOLLOWUP" /\ n = 0)
      <3>1. n \in 0 .. 17
        BY <2>1
      <3>2. Falls(n, p, d)
        BY <1>7, <2>1
      <3> QED BY <1>8, <3>1, <3>2, Headroom
    <2> QED BY <2>1
  <1>16. n <= 17 \/ n >= 17
    OBVIOUS
  <1> HIDE DEF holds
  <1>17. holds
    <2>1. HasRoom(s, r, n, p, d) /\ n <= 17 => holds
      <3>1. HasRoom(s, r, n, p, d) => \/ s * d <= 147000
                                     \/ 1000 * r + 150000 * n + s * p <= 9500000
        BY SMT DEF HasRoom
      <3> QED BY SMT, <1>12, <1>13, <3>1
    <2> QED BY <1>11, <1>14, <1>15, <1>16, <2>1
  <1> QED BY <1>17 DEF holds

\* And gives to complaints at least theirs.
LEMMA ComplaintsGainMost ==
    ASSUME NEW a \in Archetypes, NEW q \in ContactInterventions, NEW days \in Int,
           NEW n \in Nat, NEW B, B = Masses(a, q, days, FatigueOnset + n),
           NEW A, A = Masses(a, q, days, FatigueOnset + n + 1)
    PROVE  B[6] <= A[6] /\ B[6] * Total(A) <= A[6] * Total(B)
  <1> DEFINE c == B[6]
             x == A[1] + A[2] + A[3]
             y == B[1] + B[2] + B[3]
             z == B[4] + B[5] + B[6]
  <1>1. /\ A \in [1 .. 6 -> Nat] /\ B \in [1 .. 6 -> Nat]
        /\ \A j \in 1 .. 3 : A[j] <= B[j]
    BY OneContactMore
  <1>2. A[4] = B[4] /\ A[5] = B[5] /\ A[6] = c + 150
    BY OneContactMore
  <1>3. /\ x \in Nat /\ y \in Nat /\ z \in Nat /\ c \in Nat /\ x <= y /\ c <= z
        /\ Total(A) = x + z + 150 /\ Total(B) = y + z
    BY <1>1, <1>2 DEF Total
  <1> HIDE DEF c, x, y, z
  <1>4. c * (x + z + 150) <= (c + 150) * (y + z)
    <2>1. c * (x + z) <= c * (y + z)
      BY <1>3
    <2>2. c * (x + z + 150) = c * (x + z) + 150 * c
      BY <1>3
    <2>3. (c + 150) * (y + z) = c * (y + z) + 150 * (y + z)
      BY <1>3
    <2>4. 150 * c <= 150 * (y + z)
      BY <1>3
    <2> DEFINE u == c * (x + z)
               v == c * (y + z)
    <2>5. u \in Nat /\ v \in Nat
      BY <1>3
    <2> HIDE DEF u, v
    <2>6. u + 150 * c <= v + 150 * (y + z)
      BY <1>3, <2>1, <2>4, <2>5 DEF u, v
    <2> QED BY <2>2, <2>3, <2>6 DEF u, v
  <1>5. c <= A[6] /\ c * Total(A) <= A[6] * Total(B)
    BY <1>2, <1>3, <1>4
  <1> QED BY <1>5 DEF c

\* One more contact, whoever the payer, whatever the contact, the age of the
\* bill and the contacts before: the draws below which the payer pays, or
\* promises, are no more, and those on which he complains no fewer.
THEOREM OneMoreContactNeverHelps ==
    ASSUME NEW a \in Archetypes, NEW q \in ContactInterventions, NEW days \in Int,
           NEW recent \in Nat, NEW fresh, fresh = Ladder(a, q, days, recent),
           NEW tired, tired = Ladder(a, q, days, recent + 1)
    PROVE  /\ \A k \in 1 .. 3 : Reach(tired, k) <= Reach(fresh, k)
           /\ tired[6] >= fresh[6]
  <1> DEFINE B == Masses(a, q, days, recent)
             A == Masses(a, q, days, recent + 1)
             InOrder == /\ \A k \in 1 .. 6 : fresh[k] \in Nat /\ tired[k] \in Nat
                        /\ \A k \in 1 .. 3 : tired[k] <= fresh[k]
                        /\ fresh[6] <= tired[6]
  <1>1. fresh = Rescaled(B) /\ tired = Rescaled(A)
    BY DEF Ladder
  <1>2. ASSUME recent < FatigueOnset PROVE InOrder
    <2>1. Fatigue(recent) = Fatigue(FatigueOnset) /\ Fatigue(recent + 1) = Fatigue(FatigueOnset)
      BY <1>2, FatigueAssumption DEF Fatigue
    <2>2. A = Masses(a, q, days, FatigueOnset) /\ B = Masses(a, q, days, FatigueOnset)
      BY <2>1 DEF Masses
    <2>3. FatigueOnset + 0 = FatigueOnset
      BY FatigueAssumption
    <2>4. Masses(a, q, days, FatigueOnset + 0) \in [1 .. 6 -> Nat]
      BY RungsOf DEF HasRungs
    <2> HIDE DEF A, B
    <2>5. A \in [1 .. 6 -> Nat] /\ A = B
      BY <2>2, <2>3, <2>4
    <2>6. \A k \in 1 .. 6 : Rescaled(A)[k] \in Nat
      <3>1. \A k \in 1 .. 6 : A[k] \in Nat /\ Rescaled(A)[k] \in 0 .. A[k]
        BY <2>5, RescaledFits
      <3> QED BY <3>1
    <2> QED BY <1>1, <2>5, <2>6
  <1>3. ASSUME recent >= FatigueOnset PROVE InOrder
    <2> DEFINE n == recent - FatigueOnset
    <2>1. /\ n \in Nat /\ recent = FatigueOnset + n /\ recent + 1 = FatigueOnset + n + 1
      BY <1>3, FatigueAssumption
    <2> HIDE DEF n
    <2>2. B = Masses(a, q, days, FatigueOnset + n) /\ A = Masses(a, q, days, FatigueOnset + n + 1)
      BY <2>1
    <2> HIDE DEF A, B
    <2>3. /\ A \in [1 .. 6 -> Nat] /\ B \in [1 .. 6 -> Nat]
          /\ \A j \in 1 .. 3 : A[j] <= B[j]
      BY <2>1, <2>2, OneContactMore
    <2>4. \A k \in 1 .. 6 : Rescaled(A)[k] \in Nat /\ Rescaled(B)[k] \in Nat
      <3>1. \A k \in 1 .. 6 : A[k] \in Nat /\ B[k] \in Nat
        BY <2>3
      <3>2. \A k \in 1 .. 6 : Rescaled(A)[k] \in 0 .. A[k] /\ Rescaled(B)[k] \in 0 .. B[k]
        BY <2>3, RescaledFits
      <3> QED BY <3>1, <3>2
    <2>5. ASSUME NEW k \in 1 .. 3 PROVE Rescaled(A)[k] <= Rescaled(B)[k]
      <3>1. A[k] <= B[k] /\ k \in 1 .. 6
        BY <2>3
      <3>2. CASE A[k] * Total(B) <= B[k] * Total(A)
        BY <2>3, <3>1, <3>2, RescaledKeepsOrder
      <3>3. CASE Total(A) <= MaxMass /\ Total(B) <= MaxMass
        <4>1. Total(A) \in Nat /\ Total(B) \in Nat
          BY <2>3 DEF Total
        <4>2. Rescaled(A) = A /\ Rescaled(B) = B
          BY <3>3, <4>1 DEF Rescaled, MaxMass
        <4> QED BY <3>1, <4>2
      <3> QED BY <2>1, <2>2, <3>2, <3>3, PayingRungsLoseMost
    <2>6. Rescaled(B)[6] <= Rescaled(A)[6]
      <3>1. B[6] <= A[6] /\ B[6] * Total(A) <= A[6] * Total(B)
        BY <2>1, <2>2, ComplaintsGainMost
      <3> QED BY <2>3, <3>1, RescaledKeepsOrder
    <2> QED BY <1>1, <2>4, <2>5, <2>6
  <1>4. InOrder
    <2>1. recent < FatigueOnset \/ recent >= FatigueOnset
      BY FatigueAssumption
    <2> HIDE DEF InOrder
    <2> QED BY <1>2, <1>3, <2>1
  <1> HIDE DEF A, B
  <1>5. /\ fresh[1] \in Nat /\ fresh[2] \in Nat /\ fresh[3] \in Nat
        /\ tired[1] \in Nat /\ tired[2] \in Nat /\ tired[3] \in Nat
        /\ tired[1] <= fresh[1] /\ tired[2] <= fresh[2] /\ tired[3] <= fresh[3]
    BY <1>4
  <1>6. /\ Reach(fresh, 1) = fresh[1] /\ Reach(tired, 1) = tired[1]
        /\ Reach(fresh, 2) = fresh[1] + fresh[2] /\ Reach(tired, 2) = tired[1] + tired[2]
        /\ Reach(fresh, 3) = fresh[1] + fresh[2] + fresh[3]
        /\ Reach(tired, 3) = tired[1] + tired[2] + tired[3]
    BY <1>5 DEF Reach, Total
  <1>7. /\ Reach(tired, 1) <= Reach(fresh, 1) /\ Reach(tired, 2) <= Reach(fresh, 2)
        /\ Reach(tired, 3) <= Reach(fresh, 3)
    BY <1>5, <1>6
  <1> QED BY <1>4, <1>7

-----------------------------------------------------------------------------
(* Every answer is drawn from the ladder of a contact.                      *)

\* Every record is asked nothing or is asked about by a contact, and a record
\* whose answer is still to come has been: no answer is drawn from the ladder
\* of no contact.
AskedInv ==
    /\ asked \in [Invoices -> {NotAsked} \cup [intervention: ContactInterventions, recent: Nat]]
    /\ \A p \in pending : p.invoice \in Awaiting

\* Contacts of a record, once counted, are a number.
LEMMA ContactsAreCounted ==
    ASSUME TypeOK, Past, NEW i \in Invoices
    PROVE  PayerContactsSince(accounts, PayerInvoices(i), Floor(tick)) \in Nat
  <1> DEFINE recent == ContactsSince(accounts, PayerInvoices(i), Floor(tick))
  <1>1. Floor(tick) \in Nat /\ PayerInvoices(i) \in SUBSET Invoices
    BY FloorType DEF PayerInvoices, TypeOK
  <1>2. IsFiniteSet(recent)
    BY <1>1, ContactsAreFinite DEF TypeOK
  <1>3. Cardinality(recent) \in Nat
    BY <1>2, FS_CardinalityType
  <1> QED BY <1>3 DEF PayerContactsSince

\* A step that asks nobody and sends nothing.
LEMMA NobodyIsAsked ==
    ASSUME AskedInv, asked' = asked, pending' \subseteq pending
    PROVE  AskedInv'
  BY DEF AskedInv, Awaiting

\* An answer that lands, or is dropped, leaves its record asked nothing, and
\* no other answer of that record in flight.
LEMMA AnswerArrives ==
    ASSUME IInv, AskedInv, NEW p \in pending, Answered(p.invoice), pending' = pending \ {p}
    PROVE  AskedInv'
  <1> DEFINE i == p.invoice
  <1>1. i \in Invoices /\ \A q \in pending' : q \in pending /\ q.invoice \in Invoices /\ q.invoice # i
    BY DEF IInv, TypeOK, InFlight
  <1>2. asked' = [asked EXCEPT ![i] = NotAsked]
    BY DEF Answered
  <1>3. asked' \in [Invoices -> {NotAsked} \cup [intervention: ContactInterventions, recent: Nat]]
    BY <1>1, <1>2 DEF AskedInv
  <1>4. \A q \in pending' : asked'[q.invoice] = asked[q.invoice] /\ q.invoice \in Awaiting
    BY <1>1, <1>2 DEF AskedInv
  <1>5. \A q \in pending' : q.invoice \in Awaiting'
    BY <1>1, <1>4 DEF Awaiting
  <1> QED BY <1>3, <1>5 DEF AskedInv

\* A contact asks its record, and its answer is the only one it adds.
LEMMA ContactAsks ==
    ASSUME IInv, AskedInv, NEW i \in Invoices, ReviewAsking(i)
    PROVE  AskedInv'
  <1>1. TypeOK /\ Past
    BY DEF IInv
  <1>2. PICK proposal \in Proposals(i) :
          LET v == Decision(i, proposal) IN
          \/ ReviewVetoed(i, v) /\ UNCHANGED asked
          \/ /\ ReviewExecuted(i, v)
             /\ asked' = IF ~IsContact(v.final) THEN asked
                         ELSE [asked EXCEPT ![i] =
                            [intervention |-> v.final,
                             recent |-> PayerContactsSince(accounts, PayerInvoices(i), Floor(tick))]]
    BY DEF ReviewAsking
  <1> DEFINE v == Decision(i, proposal)
             fresh == [intervention |-> v.final,
                       recent |-> PayerContactsSince(accounts, PayerInvoices(i), Floor(tick))]
  <1> HIDE DEF v
  <1>3. CASE ReviewVetoed(i, v) /\ UNCHANGED asked
    <2>1. pending' = pending
      BY <1>3 DEF ReviewVetoed
    <2> QED BY <1>3, <2>1, NobodyIsAsked
  <1>4. CASE ReviewExecuted(i, v) /\ ~IsContact(v.final) /\ asked' = asked
    <2>1. pending' = pending
      BY <1>4 DEF ReviewExecuted
    <2> QED BY <1>4, <2>1, NobodyIsAsked
  <1>5. CASE ReviewExecuted(i, v) /\ IsContact(v.final) /\ asked' = [asked EXCEPT ![i] = fresh]
    <2>1. fresh \in [intervention: ContactInterventions, recent: Nat]
      BY <1>1, <1>5, ContactsAreCounted DEF IsContact
    <2>2. fresh # NotAsked
      BY <2>1 DEF NotAsked, ContactInterventions
    <2>3. pending' = pending \cup {[invoice |-> i, due |-> tick + ResponseDelay]}
      BY <1>5 DEF ReviewExecuted
    <2> HIDE DEF fresh
    <2>4. asked' \in [Invoices -> {NotAsked} \cup [intervention: ContactInterventions, recent: Nat]]
      BY <1>5, <2>1 DEF AskedInv
    <2>5. i \in Awaiting' /\ \A j \in Awaiting : j \in Awaiting'
      BY <1>5, <2>2 DEF AskedInv, Awaiting
    <2>6. \A p \in pending' : p \in pending \/ p.invoice = i
      BY <2>3
    <2>7. \A p \in pending' : p.invoice \in Awaiting'
      BY <2>5, <2>6 DEF AskedInv
    <2> QED BY <2>4, <2>7 DEF AskedInv
  <1> QED BY <1>2, <1>3, <1>4, <1>5 DEF v

\* Every step of the shared world keeps it, one step per action.
LEMMA StepKeepsAsked ==
    IInv /\ AskedInv /\ [SharedNext]_sharedVars => AskedInv'
  <1> SUFFICES ASSUME IInv, AskedInv, [SharedNext]_sharedVars PROVE AskedInv'
    OBVIOUS
  <1>1. ASSUME NEW p \in pending, LandDrawn(p) PROVE AskedInv'
    BY <1>1, AnswerArrives DEF LandDrawn
  <1>2. ASSUME NEW p \in pending, DropDrawn(p) PROVE AskedInv'
    BY <1>2, AnswerArrives DEF DropDrawn, DropResponse
  <1>3. ASSUME NEW i \in Invoices, ResolveDrawn(i) PROVE AskedInv'
    BY <1>3, NobodyIsAsked DEF ResolveDrawn
  <1>4. CASE StartSpontaneousOfBoth
    BY <1>4, NobodyIsAsked DEF StartSpontaneousOfBoth, StartSpontaneous, StartStep
  <1>5. ASSUME NEW i \in Invoices, SettleDrawn(i) PROVE AskedInv'
    BY <1>5, NobodyIsAsked DEF SettleDrawn
  <1>6. ASSUME NEW i \in Invoices, StayQuietDrawn(i) PROVE AskedInv'
    BY <1>6, NobodyIsAsked DEF StayQuietDrawn, StayQuiet
  <1>7. CASE StartReviewsOfBoth
    BY <1>7, NobodyIsAsked DEF StartReviewsOfBoth, StartReviews, StartStep
  <1>8. ASSUME NEW i \in Invoices, ReviewAsking(i) PROVE AskedInv'
    BY <1>8, ContactAsks
  <1>9. CASE RestOfRun
    <2>1. asked' = asked /\ pending' = pending
      BY <1>9 DEF RestOfRun, OpenRun, StartPromises, PassPromise, Advance, WriteOff, CloseRun,
                  Closed, StartStep, vars
    <2> QED BY <2>1, NobodyIsAsked
  <1>10. CASE UNCHANGED sharedVars
    BY <1>10, NobodyIsAsked DEF sharedVars, vars
  <1> QED BY <1>1, <1>2, <1>3, <1>4, <1>5, <1>6, <1>7, <1>8, <1>9, <1>10 DEF SharedNext

\* An answer is always drawn from the ladder of the contact it answers: no
\* response in flight belongs to a record nobody has asked.
THEOREM AnswersAreAskedFor == SharedSpec => []AskedInv
  <1>1. SharedInit => AskedInv
    BY DEF SharedInit, Init, AskedInv
  <1>2. SharedSpec => []IInv
    BY SharedImplementsRunner, RunInvariant, PTL DEF DrawsAreOutcomes
  <1> QED BY <1>1, <1>2, StepKeepsAsked, PTL DEF SharedSpec

\* In every run, whatever the onset, the archetypes and the due dates, one more
\* contact before any that waits for its answer would have made the payer no
\* likelier to pay or to promise and a complaint no less likely.
THEOREM TirednessNeverHelpsAnyone == SharedSpec => []TirednessNeverHelps
  <1>1. TypeOK /\ AskedInv => TirednessNeverHelps
    <2> SUFFICES ASSUME TypeOK, AskedInv, NEW i \in Awaiting
                 PROVE  LET tired == Ladder(ArchetypeOf[i], asked[i].intervention, Age(i), asked[i].recent + 1)
                        IN  /\ \A k \in 1 .. 3 : Reach(tired, k) <= Reach(LadderOf(i), k)
                            /\ tired[6] >= LadderOf(i)[6]
      BY DEF TirednessNeverHelps
    <2>1. i \in Invoices /\ asked[i] \in [intervention: ContactInterventions, recent: Nat]
      BY DEF AskedInv, Awaiting
    <2>2. asked[i].intervention \in ContactInterventions /\ asked[i].recent \in Nat
      BY <2>1
    <2>3. ArchetypeOf[i] \in Archetypes /\ FellDue[i] \in Int
      BY <2>1, SharedAssumption
    <2>4. Age(i) \in Int
      BY <2>3 DEF Age, TypeOK, VirtualDate, HoursSinceEpoch, EpochHour, HoursPerTick
    <2>5. LadderOf(i) = Ladder(ArchetypeOf[i], asked[i].intervention, Age(i), asked[i].recent)
      BY DEF LadderOf
    <2> QED BY <2>2, <2>3, <2>4, <2>5, OneMoreContactNeverHelps
  <1>2. IInv => TypeOK
    BY DEF IInv
  <1>3. SharedSpec => []IInv
    BY SharedImplementsRunner, RunInvariant, PTL DEF DrawsAreOutcomes
  <1> QED BY <1>1, <1>2, <1>3, AnswersAreAskedFor, PTL
=============================================================================
