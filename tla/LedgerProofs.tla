---------------------------- MODULE LedgerProofs ----------------------------
(***************************************************************************)
(* Lemmas about what the whole project is built from: the operators of      *)
(* Ledger, which say what an account operation returns for every cadence    *)
(* and every set of phrases, and the two ways the code goes over a          *)
(* collection, the least element of a set and the sum over one.             *)
(***************************************************************************)
EXTENDS Ledger, FiniteSetTheorems, WellFoundedInduction, TLAPS

-----------------------------------------------------------------------------
(* The state machine.                                                       *)

\* state_after_action and state_after_outcome never name a move the
\* transition table forbids, so Ledger.transition never raises.
LEMMA MovesAreLegal ==
    ASSUME NEW s \in RecordStates
    PROVE  /\ \A i \in Interventions :
                StateAfterAction(s, i) \in AllowedTransitions[s] \cup {s}
           /\ \A k \in OutcomeKinds :
                StateAfterOutcome(s, k) \in AllowedTransitions[s] \cup {s}
  BY DEF RecordStates, Interventions, OutcomeKinds, StateAfterAction, StateAfterOutcome,
         AllowedTransitions, Legal, IsTerminal, TerminalStates, IsContact,
         ContactInterventions

\* Nothing leaves PAID or WRITTEN_OFF.
LEMMA TerminalIsFinal ==
    ASSUME NEW s \in TerminalStates
    PROVE  /\ \A i \in Interventions : StateAfterAction(s, i) = s
           /\ \A k \in OutcomeKinds : StateAfterOutcome(s, k) = s
  BY DEF StateAfterAction, StateAfterOutcome, IsTerminal, TerminalStates, Legal,
         AllowedTransitions, RecordStates

\* Both derivations stay within the eight states.
LEMMA MovesAreStates ==
    ASSUME NEW s \in RecordStates
    PROVE  /\ \A i \in Interventions : StateAfterAction(s, i) \in RecordStates
           /\ \A k \in OutcomeKinds : StateAfterOutcome(s, k) \in RecordStates
  BY MovesAreLegal DEF RecordStates, AllowedTransitions

\* Every intervention of the table has a positive cadence.
LEMMA ReviewTicksPositive ==
    ASSUME NEW i \in Interventions
    PROVE  ReviewTicks(i) \in Nat \ {0}
  BY CadenceAssumption DEF ReviewTicks, Interventions

-----------------------------------------------------------------------------
(* The account operations return accounts, and each says which fields it    *)
(* leaves alone.                                                            *)

\* A vetoed review moves nothing but the next review.
LEMMA VetoType ==
    ASSUME NEW a \in Accounts, NEW i \in Interventions, NEW t \in Nat,
           NEW d \in Nat \cup {NoTick}
    PROVE  /\ RecordVeto(a, i, t, d) \in Accounts
           /\ RecordVeto(a, i, t, d).nextReview = NextReview(i, t, d)
           /\ RecordVeto(a, i, t, d) = [a EXCEPT !.nextReview = NextReview(i, t, d)]
<1>1. NextReview(i, t, d) \in Nat
  BY ReviewTicksPositive DEF NextReview, NoTick
<1> QED
  BY <1>1 DEF RecordVeto, Accounts

\* record_action: what it writes, field by field; the money and the promise
\* are not among it.
LEMMA ActionType ==
    ASSUME NEW a \in Accounts, NEW i \in Interventions, NEW t \in Nat
    PROVE  /\ RecordAction(a, i, t) \in Accounts
           /\ RecordAction(a, i, t).state = StateAfterAction(a.state, i)
           /\ RecordAction(a, i, t).nextReview = t + ReviewTicks(i)
           /\ RecordAction(a, i, t).recovered = a.recovered
           /\ RecordAction(a, i, t).due = a.due
           /\ RecordAction(a, i, t).links = a.links + ApiUnits(i)
           /\ RecordAction(a, i, t).attempts =
                 IF IsContact(i) THEN Append(a.attempts, t) ELSE a.attempts
           /\ RecordAction(a, i, t).resolved =
                 IF StateAfterAction(a.state, i) # a.state
                      /\ IsTerminal(StateAfterAction(a.state, i)) /\ a.resolved = NoTick
                 THEN t ELSE a.resolved
<1>1. t + ReviewTicks(i) \in Nat /\ NextReview(i, t, NoTick) = t + ReviewTicks(i)
  BY ReviewTicksPositive DEF NextReview
<1>2. a.links + ApiUnits(i) \in Nat
  BY DEF ApiUnits, Accounts
<1>3. StateAfterAction(a.state, i) \in RecordStates
  BY MovesAreStates DEF Accounts
<1>4. a.attempts \in Seq(Nat) /\ Append(a.attempts, t) \in Seq(Nat)
  BY DEF Accounts
<1> QED
  BY <1>1, <1>2, <1>3, <1>4 DEF RecordAction, Transition, Accounts

\* An outcome returns an account and leaves the review, the contacts and the
\* links alone; a promise must be one that resolves, to a tick or to nothing.
LEMMA OutcomeType ==
    ASSUME NEW a \in Accounts, NEW o \in Outcomes, NEW t \in Nat, NEW amount \in Nat,
           o.kind = "PROMISED" =>
               o.phrase \in Phrases /\ Resolve[o.phrase][t] \in Nat \cup {NoTick}
    PROVE  /\ ApplyOutcome(amount, a, o, t) \in Accounts
           /\ ApplyOutcome(amount, a, o, t).nextReview = a.nextReview
           /\ ApplyOutcome(amount, a, o, t).attempts = a.attempts
           /\ ApplyOutcome(amount, a, o, t).links = a.links
<1>1. CASE o.kind = "PROMISED"
  <2> QED
    BY <1>1 DEF ApplyOutcome, SetPromise, Transition, Accounts, RecordStates
<1>2. CASE o.kind # "PROMISED"
  <2>1. StateAfterOutcome(a.state, o.kind) \in RecordStates
    BY MovesAreStates DEF Accounts, Outcomes
  <2>2. o.amount \in Nat /\ a.recovered \in Nat
    BY DEF Outcomes, Accounts
  <2> DEFINE credited == IF a.recovered + o.amount < amount
                         THEN a.recovered + o.amount ELSE amount
             booked == [a EXCEPT
                 !.recovered = IF o.kind \in {"PAID_FULL", "PAID_PARTIAL"} THEN credited ELSE @,
                 !.phrase = IF o.kind = "PROMISE_BROKEN" THEN NoPhrase ELSE @,
                 !.due = IF o.kind = "PROMISE_BROKEN" THEN NoTick ELSE @]
  <2>3. credited \in Nat
    BY <2>2
  <2>4. /\ booked \in Accounts
        /\ booked.nextReview = a.nextReview /\ booked.attempts = a.attempts
        /\ booked.links = a.links
    BY <2>3 DEF Accounts
  <2>5. ApplyOutcome(amount, a, o, t) = Transition(booked, StateAfterOutcome(a.state, o.kind), t)
    BY <1>2 DEF ApplyOutcome, RecordOutcome
  <2> HIDE DEF booked
  <2> QED
    BY <2>1, <2>4, <2>5 DEF Transition, Accounts
<1> QED
  BY <1>1, <1>2

\* What an outcome does to the state, the money and the promise.
LEMMA OutcomeEffect ==
    ASSUME NEW a \in Accounts, NEW o \in Outcomes, NEW t \in Nat, NEW amount \in Nat
    PROVE  LET b == ApplyOutcome(amount, a, o, t)
           IN  /\ o.kind = "PROMISED" =>
                     /\ b.due = Resolve[o.phrase][t]
                     /\ b.recovered = a.recovered /\ b.resolved = a.resolved
                     /\ b.state = IF b.due # NoTick /\ "PROMISED" \in AllowedTransitions[a.state]
                                  THEN "PROMISED" ELSE a.state
               /\ o.kind # "PROMISED" =>
                     /\ b.state = StateAfterOutcome(a.state, o.kind)
                     /\ b.due = IF o.kind = "PROMISE_BROKEN" THEN NoTick ELSE a.due
                     /\ b.recovered = IF o.kind \notin {"PAID_FULL", "PAID_PARTIAL"} THEN a.recovered
                                      ELSE IF a.recovered + o.amount < amount
                                           THEN a.recovered + o.amount ELSE amount
                     /\ b.resolved = IF b.state # a.state /\ IsTerminal(b.state)
                                          /\ a.resolved = NoTick
                                     THEN t ELSE a.resolved
<1>1. CASE o.kind = "PROMISED"
  <2> DEFINE noted == [a EXCEPT !.phrase = o.phrase, !.due = Resolve[o.phrase][t]]
  <2>1. /\ noted.due = Resolve[o.phrase][t] /\ noted.state = a.state
        /\ noted.recovered = a.recovered /\ noted.resolved = a.resolved
    BY DEF Accounts
  <2>2. LET moved == Transition(noted, "PROMISED", t)
        IN  /\ moved.due = noted.due /\ moved.recovered = a.recovered
            /\ moved.resolved = a.resolved /\ moved.state = "PROMISED"
    BY <2>1 DEF Transition, IsTerminal, TerminalStates, Accounts
  <2>3. ApplyOutcome(amount, a, o, t) =
            IF Resolve[o.phrase][t] # NoTick /\ "PROMISED" \in AllowedTransitions[a.state]
            THEN Transition(noted, "PROMISED", t) ELSE noted
    BY <1>1 DEF ApplyOutcome, SetPromise
  <2> HIDE DEF noted
  <2> QED
    BY <1>1, <2>1, <2>2, <2>3
<1>2. CASE o.kind # "PROMISED"
  <2> DEFINE credited == IF a.recovered + o.amount < amount
                         THEN a.recovered + o.amount ELSE amount
             booked == [a EXCEPT
                 !.recovered = IF o.kind \in {"PAID_FULL", "PAID_PARTIAL"} THEN credited ELSE @,
                 !.phrase = IF o.kind = "PROMISE_BROKEN" THEN NoPhrase ELSE @,
                 !.due = IF o.kind = "PROMISE_BROKEN" THEN NoTick ELSE @]
             target == StateAfterOutcome(a.state, o.kind)
  <2>1. /\ booked.state = a.state /\ booked.resolved = a.resolved
        /\ booked.due = IF o.kind = "PROMISE_BROKEN" THEN NoTick ELSE a.due
        /\ booked.recovered = IF o.kind \notin {"PAID_FULL", "PAID_PARTIAL"} THEN a.recovered
                              ELSE credited
        /\ DOMAIN booked = DOMAIN a
    BY DEF Accounts
  <2>2. ApplyOutcome(amount, a, o, t) = Transition(booked, target, t)
    BY <1>2 DEF ApplyOutcome, RecordOutcome
  <2>3. DOMAIN a = {"state", "nextReview", "recovered", "phrase", "due", "resolved",
                    "attempts", "links"}
    BY DEF Accounts
  <2> HIDE DEF booked, target
  <2>4. LET b == Transition(booked, target, t)
        IN  /\ b.state = target /\ b.due = booked.due /\ b.recovered = booked.recovered
            /\ b.resolved = IF target # booked.state /\ IsTerminal(target)
                                /\ booked.resolved = NoTick
                            THEN t ELSE booked.resolved
    BY <2>1, <2>3 DEF Transition
  <2> QED
    BY <1>2, <2>1, <2>2, <2>4 DEF target
<1> QED
  BY <1>1, <1>2

-----------------------------------------------------------------------------
(* Least and greatest.                                                      *)

\* A non-empty set of ticks has a least element.
LEMMA LeastTick ==
    ASSUME NEW T \in SUBSET Nat, T # {}
    PROVE  \E x \in T : \A y \in T : x <= y
<1>1. PICK x \in T : \A y \in T : ~ (<<y, x>> \in OpToRel(<, Nat))
  BY NatLessThanWellFounded, WFMin
<1>2. \A y \in T : ~(y < x)
  BY <1>1 DEF OpToRel
<1> QED
  BY <1>2

\* A non-empty set of ticks that lies in the past has a greatest element.
LEMMA GreatestTick ==
    ASSUME NEW n \in Nat, NEW T \in SUBSET (0 .. n), T # {}
    PROVE  \E x \in T : \A y \in T : y <= x
<1> DEFINE Back == {n - t : t \in T}
<1>0. \A t \in T : t \in Int /\ n - t \in Nat
  OBVIOUS
<1>1. Back \in SUBSET Nat /\ Back # {}
  BY <1>0
<1>2. PICK b \in Back : \A c \in Back : b <= c
  BY <1>1, LeastTick
<1>3. PICK x \in T : b = n - x
  BY <1>2
<1>4. \A y \in T : n - x <= n - y
  BY <1>2, <1>3
<1>5. \A y \in T : y <= x
  BY <1>0, <1>4
<1> QED
  BY <1>5

-----------------------------------------------------------------------------
(* Sums.                                                                    *)

\* What SumFunctionOnSet(f, S) computes: a function on the subsets of S whose value at
\* each adds one element, the one CHOOSE picks, to the value at the rest.
Pick(s) == CHOOSE x \in s : TRUE

Adds(f, S, g) ==
    g = [s \in SUBSET S |-> IF s = {} THEN 0 ELSE f[Pick(s)] + g[s \ {Pick(s)}]]

\* A sum is the value at the whole set of the function CHOOSE picks.
LEMMA SumIsChosen ==
    ASSUME NEW f, NEW S
    PROVE  SumFunctionOnSet(f, S) = (CHOOSE g : Adds(f, S, g))[S]
  BY DEF SumFunctionOnSet, FoldFunctionOnSet, MapThenFoldSet, Adds, Pick

\* Of any family of subsets of a finite set one has no smaller one in it.
LEMMA SmallestSet ==
    ASSUME NEW S, IsFiniteSet(S), NEW P \in SUBSET (SUBSET S), P # {}
    PROVE  \E T \in P : \A U \in P : U \subseteq T => U = T
  <1>1. \A T \in P : IsFiniteSet(T) /\ Cardinality(T) \in Nat
    BY FS_Subset, FS_CardinalityType
  <1> DEFINE sizes == {Cardinality(T) : T \in P}
  <1>2. sizes \in SUBSET Nat /\ sizes # {}
    BY <1>1
  <1>3. PICK n \in sizes : \A m \in sizes : n <= m
    BY <1>2, LeastTick
  <1>4. PICK T \in P : Cardinality(T) = n
    BY <1>3
  <1>5. ASSUME NEW U \in P, U \subseteq T PROVE U = T
    <2>1. Cardinality(T) <= Cardinality(U)
      BY <1>3, <1>4
    <2>2. Cardinality(U) <= Cardinality(T) /\ (Cardinality(T) = Cardinality(U) => T = U)
      BY <1>1, <1>5, FS_Subset
    <2> QED BY <1>1, <2>1, <2>2
  <1> QED BY <1>4, <1>5

\* What is picked of a set is in it, and leaves less than the set.
LEMMA PickIsIn ==
    ASSUME NEW s, s # {}
    PROVE  Pick(s) \in s /\ s \ {Pick(s)} \subseteq s /\ s \ {Pick(s)} # s
  BY DEF Pick

\* Two such functions agree wherever they both are defined.
LEMMA AddsAgree ==
    ASSUME NEW S, IsFiniteSet(S), NEW A \in SUBSET S, NEW B \in SUBSET S,
           NEW f, NEW g, NEW h, Adds(f, A, g), Adds(f, B, h),
           NEW s \in SUBSET A, s \in SUBSET B
    PROVE  g[s] = h[s]
  <1> DEFINE P == {u \in SUBSET S : u \subseteq A /\ u \subseteq B /\ g[u] # h[u]}
  <1>1. SUFFICES ASSUME P # {} PROVE FALSE
    OBVIOUS
  <1>2. PICK T \in P : \A U \in P : U \subseteq T => U = T
    <2>1. P \in SUBSET (SUBSET S)
      OBVIOUS
    <2> HIDE DEF P
    <2> QED BY <1>1, <2>1, SmallestSet
  <1>3. /\ g[T] = IF T = {} THEN 0 ELSE f[Pick(T)] + g[T \ {Pick(T)}]
        /\ h[T] = IF T = {} THEN 0 ELSE f[Pick(T)] + h[T \ {Pick(T)}]
    BY <1>2 DEF Adds
  <1>4. T # {}
    BY <1>2, <1>3
  <1>5. T \ {Pick(T)} \notin P
    BY <1>2, <1>4, PickIsIn
  <1>6. g[T \ {Pick(T)}] = h[T \ {Pick(T)}]
    BY <1>2, <1>5
  <1> QED BY <1>2, <1>3, <1>6

\* There is one for every finite set.
LEMMA AddsExists ==
    ASSUME NEW S, IsFiniteSet(S), NEW f
    PROVE  \A A \in SUBSET S : \E g : Adds(f, A, g)
  <1> DEFINE P == {A \in SUBSET S : ~ \E g : Adds(f, A, g)}
  <1>1. SUFFICES ASSUME P # {} PROVE FALSE
    OBVIOUS
  <1>2. PICK T \in P : \A U \in P : U \subseteq T => U = T
    <2>1. P \in SUBSET (SUBSET S)
      OBVIOUS
    <2> HIDE DEF P
    <2> QED BY <1>1, <2>1, SmallestSet
  <1> DEFINE below(U) == CHOOSE g : Adds(f, U, g)
             h == [s \in SUBSET T |->
                      IF s = {} THEN 0
                      ELSE IF s = T THEN f[Pick(T)] + below(T \ {Pick(T)})[T \ {Pick(T)}]
                      ELSE below(s)[s]]
  <1>3. ASSUME NEW U \in SUBSET T, U # T PROVE Adds(f, U, below(U))
    <2>1. U \notin P
      BY <1>2, <1>3
    <2> QED BY <1>2, <2>1
  <1>4. ASSUME NEW s \in SUBSET T, s # {}
        PROVE  h[s] = f[Pick(s)] + h[s \ {Pick(s)}]
    <2> DEFINE r == s \ {Pick(s)}
    <2>1. r \subseteq s /\ r # s /\ r \in SUBSET T /\ r # T
      BY <1>4, PickIsIn
    <2>2. Adds(f, r, below(r))
      BY <1>3, <2>1
    <2>3. h[r] = below(r)[r]
      <3>1. CASE r = {}
        BY <2>2, <3>1 DEF Adds
      <3>2. CASE r # {}
        BY <2>1, <3>2
      <3> QED BY <3>1, <3>2
    <2>4. CASE s = T
      BY <1>4, <2>3, <2>4
    <2>5. CASE s # T
      <3>1. Adds(f, s, below(s))
        BY <1>3, <2>5
      <3>2. h[s] = below(s)[s]
        BY <1>4, <2>5
      <3> HIDE DEF below
      <3>3. below(s)[s] = f[Pick(s)] + below(s)[r]
        BY <1>4, <3>1 DEF Adds
      <3>4. below(s)[r] = below(r)[r]
        BY <1>2, <2>1, <2>2, <3>1, AddsAgree
      <3> QED BY <2>3, <3>2, <3>3, <3>4
    <2> QED BY <2>4, <2>5
  <1>5. h = [s \in SUBSET T |-> IF s = {} THEN 0 ELSE f[Pick(s)] + h[s \ {Pick(s)}]]
    <2>0. h[{}] = 0
      OBVIOUS
    <2>1. \A s \in SUBSET T : h[s] = IF s = {} THEN 0 ELSE f[Pick(s)] + h[s \ {Pick(s)}]
      <3> HIDE DEF h
      <3> QED BY <1>4, <2>0
    <2>2. h = [s \in SUBSET T |-> h[s]]
      OBVIOUS
    <2> HIDE DEF h
    <2> QED BY <2>1, <2>2
  <1>6. Adds(f, T, h)
    BY <1>5 DEF Adds
  <1> QED BY <1>2, <1>6

\* So the sum of nothing is nothing, and any other adds one element to the
\* sum of the rest.
LEMMA SumUnfolds ==
    ASSUME NEW S, IsFiniteSet(S), NEW f
    PROVE  /\ SumFunctionOnSet(f, {}) = 0
           /\ S # {} => SumFunctionOnSet(f, S) = f[Pick(S)] + SumFunctionOnSet(f, S \ {Pick(S)})
  <1> DEFINE of(A) == CHOOSE g : Adds(f, A, g)
  <1>1. \A A \in SUBSET S : Adds(f, A, of(A)) /\ SumFunctionOnSet(f, A) = of(A)[A]
    BY AddsExists, SumIsChosen
  <1> HIDE DEF of
  <1>2. SumFunctionOnSet(f, {}) = 0
    BY <1>1 DEF Adds
  <1>3. ASSUME S # {} PROVE SumFunctionOnSet(f, S) = f[Pick(S)] + SumFunctionOnSet(f, S \ {Pick(S)})
    <2> DEFINE r == S \ {Pick(S)}
    <2>1. r \in SUBSET S /\ r \in SUBSET r /\ S \in SUBSET S
      OBVIOUS
    <2>2. of(S)[S] = f[Pick(S)] + of(S)[r]
      BY <1>1, <1>3 DEF Adds
    <2>3. of(S)[r] = of(r)[r]
      <3>1. Adds(f, S, of(S)) /\ Adds(f, r, of(r))
        BY <1>1, <2>1
      <3> HIDE DEF r
      <3> QED BY <2>1, <3>1, AddsAgree
    <2> QED BY <1>1, <2>1, <2>2, <2>3
  <1> QED BY <1>2, <1>3

\* Whichever element is taken out, the sum is it and the sum of the rest.
LEMMA SumTakesOut ==
    ASSUME NEW S, IsFiniteSet(S), NEW f, \A x \in S : f[x] \in Nat
    PROVE  \A A \in SUBSET S :
              /\ SumFunctionOnSet(f, A) \in Nat
              /\ \A x \in A : SumFunctionOnSet(f, A) = f[x] + SumFunctionOnSet(f, A \ {x})
  <1> DEFINE sum(A) == SumFunctionOnSet(f, A)
             P == {A \in SUBSET S : ~ /\ sum(A) \in Nat
                                      /\ \A x \in A : sum(A) = f[x] + sum(A \ {x})}
  <1>1. SUFFICES ASSUME P # {} PROVE FALSE
    OBVIOUS
  <1>2. P \in SUBSET (SUBSET S)
    OBVIOUS
  <1> HIDE DEF P
  <1>3. PICK T \in P : \A U \in P : U \subseteq T => U = T
    BY <1>1, <1>2, SmallestSet
  <1> USE DEF P
  <1>4. \A U \in SUBSET T : U # T =>
           /\ sum(U) \in Nat /\ \A x \in U : sum(U) = f[x] + sum(U \ {x})
    BY <1>3
  <1>5. sum({}) = 0
    BY SumUnfolds
  <1>6. T # {} => sum(T) = f[Pick(T)] + sum(T \ {Pick(T)})
    <2>1. IsFiniteSet(T)
      BY <1>3, FS_Subset
    <2> QED BY <2>1, SumUnfolds
  <1> HIDE DEF sum
  <1>7. CASE T = {}
    <2>1. sum(T) = sum({})
      BY <1>7, Zenon
    <2>2. sum(T) \in Nat
      BY <1>5, <2>1
    <2> QED BY <1>3, <1>7, <2>2
  <1>8. CASE T # {}
    <2> DEFINE p == Pick(T)
               r == T \ {p}
    <2>1. p \in T /\ r \in SUBSET T /\ r # T /\ f[p] \in Nat
      BY <1>3, <1>8, PickIsIn
    <2> HIDE DEF p
    <2>2. sum(T) = f[p] + sum(r) /\ sum(r) \in Nat
      BY <1>3, <1>4, <1>6, <1>8, <2>1 DEF p
    <2>3. ASSUME NEW x \in T PROVE sum(T) = f[x] + sum(T \ {x})
      <3>1. CASE x = p
        BY <2>2, <3>1
      <3>2. CASE x # p
        <4> DEFINE both == (T \ {p}) \ {x}
        <4>1. sum(r) = f[x] + sum(both)
          BY <1>4, <2>1, <3>2
        <4>2. (T \ {x}) \ {p} = both
          OBVIOUS
        <4>3. sum(T \ {x}) = f[p] + sum(both)
          <5>1. T \ {x} \in SUBSET T /\ T \ {x} # T /\ p \in T \ {x}
            BY <2>1, <3>2
          <5> QED BY <1>4, <4>2, <5>1
        <4>4. f[x] \in Nat /\ sum(both) \in Nat
          <5>1. both \in SUBSET T /\ both # T
            BY <2>1
          <5> QED BY <1>3, <1>4, <5>1
        <4> HIDE DEF both
        <4> QED BY <2>1, <2>2, <4>1, <4>3, <4>4
      <3> QED BY <3>1, <3>2
    <2> QED BY <1>3, <2>1, <2>2, <2>3
  <1> QED BY <1>7, <1>8

\* The sum looks at nothing outside the set.
LEMMA SumAgrees ==
    ASSUME NEW S, IsFiniteSet(S), NEW f, NEW g,
           \A x \in S : f[x] \in Nat /\ f[x] = g[x]
    PROVE  SumFunctionOnSet(f, S) = SumFunctionOnSet(g, S)
  <1> DEFINE P == {A \in SUBSET S : SumFunctionOnSet(f, A) # SumFunctionOnSet(g, A)}
  <1>1. SUFFICES ASSUME P # {} PROVE FALSE
    OBVIOUS
  <1>2. P \in SUBSET (SUBSET S)
    OBVIOUS
  <1> HIDE DEF P
  <1>3. PICK T \in P : \A U \in P : U \subseteq T => U = T
    BY <1>1, <1>2, SmallestSet
  <1> USE DEF P
  <1>4. /\ SumFunctionOnSet(f, {}) = 0 /\ SumFunctionOnSet(g, {}) = 0
        /\ T # {} => /\ SumFunctionOnSet(f, T) = f[Pick(T)] + SumFunctionOnSet(f, T \ {Pick(T)})
                     /\ SumFunctionOnSet(g, T) = g[Pick(T)] + SumFunctionOnSet(g, T \ {Pick(T)})
    BY <1>3, FS_Subset, SumUnfolds
  <1>5. T # {}
    BY <1>3, <1>4
  <1>6. Pick(T) \in T /\ T \ {Pick(T)} \notin P
    BY <1>3, <1>5, PickIsIn
  <1> QED BY <1>3, <1>4, <1>5, <1>6

\* Nothing adds up to nothing.
LEMMA SumOfNothing ==
    ASSUME NEW S, IsFiniteSet(S), NEW f, \A x \in S : f[x] = 0
    PROVE  SumFunctionOnSet(f, S) = 0
  <1> DEFINE P == {A \in SUBSET S : SumFunctionOnSet(f, A) # 0}
  <1>1. SUFFICES ASSUME P # {} PROVE FALSE
    OBVIOUS
  <1>2. P \in SUBSET (SUBSET S)
    OBVIOUS
  <1> HIDE DEF P
  <1>3. PICK T \in P : \A U \in P : U \subseteq T => U = T
    BY <1>1, <1>2, SmallestSet
  <1> USE DEF P
  <1>4. /\ SumFunctionOnSet(f, {}) = 0
        /\ T # {} => SumFunctionOnSet(f, T) = f[Pick(T)] + SumFunctionOnSet(f, T \ {Pick(T)})
    BY <1>3, FS_Subset, SumUnfolds
  <1>5. T # {}
    BY <1>3, <1>4
  <1>6. Pick(T) \in T /\ T \ {Pick(T)} \notin P
    BY <1>3, <1>5, PickIsIn
  <1>7. f[Pick(T)] = 0 /\ SumFunctionOnSet(f, T \ {Pick(T)}) = 0
    BY <1>3, <1>6
  <1> QED BY <1>3, <1>4, <1>5, <1>7

\* Moving one value moves the sum by as much.
LEMMA SumMoves ==
    ASSUME NEW S, IsFiniteSet(S), NEW f, NEW g, NEW i \in S,
           \A x \in S : f[x] \in Nat /\ g[x] \in Nat,
           \A x \in S : x # i => g[x] = f[x]
    PROVE  /\ SumFunctionOnSet(f, S) \in Nat
           /\ SumFunctionOnSet(g, S) = SumFunctionOnSet(f, S) - f[i] + g[i]
  <1>1. /\ SumFunctionOnSet(f, S) = f[i] + SumFunctionOnSet(f, S \ {i})
        /\ SumFunctionOnSet(g, S) = g[i] + SumFunctionOnSet(g, S \ {i})
        /\ SumFunctionOnSet(f, S) \in Nat /\ SumFunctionOnSet(f, S \ {i}) \in Nat
    BY SumTakesOut
  <1>2. SumFunctionOnSet(f, S \ {i}) = SumFunctionOnSet(g, S \ {i})
    BY FS_RemoveElement, SumAgrees
  <1> QED BY <1>1, <1>2

\* More elements sum to more.
LEMMA SumGrows ==
    ASSUME NEW S, IsFiniteSet(S), NEW f, \A x \in S : f[x] \in Nat, NEW A \in SUBSET S
    PROVE  SumFunctionOnSet(f, A) <= SumFunctionOnSet(f, S)
  <1> DEFINE P == {B \in SUBSET S : A \subseteq B /\ ~(SumFunctionOnSet(f, A) <= SumFunctionOnSet(f, B))}
  <1>1. SUFFICES ASSUME P # {} PROVE FALSE
    OBVIOUS
  <1>2. P \in SUBSET (SUBSET S)
    OBVIOUS
  <1> HIDE DEF P
  <1>3. PICK T \in P : \A U \in P : U \subseteq T => U = T
    BY <1>1, <1>2, SmallestSet
  <1> USE DEF P
  <1>4. \A B \in SUBSET S : /\ SumFunctionOnSet(f, B) \in Nat
                            /\ \A x \in B : SumFunctionOnSet(f, B) = f[x] + SumFunctionOnSet(f, B \ {x})
    BY SumTakesOut
  <1>5. T # A
    BY <1>3, <1>4
  <1>6. PICK x \in T : x \notin A
    BY <1>3, <1>5
  <1>7. /\ SumFunctionOnSet(f, A) <= SumFunctionOnSet(f, T \ {x})
        /\ T \ {x} \in SUBSET S
    BY <1>3, <1>6
  <1>8. /\ SumFunctionOnSet(f, T) = f[x] + SumFunctionOnSet(f, T \ {x})
        /\ SumFunctionOnSet(f, T \ {x}) \in Nat /\ SumFunctionOnSet(f, A) \in Nat /\ f[x] \in Nat
    BY <1>3, <1>4, <1>7
  <1>9. SumFunctionOnSet(f, A) <= SumFunctionOnSet(f, T)
    BY <1>7, <1>8
  <1> QED BY <1>3, <1>9
=============================================================================
