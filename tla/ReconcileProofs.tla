--------------------------- MODULE ReconcileProofs ---------------------------
(***************************************************************************)
(* What reconciliation keeps, for every log a run may close with, any set   *)
(* of payments and any number of crashes: first what replaying a log does   *)
(* when a row is added to it, then what any number of receivers keep, then  *)
(* what one receiver alone keeps.                                           *)
(***************************************************************************)
EXTENDS Reconcile, LedgerProofs, SequenceTheorems

-----------------------------------------------------------------------------
(* Replaying a log is replaying it without its last row, and then that row. *)
(* FoldLeft goes over the positions of a sequence, the last of them first,  *)
(* by a function on their subsets: there is one, and it is the same one     *)
(* wherever the rows are.                                                   *)

Opening == OpeningBook(DOMAIN Amount)

Folds(rows, S, g) ==
    g = [s \in SUBSET S |-> IF s = {} THEN Opening
                            ELSE ReplayRow(Amount, g[s \ {Max(s)}], rows[Max(s)])]

\* The book a log is replayed into is the value, at all the log's positions, of
\* the function CHOOSE picks.
LEMMA BookIsChosen ==
    ASSUME NEW rows
    PROVE  Book(rows) = (CHOOSE g : Folds(rows, DOMAIN rows, g))[DOMAIN rows]
  BY DEF Book, ReplayLog, FoldLeft, MapThenFoldSet, Folds, Opening

\* The positions of some sequence.
IsPositions(D) == \E n \in Nat : D = 1 .. n

\* The greatest of some positions is one of them, and leaves fewer.
LEMMA MaxIsIn ==
    ASSUME NEW D, IsPositions(D), NEW s \in SUBSET D, s # {}
    PROVE  /\ Max(s) \in s /\ \A x \in s : x <= Max(s)
           /\ s \ {Max(s)} \subseteq s /\ s \ {Max(s)} # s
  <1>0. PICK n \in Nat : D = 1 .. n
    BY DEF IsPositions
  <1>1. s \in SUBSET (0 .. n)
    BY <1>0
  <1>2. \E x \in s : \A y \in s : x >= y
    BY <1>1, GreatestTick
  <1> QED BY <1>2 DEF Max

\* Of any family of sets of positions one has no smaller one in it.
LEMMA SmallestPositions ==
    ASSUME NEW D, IsPositions(D), NEW P \in SUBSET (SUBSET D), P # {}
    PROVE  \E T \in P : \A U \in P : U \subseteq T => U = T
  <1>1. IsFiniteSet(D)
    BY FS_Interval DEF IsPositions
  <1> QED BY <1>1, SmallestSet

\* One more position is the greatest.
LEMMA OneMorePosition ==
    ASSUME NEW n \in Nat
    PROVE  /\ IsPositions(1 .. n) /\ IsPositions(1 .. (n + 1))
           /\ Max(1 .. (n + 1)) = n + 1 /\ (1 .. (n + 1)) \ {n + 1} = 1 .. n
           /\ 1 .. (n + 1) # {} /\ 1 .. n \in SUBSET (1 .. (n + 1))
  <1> DEFINE D == 1 .. (n + 1)
  <1>1. IsPositions(1 .. n) /\ IsPositions(D)
    BY DEF IsPositions
  <1>2. n + 1 \in D /\ D # {} /\ (\A x \in D : x \in Nat /\ x <= n + 1)
    OBVIOUS
  <1>3. D \ {n + 1} = 1 .. n
    OBVIOUS
  <1>4. Max(D) \in D /\ n + 1 <= Max(D)
    <2> HIDE DEF D
    <2> QED BY <1>1, <1>2, MaxIsIn
  <1>5. Max(D) = n + 1
    <2> HIDE DEF D
    <2> QED BY <1>2, <1>4
  <1> QED BY <1>1, <1>2, <1>3, <1>5

\* Two such functions agree on the positions at which the rows do.
LEMMA FoldsAgree ==
    ASSUME NEW D, IsPositions(D), NEW A \in SUBSET D, NEW B \in SUBSET D,
           NEW rows, NEW others, NEW g, NEW h, Folds(rows, A, g), Folds(others, B, h),
           NEW s \in SUBSET A, s \in SUBSET B, \A k \in s : rows[k] = others[k]
    PROVE  g[s] = h[s]
  <1> DEFINE P == {u \in SUBSET D : u \subseteq s /\ g[u] # h[u]}
  <1>1. SUFFICES ASSUME P # {} PROVE FALSE
    OBVIOUS
  <1>3. PICK T \in P : \A U \in P : U \subseteq T => U = T
    <2>1. P \in SUBSET (SUBSET D)
      OBVIOUS
    <2> HIDE DEF P
    <2> QED BY <1>1, <2>1, SmallestPositions
  <1>4. T \in SUBSET A /\ T \in SUBSET B /\ T \in SUBSET D /\ T \subseteq s
    BY <1>3
  <1>5. /\ g[T] = IF T = {} THEN Opening ELSE ReplayRow(Amount, g[T \ {Max(T)}], rows[Max(T)])
        /\ h[T] = IF T = {} THEN Opening ELSE ReplayRow(Amount, h[T \ {Max(T)}], others[Max(T)])
    BY <1>4 DEF Folds
  <1>6. T # {}
    BY <1>3, <1>5
  <1>7. Max(T) \in T /\ T \ {Max(T)} \subseteq T /\ T \ {Max(T)} # T
    BY <1>4, <1>6, MaxIsIn
  <1>8. T \ {Max(T)} \notin P
    BY <1>3, <1>7
  <1>9. g[T \ {Max(T)}] = h[T \ {Max(T)}] /\ rows[Max(T)] = others[Max(T)]
    BY <1>4, <1>7, <1>8
  <1> QED BY <1>3, <1>5, <1>6, <1>9

\* There is one for every set of positions.
LEMMA FoldsExists ==
    ASSUME NEW D, IsPositions(D), NEW rows
    PROVE  \A A \in SUBSET D : \E g : Folds(rows, A, g)
  <1> DEFINE P == {A \in SUBSET D : ~ \E g : Folds(rows, A, g)}
  <1>1. SUFFICES ASSUME P # {} PROVE FALSE
    OBVIOUS
  <1>2. PICK T \in P : \A U \in P : U \subseteq T => U = T
    <2>1. P \in SUBSET (SUBSET D)
      OBVIOUS
    <2> HIDE DEF P
    <2> QED BY <1>1, <2>1, SmallestPositions
  <1> DEFINE below(U) == CHOOSE g : Folds(rows, U, g)
             with(s, book) == ReplayRow(Amount, book, rows[Max(s)])
             h == [s \in SUBSET T |->
                      IF s = {} THEN Opening
                      ELSE IF s = T THEN with(T, below(T \ {Max(T)})[T \ {Max(T)}])
                      ELSE below(s)[s]]
  <1>3. ASSUME NEW U \in SUBSET T, U # T PROVE Folds(rows, U, below(U))
    <2>1. U \notin P
      BY <1>2, <1>3
    <2> QED BY <1>2, <2>1
  <1>4. ASSUME NEW s \in SUBSET T, s # {}
        PROVE  h[s] = with(s, h[s \ {Max(s)}])
    <2> DEFINE r == s \ {Max(s)}
    <2>1. r \subseteq s /\ r # s /\ r \in SUBSET T /\ r # T
      BY <1>2, <1>4, MaxIsIn
    <2>2. Folds(rows, r, below(r))
      BY <1>3, <2>1
    <2>3. h[r] = below(r)[r]
      <3>1. CASE r = {}
        BY <2>2, <3>1 DEF Folds
      <3>2. CASE r # {}
        BY <2>1, <3>2
      <3> QED BY <3>1, <3>2
    <2>4. CASE s = T
      <3> HIDE DEF with, below
      <3> QED BY <1>4, <2>3, <2>4
    <2>5. CASE s # T
      <3>1. Folds(rows, s, below(s))
        BY <1>3, <2>5
      <3>2. h[s] = below(s)[s]
        BY <1>4, <2>5
      <3> HIDE DEF below
      <3>3. below(s)[s] = with(s, below(s)[r])
        BY <1>4, <3>1 DEF Folds
      <3>4. below(s)[r] = below(r)[r]
        <4>1. s \in SUBSET D /\ r \in SUBSET D /\ r \in SUBSET s /\ r \in SUBSET r
              /\ \A k \in r : rows[k] = rows[k]
          BY <1>2, <2>1
        <4> DEFINE u == below(s)
                   v == below(r)
        <4>2. Folds(rows, s, u) /\ Folds(rows, r, v)
          BY <2>2, <3>1
        <4> HIDE DEF r, u, v
        <4>3. u[r] = v[r]
          BY <4>1, <4>2, FoldsAgree
        <4> QED BY <4>3 DEF u, v
      <3> QED BY <2>3, <3>2, <3>3, <3>4
    <2> QED BY <2>4, <2>5
  <1>5. h = [s \in SUBSET T |-> IF s = {} THEN Opening ELSE with(s, h[s \ {Max(s)}])]
    <2>1. h[{}] = Opening
      OBVIOUS
    <2>2. \A s \in SUBSET T : h[s] = IF s = {} THEN Opening ELSE with(s, h[s \ {Max(s)}])
      <3> HIDE DEF h
      <3> QED BY <1>4, <2>1
    <2>3. h = [s \in SUBSET T |-> h[s]]
      OBVIOUS
    <2> HIDE DEF h
    <2> QED BY <2>2, <2>3
  <1>6. Folds(rows, T, h)
    BY <1>5 DEF Folds
  <1> QED BY <1>2, <1>6

\* A log of no rows is the opening book, and any other is its last row
\* replayed onto the book of the rest.
LEMMA BookUnfolds ==
    ASSUME NEW X, NEW rows \in Seq(X), NEW r \in X
    PROVE  /\ Book(<< >>) = Opening
           /\ Book(Append(rows, r)) = ReplayRow(Amount, Book(rows), r)
  <1> DEFINE of(log) == CHOOSE g : Folds(log, DOMAIN log, g)
             more == Append(rows, r)
             n == Len(rows)
  <1>1. /\ n \in Nat /\ DOMAIN rows = 1 .. n
        /\ DOMAIN more = 1 .. (n + 1) /\ more[n + 1] = r /\ \A k \in 1 .. n : more[k] = rows[k]
    OBVIOUS
  <1>2. Book(<< >>) = Opening
    <2> DEFINE none == << >>
    <2>1. DOMAIN none = {} /\ IsPositions({})
      <3>1. 1 .. 0 = {}
        OBVIOUS
      <3> QED BY <3>1 DEF IsPositions
    <2> HIDE DEF none
    <2>2. \E g : Folds(none, {}, g)
      BY <2>1, FoldsExists
    <2>3. Book(none) = (CHOOSE g : Folds(none, {}, g))[{}]
      BY <2>1, BookIsChosen
    <2> QED BY <2>2, <2>3 DEF Folds, none
  <1> DEFINE A == 1 .. (n + 1)
             B == 1 .. n
  <1>3. /\ IsPositions(A) /\ IsPositions(B) /\ Max(A) = n + 1 /\ A \ {n + 1} = B /\ A # {}
        /\ B \in SUBSET A /\ A \in SUBSET A /\ B \in SUBSET B /\ A \in SUBSET A
    BY <1>1, OneMorePosition
  <1>4. DOMAIN rows = B /\ DOMAIN more = A /\ \A k \in B : more[k] = rows[k]
    BY <1>1
  <1> HIDE DEF more, n, A, B
  <1>5. Folds(rows, B, of(rows)) /\ Folds(more, A, of(more))
    <2>1. (\E g : Folds(rows, B, g)) /\ (\E g : Folds(more, A, g))
      BY <1>3, FoldsExists
    <2> QED BY <1>4, <2>1
  <1>6. Book(rows) = of(rows)[B] /\ Book(more) = of(more)[A]
    BY <1>4, BookIsChosen
  <1> HIDE DEF of
  <1>7. of(more)[A] = ReplayRow(Amount, of(more)[B], more[n + 1])
    BY <1>3, <1>5 DEF Folds
  <1>8. of(more)[B] = of(rows)[B]
    BY <1>3, <1>4, <1>5, FoldsAgree
  <1> QED BY <1>1, <1>2, <1>6, <1>7, <1>8 DEF more

-----------------------------------------------------------------------------
(* What a row does to a book.                                               *)

\* The rows of a log: the run's own and those payments have added.
PaymentRows ==
    {r \in [kind: {"OUTCOME"}, record: DOMAIN Amount, tick: Nat, payment: Payments,
            outcome: Outcomes] :
        r.outcome.kind \in {"PAID_FULL", "PAID_PARTIAL"} /\ r.record = InvoiceOf[r.payment]}

Rows == LogRows(DOMAIN Amount) \cup PaymentRows

SoundBook(book) ==
    /\ book \in [DOMAIN Amount -> Accounts]
    /\ \A i \in DOMAIN Amount : book[i].recovered <= Amount[i]

\* How far a record has come, in paise and then by being closed: no row takes
\* it back, and a payment that is booked takes it on.
Weight(a) == a.recovered + IF IsTerminal(a.state) THEN 1 ELSE 0

\* Replaying one row never takes a record back: what it recovered grows and stays
\* within the amount, and a terminal record stays terminal.
LEMMA AccountMoves ==
    ASSUME NEW r \in Rows, NEW a \in Accounts, NEW amount \in Nat, a.recovered <= amount,
           NEW b, b = IF r.kind = "DECISION" THEN ReplayDecision(a, r)
                      ELSE ReplayOutcome(amount, a, r)
    PROVE  /\ b \in Accounts /\ b.recovered <= amount
           /\ a.recovered <= b.recovered /\ Weight(a) \in Nat /\ Weight(b) \in Nat
           /\ Weight(a) <= Weight(b)
           /\ IsTerminal(a.state) => IsTerminal(b.state)
           /\ r.kind = "DECISION" => b.recovered = a.recovered
  <1>1. /\ r.tick \in Nat /\ r.kind \in {"DECISION", "OUTCOME"}
        /\ r.kind = "DECISION" => /\ r.intervention \in Interventions /\ r.executed \in BOOLEAN
                                  /\ r.defer \in Nat \cup {NoTick}
        /\ r.kind = "OUTCOME" =>
              /\ r.outcome \in Outcomes
              /\ r.outcome.kind = "PROMISED" =>
                    /\ r.outcome.phrase \in Phrases
                    /\ Resolve[r.outcome.phrase][r.tick] \in Nat \cup {NoTick}
    BY DEF Rows, LogRows, PaymentRows
  <1>2. /\ a.recovered \in Nat /\ a.state \in RecordStates
    BY DEF Accounts
  <1>3. CASE r.kind = "DECISION"
    <2>1. NextReview(r.intervention, r.tick, r.defer) \in Nat
      BY <1>1, <1>3, ReviewTicksPositive DEF NextReview
    <2>2. CASE r.executed
      <3> DEFINE acted == RecordAction(a, r.intervention, r.tick)
      <3>1. /\ acted \in Accounts /\ acted.recovered = a.recovered
            /\ acted.state = StateAfterAction(a.state, r.intervention)
        BY <1>1, <1>3, ActionType
      <3>2. b = [acted EXCEPT !.nextReview = NextReview(r.intervention, r.tick, r.defer)]
        BY <1>3, <2>2 DEF ReplayDecision
      <3> HIDE DEF acted
      <3>3. /\ b \in Accounts /\ b.recovered = a.recovered
            /\ b.state = StateAfterAction(a.state, r.intervention)
        BY <2>1, <3>1, <3>2 DEF Accounts
      <3>4. IsTerminal(a.state) => b.state = a.state
        BY <1>1, <1>3, <3>3, TerminalIsFinal DEF IsTerminal
      <3> QED BY <1>2, <3>3, <3>4 DEF Weight
    <2>3. CASE ~r.executed
      <3>1. b = RecordVeto(a, r.intervention, r.tick, r.defer)
        BY <1>3, <2>3 DEF ReplayDecision
      <3>2. b = [a EXCEPT !.nextReview = NextReview(r.intervention, r.tick, r.defer)]
        BY <3>1 DEF RecordVeto
      <3>3. b \in Accounts /\ b.recovered = a.recovered /\ b.state = a.state
        BY <2>1, <3>2 DEF Accounts
      <3> QED BY <1>2, <3>3 DEF Weight
    <2> QED BY <1>1, <1>3, <2>2, <2>3
  <1>4. CASE r.kind = "OUTCOME"
    <2> DEFINE o == r.outcome
    <2>1. o \in Outcomes /\ o.amount \in Nat /\ o.kind \in OutcomeKinds
      BY <1>1, <1>4 DEF Outcomes
    <2>2. b = ApplyOutcome(amount, a, o, r.tick)
      BY <1>4 DEF ReplayOutcome
    <2>3. b \in Accounts
      BY <1>1, <1>4, <2>1, <2>2, OutcomeType
    <2>4. /\ o.kind = "PROMISED" =>
                b.recovered = a.recovered /\ b.state \in {"PROMISED", a.state}
                /\ (IsTerminal(a.state) => b.state = a.state)
          /\ o.kind # "PROMISED" =>
                /\ b.state = StateAfterOutcome(a.state, o.kind)
                /\ \/ b.recovered = a.recovered
                   \/ b.recovered = IF a.recovered + o.amount < amount
                                    THEN a.recovered + o.amount ELSE amount
      <3>1. /\ o.kind = "PROMISED" =>
                  /\ b.recovered = a.recovered
                  /\ b.state = IF b.due # NoTick /\ "PROMISED" \in AllowedTransitions[a.state]
                               THEN "PROMISED" ELSE a.state
            /\ o.kind # "PROMISED" =>
                  /\ b.state = StateAfterOutcome(a.state, o.kind)
                  /\ b.recovered = IF o.kind \notin {"PAID_FULL", "PAID_PARTIAL"} THEN a.recovered
                                   ELSE IF a.recovered + o.amount < amount
                                        THEN a.recovered + o.amount ELSE amount
        BY <1>1, <2>1, <2>2, OutcomeEffect
      <3>2. IsTerminal(a.state) => "PROMISED" \notin AllowedTransitions[a.state]
        BY <1>2 DEF AllowedTransitions, IsTerminal, TerminalStates, RecordStates
      <3> HIDE DEF o
      <3> QED BY <3>1, <3>2
    <2>5. IsTerminal(a.state) => b.state = a.state
      BY <2>1, <2>4, TerminalIsFinal DEF IsTerminal
    <2>6. b.recovered <= amount /\ a.recovered <= b.recovered /\ b.recovered \in Nat
      BY <1>2, <2>1, <2>3, <2>4 DEF Accounts
    <2> QED BY <1>2, <1>4, <2>3, <2>5, <2>6 DEF Weight
  <1> QED BY <1>1, <1>3, <1>4

\* A row moves one record, and moves it on.
LEMMA RowMoves ==
    ASSUME NEW book, SoundBook(book), NEW r \in Rows
    PROVE  LET next == ReplayRow(Amount, book, r)
           IN  /\ SoundBook(next)
               /\ r.record \in DOMAIN Amount
               /\ \A i \in DOMAIN Amount : i # r.record => next[i] = book[i]
               /\ \A i \in DOMAIN Amount :
                     /\ book[i].recovered <= next[i].recovered
                     /\ Weight(book[i]) \in Nat /\ Weight(next[i]) \in Nat
                     /\ Weight(book[i]) <= Weight(next[i])
                     /\ IsTerminal(book[i].state) => IsTerminal(next[i].state)
  <1> DEFINE i == r.record
             moved == IF r.kind = "DECISION" THEN ReplayDecision(book[i], r)
                      ELSE ReplayOutcome(Amount[i], book[i], r)
             next == ReplayRow(Amount, book, r)
  <1>1. i \in DOMAIN Amount /\ r.kind \in {"DECISION", "OUTCOME"}
    BY DEF Rows, LogRows, PaymentRows
  <1>2. next = [book EXCEPT ![i] = moved]
    BY <1>1 DEF ReplayRow
  <1>3. /\ book \in [DOMAIN Amount -> Accounts] /\ book[i] \in Accounts
        /\ Amount[i] \in Nat /\ book[i].recovered <= Amount[i]
    BY <1>1, ReconcileAssumption DEF SoundBook
  <1>4. /\ moved \in Accounts /\ moved.recovered <= Amount[i]
        /\ book[i].recovered <= moved.recovered
        /\ Weight(book[i]) \in Nat /\ Weight(moved) \in Nat /\ Weight(book[i]) <= Weight(moved)
        /\ IsTerminal(book[i].state) => IsTerminal(moved.state)
    BY <1>3, AccountMoves
  <1> HIDE DEF moved, next
  <1>5. next[i] = moved /\ \A j \in DOMAIN Amount : j # i => next[j] = book[j]
    BY <1>1, <1>2, <1>3
  <1>6. SoundBook(next)
    BY <1>2, <1>3, <1>4, <1>5 DEF SoundBook
  <1>7. \A j \in DOMAIN Amount : Weight(book[j]) \in Nat /\ book[j].recovered \in Nat
    BY <1>3 DEF Weight, Accounts
  <1> QED BY <1>1, <1>4, <1>5, <1>6, <1>7 DEF next

-----------------------------------------------------------------------------
(* Logs and what is left of them: every prefix of a log is a log.           *)

\* The first k rows.
First(rows, k) == SubSeq(rows, 1, k)

\* The prefixes of a log: their rows, their lengths, and the prefixes of those.
LEMMA PrefixFacts ==
    ASSUME NEW X, NEW rows \in Seq(X), NEW k \in 0 .. Len(rows)
    PROVE  /\ First(rows, k) \in Seq(X) /\ Len(First(rows, k)) = k
           /\ \A j \in 1 .. k : First(rows, k)[j] = rows[j]
           /\ First(rows, 0) = << >> /\ First(rows, Len(rows)) = rows
           /\ k < Len(rows) => First(rows, k + 1) = Append(First(rows, k), rows[k + 1])
           /\ \A j \in 0 .. k : First(First(rows, k), j) = First(rows, j)
           /\ \A r \in X : First(Append(rows, r), k) = First(rows, k)
  <1>1. k \in Nat /\ Len(rows) \in Nat /\ \A j \in 1 .. Len(rows) : rows[j] \in X
    OBVIOUS
  <1>2. \A j \in 0 .. Len(rows) :
            /\ First(rows, j) \in Seq(X) /\ Len(First(rows, j)) = j
            /\ \A l \in 1 .. j : First(rows, j)[l] = rows[l]
    <2> TAKE j \in 0 .. Len(rows)
    <2>1. j \in Nat /\ j <= Len(rows) /\ \A l \in 1 .. j : rows[l] \in X
      BY <1>1
    <2>2. /\ SubSeq(rows, 1, j) \in Seq(X)
          /\ Len(SubSeq(rows, 1, j)) = IF 1 <= j THEN j - 1 + 1 ELSE 0
          /\ \A l \in 1 .. (j - 1 + 1) : SubSeq(rows, 1, j)[l] = rows[1 + l - 1]
      BY <2>1, SubSeqProperties
    <2> QED BY <2>1, <2>2 DEF First
  <1>3. First(rows, 0) = << >> /\ First(rows, Len(rows)) = rows
    <2>1. First(rows, Len(rows)) = rows
      BY SubSeqFull DEF First
    <2> QED BY <2>1, SubSeqEmpty DEF First
  <1>4. ASSUME k < Len(rows)
        PROVE  First(rows, k + 1) = Append(First(rows, k), rows[k + 1])
    <2> DEFINE p == First(rows, k)
               q == First(rows, k + 1)
               x == rows[k + 1]
    <2>1. k \in 0 .. Len(rows) /\ k + 1 \in 0 .. Len(rows) /\ x \in X
      BY <1>1, <1>4
    <2>2. /\ p \in Seq(X) /\ Len(p) = k /\ \A l \in 1 .. k : p[l] = rows[l]
          /\ q \in Seq(X) /\ Len(q) = k + 1 /\ \A l \in 1 .. (k + 1) : q[l] = rows[l]
      BY <1>2, <2>1
    <2> HIDE DEF p, q
    <2>3. /\ Append(p, x) \in Seq(X) /\ Len(Append(p, x)) = k + 1
          /\ Append(p, x)[k + 1] = x /\ \A l \in 1 .. k : Append(p, x)[l] = p[l]
      BY <2>1, <2>2
    <2>4. \A l \in 1 .. (k + 1) : q[l] = Append(p, x)[l]
      BY <1>1, <2>2, <2>3
    <2>5. q = Append(p, x)
      BY <2>2, <2>3, <2>4, SeqEqual
    <2> QED BY <2>5 DEF p, q
  <1>5. ASSUME NEW j \in 0 .. k PROVE First(First(rows, k), j) = First(rows, j)
    <2> DEFINE p == First(rows, k)
    <2>1. /\ p \in Seq(X) /\ Len(p) = k /\ \A l \in 1 .. k : p[l] = rows[l]
          /\ j \in 0 .. Len(rows) /\ j \in Nat
      BY <1>1, <1>2
    <2> HIDE DEF p
    <2>2. \A l \in 1 .. j : p[l] \in X /\ p[l] = rows[l]
      BY <1>1, <2>1
    <2>3. /\ SubSeq(p, 1, j) \in Seq(X)
          /\ Len(SubSeq(p, 1, j)) = IF 1 <= j THEN j - 1 + 1 ELSE 0
          /\ \A l \in 1 .. (j - 1 + 1) : SubSeq(p, 1, j)[l] = p[1 + l - 1]
      BY <2>1, <2>2, SubSeqProperties
    <2>4. /\ First(rows, j) \in Seq(X) /\ Len(First(rows, j)) = j
          /\ \A l \in 1 .. j : First(rows, j)[l] = rows[l]
      BY <1>2, <2>1
    <2> DEFINE u == SubSeq(p, 1, j)
               w == First(rows, j)
    <2>5. /\ u \in Seq(X) /\ w \in Seq(X) /\ Len(u) = Len(w)
          /\ \A l \in 1 .. Len(u) : u[l] = w[l]
      BY <2>1, <2>2, <2>3, <2>4
    <2> HIDE DEF u, w
    <2>6. u = w
      BY <2>5, SeqEqual
    <2> QED BY <2>6 DEF u, w, p, First
  <1>6. ASSUME NEW r \in X PROVE First(Append(rows, r), k) = First(rows, k)
    <2> DEFINE p == Append(rows, r)
               u == First(p, k)
               w == First(rows, k)
    <2>1. \A l \in 1 .. k : p[l] = rows[l] /\ p[l] \in X
      BY <1>1
    <2>2. /\ w \in Seq(X) /\ Len(w) = k /\ \A l \in 1 .. k : w[l] = rows[l]
      BY <1>2
    <2> HIDE DEF p
    <2>3. /\ SubSeq(p, 1, k) \in Seq(X)
          /\ Len(SubSeq(p, 1, k)) = IF 1 <= k THEN k - 1 + 1 ELSE 0
          /\ \A l \in 1 .. (k - 1 + 1) : SubSeq(p, 1, k)[l] = p[1 + l - 1]
      BY <1>1, <2>1, SubSeqProperties
    <2>4. /\ u \in Seq(X) /\ Len(u) = k /\ \A l \in 1 .. k : u[l] = rows[l]
      BY <1>1, <2>1, <2>3 DEF First
    <2> HIDE DEF u, w
    <2>5. u = w
      <3>1. Len(u) = Len(w) /\ \A l \in 1 .. Len(u) : u[l] = w[l]
        BY <2>2, <2>4
      <3> QED BY <2>2, <2>4, <3>1, SeqEqual
    <2> QED BY <2>5 DEF u, w, p
  <1> QED BY <1>1, <1>2, <1>3, <1>4, <1>5, <1>6

-----------------------------------------------------------------------------
(* The book of a log, row by row.                                           *)

\* How a book may change from one row to a later one.
Onward(book, later) ==
    \A i \in DOMAIN Amount :
        /\ book[i].recovered <= later[i].recovered
        /\ Weight(book[i]) \in Nat /\ Weight(later[i]) \in Nat
        /\ Weight(book[i]) <= Weight(later[i])
        /\ IsTerminal(book[i].state) => IsTerminal(later[i].state)

\* The opening book owes everything.
LEMMA OpeningIsSound == SoundBook(Opening)
  <1>1. OpeningAccount \in Accounts
    <2>1. << >> \in Seq(Nat)
      OBVIOUS
    <2> QED BY <2>1 DEF OpeningAccount, Accounts, RecordStates
  <1>2. OpeningAccount.recovered = 0
    BY DEF OpeningAccount
  <1>3. \A i \in DOMAIN Amount : Amount[i] \in Nat
    BY ReconcileAssumption
  <1>4. Opening = [i \in DOMAIN Amount |-> OpeningAccount]
    BY DEF Opening, OpeningBook
  <1> HIDE DEF Opening
  <1> QED BY <1>1, <1>2, <1>3, <1>4 DEF SoundBook

\* The book of k + 1 rows is one row onto the book of k.
LEMMA NextBook ==
    ASSUME NEW rows \in Seq(Rows), NEW k \in 0 .. Len(rows) - 1
    PROVE  /\ rows[k + 1] \in Rows
           /\ Book(First(rows, k + 1)) = ReplayRow(Amount, Book(First(rows, k)), rows[k + 1])
  <1>1. k \in 0 .. Len(rows) /\ k < Len(rows) /\ rows[k + 1] \in Rows
    OBVIOUS
  <1>2. /\ First(rows, k) \in Seq(Rows)
        /\ First(rows, k + 1) = Append(First(rows, k), rows[k + 1])
    BY <1>1, PrefixFacts
  <1> DEFINE p == First(rows, k)
             r == rows[k + 1]
  <1> HIDE DEF p, r
  <1>3. Book(Append(p, r)) = ReplayRow(Amount, Book(p), r)
    BY <1>1, <1>2, BookUnfolds DEF p, r
  <1> QED BY <1>1, <1>2, <1>3 DEF p, r

\* Every book of a log is sound.
LEMMA BooksAreSound ==
    ASSUME NEW rows \in Seq(Rows)
    PROVE  \A k \in 0 .. Len(rows) : SoundBook(Book(First(rows, k)))
  <1> DEFINE bad == {k \in 0 .. Len(rows) : ~SoundBook(Book(First(rows, k)))}
  <1>1. SUFFICES ASSUME bad # {} PROVE FALSE
    OBVIOUS
  <1>2. bad \in SUBSET Nat
    OBVIOUS
  <1>3. PICK k \in bad : \A j \in bad : k <= j
    <2> HIDE DEF bad
    <2> QED BY <1>1, <1>2, LeastTick
  <1>4. k # 0
    <2>1. First(rows, 0) = << >>
      BY PrefixFacts
    <2>2. Book(<< >>) = Opening
      <3>1. << >> \in Seq({0})
        OBVIOUS
      <3> QED BY <3>1, BookUnfolds
    <2> QED BY <1>3, <2>1, <2>2, OpeningIsSound
  <1>5. k - 1 \in 0 .. Len(rows) - 1 /\ k - 1 \in 0 .. Len(rows) /\ k - 1 + 1 = k /\ k - 1 < k
    BY <1>3, <1>4
  <1>6. SoundBook(Book(First(rows, k - 1)))
    BY <1>3, <1>5
  <1>7. /\ rows[k] \in Rows
        /\ Book(First(rows, k)) = ReplayRow(Amount, Book(First(rows, k - 1)), rows[k])
    BY <1>5, NextBook
  <1>8. SoundBook(Book(First(rows, k)))
    BY <1>6, <1>7, RowMoves
  <1> QED BY <1>3, <1>8

\* And each goes on from the ones before it.
LEMMA BooksGoOn ==
    ASSUME NEW rows \in Seq(Rows), NEW j \in 0 .. Len(rows)
    PROVE  \A k \in j .. Len(rows) : Onward(Book(First(rows, j)), Book(First(rows, k)))
  <1> DEFINE from == Book(First(rows, j))
             bad == {k \in j .. Len(rows) : ~Onward(from, Book(First(rows, k)))}
  <1>1. SUFFICES ASSUME bad # {} PROVE FALSE
    OBVIOUS
  <1>2. bad \in SUBSET Nat
    OBVIOUS
  <1>3. PICK k \in bad : \A l \in bad : k <= l
    <2> HIDE DEF bad
    <2> QED BY <1>1, <1>2, LeastTick
  <1>4. k # j
    <2>1. SoundBook(from)
      BY BooksAreSound
    <2> HIDE DEF from
    <2>2. Onward(from, from)
      BY <2>1 DEF Onward, SoundBook, Weight, Accounts
    <2> QED BY <1>3, <2>2 DEF from
  <1>5. /\ k - 1 \in 0 .. Len(rows) - 1 /\ k - 1 \in j .. Len(rows) /\ k - 1 \in 0 .. Len(rows)
        /\ k - 1 + 1 = k /\ k - 1 < k
    BY <1>3, <1>4
  <1> DEFINE near == Book(First(rows, k - 1))
             far == Book(First(rows, k))
  <1>6. Onward(from, near) /\ SoundBook(from) /\ SoundBook(near)
    BY <1>3, <1>5, BooksAreSound
  <1>7. rows[k] \in Rows /\ far = ReplayRow(Amount, near, rows[k])
    BY <1>5, NextBook
  <1> HIDE DEF from, near, far
  <1>8. SoundBook(far) /\ Onward(near, far)
    BY <1>6, <1>7, RowMoves DEF Onward
  <1>9. Onward(from, far)
    <2>1. \A i \in DOMAIN Amount :
              from[i].recovered \in Nat /\ near[i].recovered \in Nat /\ far[i].recovered \in Nat
      BY <1>6, <1>8 DEF SoundBook, Accounts
    <2> QED BY <1>6, <1>8, <2>1 DEF Onward
  <1> QED BY <1>3, <1>9 DEF from, far

\* Of a number at each of some positions one is the greatest.
LEMMA GreatestValue ==
    ASSUME NEW D, IsPositions(D), D # {}, NEW f \in [D -> Nat]
    PROVE  \E k \in D : \A j \in D : f[j] <= f[k]
  <1> DEFINE P == {U \in SUBSET D : U # {} /\ \A k \in U : \E j \in U : ~(f[j] <= f[k])}
  <1>1. SUFFICES ASSUME P # {} PROVE FALSE
    OBVIOUS
  <1>2. PICK T \in P : \A U \in P : U \subseteq T => U = T
    <2>1. P \in SUBSET (SUBSET D)
      OBVIOUS
    <2> HIDE DEF P
    <2> QED BY <1>1, <2>1, SmallestPositions
  <1>3. T \subseteq D /\ T # {} /\ \A k \in T : \E j \in T : ~(f[j] <= f[k])
    BY <1>2
  <1>4. PICK x \in T : TRUE
    BY <1>3
  <1>5. T \ {x} \notin P /\ T \ {x} \in SUBSET D
    BY <1>2, <1>3, <1>4
  <1>6. PICK y \in T : \A j \in T \ {x} : f[j] <= f[y]
    <2>1. CASE T \ {x} = {}
      BY <1>4, <2>1
    <2>2. CASE T \ {x} # {}
      BY <1>5, <2>2
    <2> QED BY <2>1, <2>2
  <1> HIDE DEF P
  <1>7. \A j \in T : f[j] \in Nat /\ (j = x \/ f[j] <= f[y])
    BY <1>3, <1>6
  <1>8. CASE f[x] <= f[y]
    <2>1. \A j \in T : f[j] <= f[y]
      BY <1>7, <1>8
    <2> QED BY <1>3, <1>6, <2>1
  <1>9. CASE f[y] <= f[x]
    <2>1. \A j \in T : f[j] <= f[x]
      BY <1>4, <1>6, <1>7, <1>9
    <2> QED BY <1>3, <1>4, <2>1
  <1> QED BY <1>4, <1>6, <1>7, <1>8, <1>9

\* A log that is not empty has a last tick.
LEMMA LastTickIsATick ==
    ASSUME NEW rows \in Seq(Rows), rows # << >>
    PROVE  LastTick(rows) \in Nat
  <1> DEFINE D == DOMAIN rows
             f == [k \in D |-> rows[k].tick]
             ticks == {rows[j].tick : j \in DOMAIN rows}
  <1>1. D = 1 .. Len(rows) /\ Len(rows) \in Nat /\ Len(rows) # 0
    OBVIOUS
  <1>2. 1 \in D /\ \A k \in D : rows[k] \in Rows
    BY <1>1
  <1>3. \A k \in D : rows[k].tick \in Nat
    BY <1>2 DEF Rows, LogRows, PaymentRows
  <1>4. f \in [D -> Nat] /\ D # {} /\ IsPositions(D)
    BY <1>1, <1>2, <1>3 DEF IsPositions
  <1>5. PICK k \in D : \A j \in D : f[j] <= f[k]
    <2> HIDE DEF f, D
    <2> QED BY <1>4, GreatestValue
  <1>6. f[k] \in ticks /\ \A t \in ticks : f[k] >= t
    BY <1>3, <1>5
  <1>7. Max(ticks) \in ticks
    <2> HIDE DEF ticks
    <2> QED BY <1>6 DEF Max
  <1> QED BY <1>3, <1>7 DEF LastTick

-----------------------------------------------------------------------------
(* A payment that is booked.                                                *)

\* The payments a log has rows of.
AppliedIn(rows) == {p \in Payments : AlreadyApplied(rows, p)}

\* A row adds the payment it is of, and a prefix of a log has no other.
LEMMA AppliedGrows ==
    ASSUME NEW X, NEW rows \in Seq(X)
    PROVE  /\ \A r \in X : AppliedIn(Append(rows, r))
                               = AppliedIn(rows) \cup {p \in Payments : Mentions(r, p)}
           /\ \A k \in 0 .. Len(rows) : AppliedIn(First(rows, k)) \subseteq AppliedIn(rows)
           /\ AppliedIn(rows) \in SUBSET Payments
  <1>1. ASSUME NEW r \in X, NEW p \in Payments
        PROVE  AlreadyApplied(Append(rows, r), p) <=> AlreadyApplied(rows, p) \/ Mentions(r, p)
    <2> DEFINE more == Append(rows, r)
               n == Len(rows)
    <2>1. /\ n \in Nat /\ DOMAIN rows = 1 .. n
          /\ DOMAIN more = 1 .. (n + 1) /\ more[n + 1] = r /\ \A k \in 1 .. n : more[k] = rows[k]
      OBVIOUS
    <2> HIDE DEF more, n
    <2>2. \A k \in 1 .. (n + 1) : k \in 1 .. n \/ k = n + 1
      BY <2>1
    <2>3. n + 1 \in 1 .. (n + 1) /\ \A k \in 1 .. n : k \in 1 .. (n + 1)
      BY <2>1
    <2>4. AlreadyApplied(more, p) <=> AlreadyApplied(rows, p) \/ Mentions(r, p)
      BY <2>1, <2>2, <2>3, Zenon DEF AlreadyApplied
    <2> QED BY <2>4 DEF more
  <1>2. ASSUME NEW k \in 0 .. Len(rows), NEW p \in Payments, AlreadyApplied(First(rows, k), p)
        PROVE  AlreadyApplied(rows, p)
    <2> DEFINE q == First(rows, k)
    <2>1. Len(q) = k /\ q \in Seq(X) /\ \A j \in 1 .. k : q[j] = rows[j]
      BY PrefixFacts
    <2> HIDE DEF q
    <2>2. DOMAIN q = 1 .. k /\ \A j \in 1 .. k : j \in DOMAIN rows
      BY <2>1
    <2>3. AlreadyApplied(q, p)
      BY <1>2 DEF q
    <2> QED BY <2>1, <2>2, <2>3, Zenon DEF AlreadyApplied
  <1> QED BY <1>1, <1>2 DEF AppliedIn

\* What has been paid on an invoice, one payment at a time.
LEMMA PaidMoves ==
    ASSUME NEW S \in SUBSET Payments, NEW i
    PROVE  /\ PaidOn(i, S) \in Nat
           /\ \A p \in Payments \ S :
                 PaidOn(i, S \cup {p}) = PaidOn(i, S) + IF InvoiceOf[p] = i THEN AmountOf[p] ELSE 0
           /\ \A T \in SUBSET Payments : S \subseteq T => PaidOn(i, S) <= PaidOn(i, T)
           /\ PaidOn(i, {}) = 0
  <1> DEFINE on(T) == {p \in T : InvoiceOf[p] = i}
  <1>1. IsFiniteSet(Payments) /\ \A p \in Payments : AmountOf[p] \in Nat
    BY ReconcileAssumption
  <1>2. \A A \in SUBSET Payments :
            /\ SumFunctionOnSet(AmountOf, A) \in Nat
            /\ \A x \in A : SumFunctionOnSet(AmountOf, A)
                                = AmountOf[x] + SumFunctionOnSet(AmountOf, A \ {x})
    BY <1>1, SumTakesOut
  <1>3. PaidOn(i, S) \in Nat
    BY <1>2 DEF PaidOn
  <1>4. ASSUME NEW p \in Payments \ S
        PROVE  PaidOn(i, S \cup {p}) = PaidOn(i, S) + IF InvoiceOf[p] = i THEN AmountOf[p] ELSE 0
    <2>1. CASE InvoiceOf[p] = i
      <3>1. on(S \cup {p}) \in SUBSET Payments /\ p \in on(S \cup {p})
            /\ on(S \cup {p}) \ {p} = on(S)
        BY <2>1
      <3> HIDE DEF on
      <3>2. SumFunctionOnSet(AmountOf, on(S \cup {p}))
                = AmountOf[p] + SumFunctionOnSet(AmountOf, on(S))
        BY <1>2, <3>1
      <3>3. PaidOn(i, S \cup {p}) = AmountOf[p] + PaidOn(i, S)
        BY <3>2 DEF PaidOn, on
      <3> QED BY <1>1, <1>3, <2>1, <3>3
    <2>2. CASE InvoiceOf[p] # i
      <3>1. on(S \cup {p}) = on(S)
        BY <2>2
      <3>2. PaidOn(i, S \cup {p}) = PaidOn(i, S)
        BY <3>1 DEF PaidOn
      <3> QED BY <1>3, <2>2, <3>2
    <2> QED BY <2>1, <2>2
  <1>5. ASSUME NEW T \in SUBSET Payments, S \subseteq T
        PROVE  PaidOn(i, S) <= PaidOn(i, T)
    <2>1. on(T) \in SUBSET Payments /\ on(S) \in SUBSET on(T)
      BY <1>5
    <2>2. IsFiniteSet(on(T)) /\ \A p \in on(T) : AmountOf[p] \in Nat
      BY <1>1, <2>1, FS_Subset
    <2> HIDE DEF on
    <2>3. SumFunctionOnSet(AmountOf, on(S)) <= SumFunctionOnSet(AmountOf, on(T))
      BY <2>1, <2>2, SumGrows
    <2> QED BY <2>3 DEF PaidOn, on
  <1>6. PaidOn(i, {}) = 0
    <2>1. on({}) = {}
      OBVIOUS
    <2>2. SumFunctionOnSet(AmountOf, {}) = 0
      BY <1>1, SumUnfolds
    <2> QED BY <2>1, <2>2 DEF PaidOn
  <1> QED BY <1>3, <1>4, <1>5, <1>6

\* Every state that is not final may be paid.
LEMMA OpenCanBePaid ==
    ASSUME NEW s \in RecordStates, ~IsTerminal(s)
    PROVE  /\ StateAfterOutcome(s, "PAID_FULL") = "PAID"
           /\ StateAfterOutcome(s, "PAID_PARTIAL") = s
  BY DEF RecordStates, IsTerminal, TerminalStates, StateAfterOutcome, Legal, AllowedTransitions

\* A payment that is booked is a row the log had not, credits its invoice what
\* was paid and no more than is owed, and takes it on: by money, or, when
\* nothing is owed any more, by closing it.
LEMMA BookedRow ==
    ASSUME NEW rows \in Seq(Rows), rows # << >>, NEW p \in Payments, AmountOf[p] > 0,
           ~IsTerminal(Book(rows)[InvoiceOf[p]].state)
    PROVE  LET i == InvoiceOf[p]
               next == Book(Appended(rows, p))
           IN  /\ PaymentRow(rows, p) \in Rows
               /\ \A q \in Payments : Mentions(PaymentRow(rows, p), q) <=> q = p
               /\ Appended(rows, p) \in Seq(Rows)
               /\ i \in DOMAIN Amount
               /\ \A j \in DOMAIN Amount : j # i => next[j] = Book(rows)[j]
               /\ next[i].recovered = Capped(i, Book(rows)[i].recovered + AmountOf[p])
               /\ Weight(Book(rows)[i]) \in Nat /\ Weight(next[i]) \in Nat
               /\ Weight(Book(rows)[i]) < Weight(next[i])
  <1> DEFINE i == InvoiceOf[p]
             book == Book(rows)
             r == PaymentRow(rows, p)
             o == r.outcome
             next == Book(Append(rows, r))
  <1>1. /\ i \in DOMAIN Amount /\ Amount[i] \in Nat /\ AmountOf[p] \in Nat
        /\ SoundBook(book)
    <2>1. SoundBook(Book(First(rows, Len(rows)))) /\ First(rows, Len(rows)) = rows
      BY BooksAreSound, PrefixFacts
    <2> QED BY <2>1, ReconcileAssumption
  <1>2. book[i] \in Accounts /\ book[i].recovered <= Amount[i]
    BY <1>1 DEF SoundBook
  <1>3. LastTick(rows) \in Nat
    BY LastTickIsATick
  <1>4. /\ r.kind = "OUTCOME" /\ r.record = i /\ r.tick \in Nat /\ r.payment = p
        /\ DOMAIN r = {"kind", "record", "tick", "payment", "outcome"}
        /\ o.amount = AmountOf[p] /\ o.phrase = NoPhrase
        /\ o.kind = IF AmountOf[p] >= Outstanding(Amount[i], book[i])
                    THEN "PAID_FULL" ELSE "PAID_PARTIAL"
        /\ o \in Outcomes
        /\ r \in PaymentRows
    <2> DEFINE kind == IF AmountOf[p] >= Outstanding(Amount[i], book[i])
                       THEN "PAID_FULL" ELSE "PAID_PARTIAL"
               tick == LastTick(rows)
    <2>1. kind \in {"PAID_FULL", "PAID_PARTIAL"}
      OBVIOUS
    <2>2. r = [kind |-> "OUTCOME", record |-> i, tick |-> tick, payment |-> p,
               outcome |-> [kind |-> kind, amount |-> AmountOf[p], phrase |-> NoPhrase]]
      BY DEF PaymentRow
    <2>3. tick \in Nat
      BY <1>3
    <2> HIDE DEF r, kind, tick, i
    <2>4. [kind |-> kind, amount |-> AmountOf[p], phrase |-> NoPhrase] \in Outcomes
      BY <1>1, <2>1 DEF Outcomes, OutcomeKinds
    <2>5. r \in PaymentRows
      BY <1>1, <2>1, <2>2, <2>3, <2>4 DEF PaymentRows, i
    <2> QED BY <2>2, <2>3, <2>4, <2>5 DEF kind
  <1> HIDE DEF r
  <1>5. r \in Rows /\ \A q \in Payments : Mentions(r, q) <=> q = p
    BY <1>4 DEF Rows, Mentions
  <1>6. Append(rows, r) \in Seq(Rows) /\ next = ReplayRow(Amount, book, r)
    BY <1>5, BookUnfolds
  <1> HIDE DEF book, next
  <1>7. /\ SoundBook(next)
        /\ \A j \in DOMAIN Amount : j # i => next[j] = book[j]
        /\ Weight(book[i]) \in Nat /\ Weight(next[i]) \in Nat
        /\ book[i].recovered <= next[i].recovered
        /\ IsTerminal(book[i].state) => IsTerminal(next[i].state)
    <2>1. r.record = i /\ r \in Rows /\ SoundBook(book) /\ i \in DOMAIN Amount
      BY <1>1, <1>4, <1>5
    <2> HIDE DEF i
    <2>2. /\ SoundBook(next)
          /\ \A j \in DOMAIN Amount : j # r.record => next[j] = book[j]
          /\ \A j \in DOMAIN Amount :
                /\ book[j].recovered <= next[j].recovered
                /\ Weight(book[j]) \in Nat /\ Weight(next[j]) \in Nat
                /\ IsTerminal(book[j].state) => IsTerminal(next[j].state)
      BY <1>6, <2>1, RowMoves
    <2> QED BY <2>1, <2>2
  <1>8. next[i] = ApplyOutcome(Amount[i], book[i], o, r.tick)
    <2>1. next = [book EXCEPT ![i] = ReplayOutcome(Amount[i], book[i], r)]
      BY <1>4, <1>6 DEF ReplayRow
    <2> QED BY <1>1, <2>1 DEF ReplayOutcome, SoundBook
  <1>9. /\ next[i].state = StateAfterOutcome(book[i].state, o.kind)
        /\ next[i].recovered = IF book[i].recovered + AmountOf[p] < Amount[i]
                               THEN book[i].recovered + AmountOf[p] ELSE Amount[i]
    <2>1. o.kind # "PROMISED" /\ o.kind \in {"PAID_FULL", "PAID_PARTIAL"}
      BY <1>4
    <2> HIDE DEF o
    <2>2. r.tick \in Nat /\ o \in Outcomes /\ o.amount = AmountOf[p]
      BY <1>4
    <2> QED BY <1>1, <1>2, <1>8, <2>1, <2>2, OutcomeEffect
  <1>10. book[i].state \in RecordStates /\ ~IsTerminal(book[i].state) /\ book[i].recovered \in Nat
    BY <1>2 DEF book, Accounts
  <1>11. Weight(book[i]) < Weight(next[i])
    <2>1. CASE book[i].recovered < Amount[i]
      <3>1. book[i].recovered < next[i].recovered /\ next[i].recovered \in Nat
        BY <1>1, <1>9, <1>10, <2>1
      <3> QED BY <1>10, <3>1 DEF Weight
    <2>2. CASE book[i].recovered = Amount[i]
      <3>1. Outstanding(Amount[i], book[i]) = 0
        BY <1>1, <2>2 DEF Outstanding
      <3>2. o.kind = "PAID_FULL"
        BY <1>1, <1>4, <3>1
      <3>3. next[i].state = "PAID" /\ next[i].recovered = Amount[i]
        BY <1>1, <1>9, <1>10, <2>2, <3>2, OpenCanBePaid
      <3> QED BY <1>1, <1>10, <2>2, <3>3 DEF Weight, IsTerminal, TerminalStates
    <2> QED BY <1>1, <1>2, <1>10, <2>1, <2>2
  <1> QED BY <1>1, <1>5, <1>6, <1>7, <1>9, <1>11, Zenon DEF r, book, next, Appended, Capped

-----------------------------------------------------------------------------
(* Any number of receivers: every log there is, on disk or in memory, has   *)
(* credited each of its payments once, on top of what the run recovered.    *)

PaidFor(start, book, payments) ==
    \A i \in DOMAIN Amount :
        book[i].recovered <= Capped(i, start[i].recovered + PaidOn(i, payments))

SoundLog(start, rows) ==
    /\ rows \in Seq(Rows)
    /\ \A k \in 0 .. Len(rows) :
          PaidFor(start, Book(First(rows, k)), AppliedIn(First(rows, k)))

KeepsClosed(start, book) ==
    \A i \in DOMAIN Amount : IsTerminal(start[i].state) => book[i] = start[i]

\* A sound log has credited no more than its payments.
LEMMA SoundLogIsPaidFor ==
    ASSUME NEW start, SoundBook(start), NEW rows, SoundLog(start, rows)
    PROVE  /\ PaidFor(start, Book(rows), AppliedIn(rows))
           /\ PaidFor(start, Book(rows), Payments)
           /\ SoundBook(Book(rows))
  <1>1. /\ Len(rows) \in 0 .. Len(rows) /\ First(rows, Len(rows)) = rows
        /\ AppliedIn(rows) \in SUBSET Payments
    BY PrefixFacts, AppliedGrows DEF SoundLog
  <1>2. PaidFor(start, Book(rows), AppliedIn(rows)) /\ SoundBook(Book(rows))
    BY <1>1, BooksAreSound DEF SoundLog
  <1>3. ASSUME NEW i \in DOMAIN Amount
        PROVE  Book(rows)[i].recovered <= Capped(i, start[i].recovered + PaidOn(i, Payments))
    <2>1. /\ PaidOn(i, AppliedIn(rows)) \in Nat /\ PaidOn(i, Payments) \in Nat
          /\ PaidOn(i, AppliedIn(rows)) <= PaidOn(i, Payments)
      BY <1>1, PaidMoves
    <2>2. /\ start[i].recovered \in Nat /\ Book(rows)[i].recovered \in Nat /\ Amount[i] \in Nat
      BY <1>2, ReconcileAssumption DEF SoundBook, Accounts
    <2>3. Book(rows)[i].recovered
              <= Capped(i, start[i].recovered + PaidOn(i, AppliedIn(rows)))
      BY <1>2 DEF PaidFor
    <2> QED BY <2>1, <2>2, <2>3 DEF Capped
  <1> QED BY <1>2, <1>3 DEF PaidFor

\* What is left of a sound log is one.
LEMMA PrefixIsSound ==
    ASSUME NEW start, NEW rows, SoundLog(start, rows), NEW k \in 0 .. Len(rows)
    PROVE  SoundLog(start, First(rows, k))
  <1>1. /\ First(rows, k) \in Seq(Rows) /\ Len(First(rows, k)) = k
        /\ \A j \in 0 .. k : First(First(rows, k), j) = First(rows, j) /\ j \in 0 .. Len(rows)
    BY PrefixFacts DEF SoundLog
  <1> QED BY <1>1 DEF SoundLog

\* So is the log a run closes with.
LEMMA ClosingIsSound ==
    ASSUME NEW rows \in Closings
    PROVE  SoundLog(Book(rows), rows) /\ rows # << >> /\ SoundBook(Book(rows))
  <1>1. rows \in Seq(Rows) /\ rows # << >>
    BY ClosingAssumption DEF Rows
  <1>2. First(rows, Len(rows)) = rows /\ Len(rows) \in 0 .. Len(rows)
    BY <1>1, PrefixFacts
  <1>3. SoundBook(Book(rows))
    BY <1>1, <1>2, BooksAreSound
  <1>4. ASSUME NEW k \in 0 .. Len(rows), NEW i \in DOMAIN Amount
        PROVE  Book(First(rows, k))[i].recovered
                   <= Capped(i, Book(rows)[i].recovered + PaidOn(i, AppliedIn(First(rows, k))))
    <2>1. SoundBook(Book(First(rows, k))) /\ Onward(Book(First(rows, k)), Book(rows))
      BY <1>1, <1>2, BooksAreSound, BooksGoOn
    <2>2. Book(First(rows, k))[i].recovered <= Book(rows)[i].recovered
      BY <2>1 DEF Onward
    <2>3. /\ Book(First(rows, k))[i].recovered \in Nat /\ Book(rows)[i].recovered \in Nat
          /\ Book(rows)[i].recovered <= Amount[i] /\ Amount[i] \in Nat
      BY <1>3, <2>1, ReconcileAssumption DEF SoundBook, Accounts
    <2>4. First(rows, k) \in Seq(Rows)
      BY <1>1, PrefixFacts
    <2>5. PaidOn(i, AppliedIn(First(rows, k))) \in Nat
      BY <2>4, AppliedGrows, PaidMoves
    <2> QED BY <2>2, <2>3, <2>5 DEF Capped
  <1> QED BY <1>1, <1>3, <1>4 DEF SoundLog, PaidFor

\* And a sound log to which a payment it has not is booked.
LEMMA BookedIsSound ==
    ASSUME NEW start, SoundBook(start), NEW rows, SoundLog(start, rows), rows # << >>,
           NEW p \in Payments, AmountOf[p] > 0, ~AlreadyApplied(rows, p),
           ~IsTerminal(Book(rows)[InvoiceOf[p]].state)
    PROVE  /\ SoundLog(start, Appended(rows, p)) /\ Appended(rows, p) # << >>
           /\ AppliedIn(Appended(rows, p)) = AppliedIn(rows) \cup {p}
           /\ KeepsClosed(start, Book(rows)) => KeepsClosed(start, Book(Appended(rows, p)))
  <1> DEFINE i == InvoiceOf[p]
             more == Appended(rows, p)
             n == Len(rows)
  <1>1. /\ PaymentRow(rows, p) \in Rows
        /\ \A q \in Payments : Mentions(PaymentRow(rows, p), q) <=> q = p
        /\ more \in Seq(Rows) /\ i \in DOMAIN Amount
        /\ \A j \in DOMAIN Amount : j # i => Book(more)[j] = Book(rows)[j]
        /\ Book(more)[i].recovered = Capped(i, Book(rows)[i].recovered + AmountOf[p])
    BY BookedRow DEF SoundLog
  <1>2. rows \in Seq(Rows) /\ n \in Nat /\ Len(more) = n + 1 /\ more # << >>
    BY <1>1 DEF SoundLog, Appended
  <1>3. AppliedIn(more) = AppliedIn(rows) \cup {p} /\ AppliedIn(rows) \in SUBSET Payments
    BY <1>1, <1>2, AppliedGrows DEF Appended
  <1>4. p \in Payments \ AppliedIn(rows)
    BY DEF AppliedIn
  <1>5. PaidFor(start, Book(rows), AppliedIn(rows)) /\ SoundBook(Book(rows))
    BY SoundLogIsPaidFor
  <1>6. ASSUME NEW j \in DOMAIN Amount
        PROVE  Book(more)[j].recovered
                   <= Capped(j, start[j].recovered + PaidOn(j, AppliedIn(more)))
    <2>1. /\ PaidOn(j, AppliedIn(rows)) \in Nat
          /\ PaidOn(j, AppliedIn(more))
                 = PaidOn(j, AppliedIn(rows)) + IF i = j THEN AmountOf[p] ELSE 0
      BY <1>3, <1>4, PaidMoves
    <2>2. /\ start[j].recovered \in Nat /\ Book(rows)[j].recovered \in Nat
          /\ Amount[j] \in Nat /\ AmountOf[p] \in Nat
      BY <1>5, ReconcileAssumption DEF SoundBook, Accounts
    <2>3. Book(rows)[j].recovered <= Capped(j, start[j].recovered + PaidOn(j, AppliedIn(rows)))
      BY <1>5 DEF PaidFor
    <2> HIDE DEF i, more
    <2>4. CASE j = i
      BY <1>1, <2>1, <2>2, <2>3, <2>4 DEF Capped
    <2>5. CASE j # i
      BY <1>1, <2>1, <2>2, <2>3, <2>5 DEF Capped
    <2> QED BY <2>4, <2>5
  <1>7. ASSUME NEW k \in 0 .. Len(more)
        PROVE  PaidFor(start, Book(First(more, k)), AppliedIn(First(more, k)))
    <2>1. CASE k = n + 1
      <3>1. First(more, k) = more
        BY <1>1, <1>2, <2>1, PrefixFacts
      <3> QED BY <1>6, <3>1 DEF PaidFor
    <2>2. CASE k # n + 1
      <3>1. k \in 0 .. n
        BY <1>2, <2>2
      <3>2. First(more, k) = First(rows, k)
        BY <1>1, <1>2, <3>1, PrefixFacts DEF Appended
      <3> QED BY <3>1, <3>2 DEF SoundLog
    <2> QED BY <2>1, <2>2
  <1>8. ASSUME KeepsClosed(start, Book(rows)) PROVE KeepsClosed(start, Book(more))
    <2>1. ~IsTerminal(start[i].state)
      BY <1>1, <1>8 DEF KeepsClosed
    <2> QED BY <1>1, <1>8, <2>1 DEF KeepsClosed
  <1> QED BY <1>1, <1>2, <1>3, <1>7, <1>8 DEF SoundLog

\* The stages of a reconciliation; what a receiver holds at each.
Stages == {"idle", "read", "compare", "event"} \cup Files

Fields == {"at", "open", "payment", "rows", "text", "left"}

SoundReceiver(start, c) ==
    /\ c = [field \in Fields |-> c[field]]
    /\ c.at \in Stages /\ c.open \in BOOLEAN
    /\ c.open => c.at \in Files
    /\ c.at # "idle" => c.payment \in Payments
    /\ c.at \notin {"idle", "read"} => SoundLog(start, c.rows) /\ c.rows # << >>
    /\ c.at = "compare" => ~AlreadyApplied(c.rows, c.payment)
    /\ c.at \in {"log", "final"} => KeepsClosed(start, Book(c.rows))
    /\ c.at = "log" /\ c.open => c.text = {c.rows}
    /\ c.at = "final" /\ c.open => c.text = {Book(c.rows)}

SoundDisk(start, d) ==
    /\ d = [file \in Files |-> d[file]]
    /\ \A rows \in d.log : SoundLog(start, rows)
    /\ \A book \in d.final : KeepsClosed(start, book) /\ PaidFor(start, book, Payments)

RecInv ==
    /\ run \in Closings
    /\ SoundDisk(Book(run), disk)
    /\ receiver = [r \in Receivers |-> receiver[r]]
    /\ \A r \in Receivers : SoundReceiver(Book(run), receiver[r])

\* Rewriting one of the four files with a sound content leaves sound files.
LEMMA SoundAfterWrite ==
    ASSUME NEW start, NEW d, SoundDisk(start, d), NEW file \in Files, NEW content,
           file = "log" => \A rows \in content : SoundLog(start, rows),
           file = "final" => \A book \in content : /\ KeepsClosed(start, book)
                                                  /\ PaidFor(start, book, Payments)
    PROVE  SoundDisk(start, [d EXCEPT ![file] = content])
  <1> DEFINE e == [d EXCEPT ![file] = content]
  <1>1. d = [f \in Files |-> d[f]]
    BY DEF SoundDisk
  <1>2. /\ e = [f \in Files |-> e[f]]
        /\ \A f \in Files : e[f] = IF f = file THEN content ELSE d[f]
    BY <1>1
  <1> HIDE DEF e
  <1>3. /\ e.log = IF file = "log" THEN content ELSE d.log
        /\ e.final = IF file = "final" THEN content ELSE d.final
    BY <1>2 DEF Files
  <1> QED BY <1>2, <1>3 DEF SoundDisk, e

\* An idle receiver holds nothing.
LEMMA IdleIsSound ==
    ASSUME NEW start PROVE SoundReceiver(start, IdleReceiver)
  <1> DEFINE c == IdleReceiver
             any == CHOOSE p \in Payments : TRUE
  <1>1. c = [field \in Fields |-> c[field]] /\ c.at = "idle" /\ c.open = FALSE
    <2>1. c = [at |-> "idle", open |-> FALSE, payment |-> any, rows |-> << >>,
               text |-> {}, left |-> {}]
      BY DEF IdleReceiver
    <2> HIDE DEF c, any
    <2> QED BY <2>1 DEF Fields
  <1> HIDE DEF c
  <1>2. SoundReceiver(start, c)
    BY <1>1 DEF SoundReceiver, Stages, Files
  <1> QED BY <1>2 DEF c

\* The files a closed run leaves, before any payment, are sound.
LEMMA RecInitIsSound == RecInit => RecInv
  <1> SUFFICES ASSUME RecInit PROVE RecInv
    OBVIOUS
  <1>1. run \in Closings /\ disk.log = {run} /\ disk.final = {Book(run)}
        /\ disk = [file \in Files |-> disk[file]]
    BY DEF RecInit, Files
  <1>2. SoundLog(Book(run), run) /\ SoundBook(Book(run))
    BY <1>1, ClosingIsSound
  <1>3. PaidFor(Book(run), Book(run), Payments)
    BY <1>2, SoundLogIsPaidFor
  <1>4. KeepsClosed(Book(run), Book(run))
    BY DEF KeepsClosed
  <1>5. SoundDisk(Book(run), disk)
    BY <1>1, <1>2, <1>3, <1>4 DEF SoundDisk
  <1>6. receiver = [r \in Receivers |-> IdleReceiver]
    BY DEF RecInit
  <1> QED BY <1>1, <1>5, <1>6, IdleIsSound DEF RecInv

\* A step of receiver r that leaves it at c and the files at d.
Moves(r, c, d) == receiver' = [receiver EXCEPT ![r] = c] /\ disk' = d /\ UNCHANGED run

\* A step that leaves one receiver and the files sound keeps the invariant.
LEMMA MovesKeepRecInv ==
    ASSUME RecInv, NEW r \in Receivers, NEW c, NEW d, Moves(r, c, d),
           SoundReceiver(Book(run), c), SoundDisk(Book(run), d)
    PROVE  RecInv'
  <1> DEFINE start == Book(run)
  <1>1. run' = run /\ disk' = d /\ Book(run') = start
    BY DEF Moves
  <1>2. /\ receiver' = [receiver EXCEPT ![r] = c]
        /\ receiver = [q \in Receivers |-> receiver[q]]
    BY DEF Moves, RecInv
  <1>3. receiver' = [q \in Receivers |-> receiver'[q]]
        /\ \A q \in Receivers : receiver'[q] = IF q = r THEN c ELSE receiver[q]
    BY <1>2
  <1>4. \A q \in Receivers : SoundReceiver(start, receiver[q])
    BY DEF RecInv
  <1> HIDE DEF start
  <1>5. ASSUME NEW q \in Receivers PROVE SoundReceiver(start, receiver'[q])
    <2>1. CASE q = r
      BY <1>3, <2>1 DEF start
    <2>2. CASE q # r
      BY <1>3, <1>4, <2>2
    <2> QED BY <2>1, <2>2
  <1> QED BY <1>1, <1>3, <1>5 DEF RecInv, start

\* Every step keeps it.
LEMMA RecStepKeepsInv == RecInv /\ [RecNext]_recVars => RecInv'
  <1> SUFFICES ASSUME RecInv, [RecNext]_recVars PROVE RecInv'
    OBVIOUS
  <1> DEFINE start == Book(run)
  <1>1. /\ run \in Closings /\ SoundDisk(start, disk) /\ SoundBook(start)
        /\ \A r \in Receivers : SoundReceiver(start, receiver[r])
    BY ClosingIsSound DEF RecInv
  <1>2. CASE UNCHANGED recVars
    BY <1>2 DEF recVars, RecInv, SoundDisk
  <1>3. ASSUME NEW r \in Receivers, NEW p \in Payments, Receive(r, p) PROVE RecInv'
    <2> DEFINE c == [IdleReceiver EXCEPT !.at = "read", !.payment = p]
    <2>1. Moves(r, c, disk)
      BY <1>3 DEF Receive, Step, Moves
    <2>2. SoundReceiver(start, c)
      <3>1. /\ c = [field \in Fields |-> c[field]]
            /\ c.at = "read" /\ c.payment = p /\ c.open = FALSE
        BY DEF IdleReceiver, Fields
      <3> HIDE DEF c
      <3> QED BY <3>1 DEF SoundReceiver, Stages, Files
    <2> HIDE DEF c
    <2> QED BY <1>1, <2>1, <2>2, MovesKeepRecInv
  <1>4. ASSUME NEW r \in Receivers, ReadLog(r) PROVE RecInv'
    <2>1. PICK rows \in RowsOnDisk :
              /\ ~AlreadyApplied(rows, receiver[r].payment)
              /\ Step(r, [receiver[r] EXCEPT !.at = "compare", !.rows = rows])
      BY <1>4 DEF ReadLog
    <2> DEFINE c == [receiver[r] EXCEPT !.at = "compare", !.rows = rows]
    <2>2. Moves(r, c, disk)
      BY <1>4, <2>1 DEF ReadLog, Step, Moves
    <2>3. SoundLog(start, rows) /\ rows # << >>
      BY <1>1, <2>1 DEF SoundDisk, RowsOnDisk
    <2>4. SoundReceiver(start, receiver[r]) /\ receiver[r].at = "read" /\ ~receiver[r].open
      BY <1>1, <1>4 DEF ReadLog, At
    <2> HIDE DEF start
    <2>5. SoundReceiver(start, c)
      <3> DEFINE e == receiver[r]
      <3>1. /\ e = [field \in Fields |-> e[field]] /\ e.open = FALSE
            /\ e.payment \in Payments /\ ~AlreadyApplied(rows, e.payment)
        BY <2>1, <2>4 DEF SoundReceiver
      <3> HIDE DEF e
      <3>2. /\ c = [field \in Fields |-> c[field]]
            /\ c.at = "compare" /\ c.payment = e.payment /\ c.open = e.open /\ c.rows = rows
        BY <3>1 DEF Fields, e
      <3> HIDE DEF c
      <3> QED BY <2>3, <3>1, <3>2 DEF SoundReceiver, Stages, Files
    <2> HIDE DEF c
    <2> QED BY <1>1, <2>2, <2>5, MovesKeepRecInv DEF start
  <1>5. ASSUME NEW r \in Receivers, Moves(r, IdleReceiver, disk) PROVE RecInv'
    BY <1>1, <1>5, IdleIsSound, MovesKeepRecInv
  <1>6. ASSUME NEW r \in Receivers, BookPayment(r) PROVE RecInv'
    <2> DEFINE rows == receiver[r].rows
               p == receiver[r].payment
               c == [receiver[r] EXCEPT !.at = "log", !.rows = Appended(rows, p)]
    <2>1. Moves(r, c, disk)
      BY <1>6 DEF BookPayment, Step, Moves
    <2>2. SoundReceiver(start, receiver[r]) /\ receiver[r].at = "compare" /\ ~receiver[r].open
      BY <1>1, <1>6 DEF BookPayment, At
    <2>3. /\ SoundLog(start, rows) /\ rows # << >> /\ p \in Payments /\ ~AlreadyApplied(rows, p)
      BY <2>2 DEF SoundReceiver
    <2>4. /\ disk.final = {Book(rows)} /\ AmountOf[p] > 0
          /\ ~IsTerminal(Book(rows)[InvoiceOf[p]].state)
      BY <1>6 DEF BookPayment, Accepts, ReplaysTo
    <2>5. KeepsClosed(start, Book(rows))
      BY <1>1, <2>4 DEF SoundDisk
    <2> HIDE DEF rows, p, start
    <2>6. /\ SoundLog(start, Appended(rows, p)) /\ Appended(rows, p) # << >>
          /\ KeepsClosed(start, Book(Appended(rows, p)))
      BY <1>1, <2>3, <2>4, <2>5, BookedIsSound
    <2>7. SoundReceiver(start, c)
      <3> DEFINE e == receiver[r]
      <3>1. /\ e = [field \in Fields |-> e[field]] /\ e.open = FALSE /\ e.payment \in Payments
        BY <2>2 DEF SoundReceiver
      <3> HIDE DEF e
      <3>2. /\ c = [field \in Fields |-> c[field]]
            /\ c.at = "log" /\ c.payment = e.payment /\ c.open = e.open
            /\ c.rows = Appended(rows, p)
        BY <3>1 DEF Fields, e
      <3> HIDE DEF c
      <3> QED BY <2>6, <3>1, <3>2 DEF SoundReceiver, Stages, Files
    <2> HIDE DEF c
    <2> QED BY <1>1, <2>1, <2>7, MovesKeepRecInv DEF start
  <1>7. ASSUME NEW r \in Receivers, OpenFile(r) PROVE RecInv'
    <2> DEFINE file == receiver[r].at
    <2>0. PICK text \in Texts(r, file) : \E left \in Partly(file, text) :
              /\ disk' = [disk EXCEPT ![file] = left]
              /\ Step(r, [receiver[r] EXCEPT !.open = TRUE, !.text = {text}, !.left = left])
      BY <1>7 DEF OpenFile
    <2>1. PICK left \in Partly(file, text) :
              /\ disk' = [disk EXCEPT ![file] = left]
              /\ Step(r, [receiver[r] EXCEPT !.open = TRUE, !.text = {text}, !.left = left])
      BY <2>0
    <2> DEFINE c == [receiver[r] EXCEPT !.open = TRUE, !.text = {text}, !.left = left]
               d == [disk EXCEPT ![file] = left]
    <2>2. Moves(r, c, d)
      BY <1>7, <2>1 DEF OpenFile, Step, Moves
    <2>3. SoundReceiver(start, receiver[r]) /\ file \in Files /\ ~receiver[r].open
      BY <1>1, <1>7 DEF OpenFile
    <2>4. SoundLog(start, receiver[r].rows)
      BY <2>3 DEF SoundReceiver, Files
    <2>5. /\ file = "log" => text = receiver[r].rows
          /\ file = "final" => text = Book(receiver[r].rows)
      BY <2>0 DEF Texts
    <2>6. file = "log" => \A rows \in left : SoundLog(start, rows)
      <3> SUFFICES ASSUME file = "log", NEW rows \in left PROVE SoundLog(start, rows)
        OBVIOUS
      <3>1. PICK k \in 0 .. Len(text) - 1 : rows = First(text, k)
        BY <2>1 DEF Partly, First
      <3>2. SoundLog(start, text) /\ k \in 0 .. Len(text)
        BY <2>4, <2>5 DEF SoundLog
      <3> QED BY <3>1, <3>2, PrefixIsSound
    <2>7. file = "final" => left = {}
      BY <2>1 DEF Partly
    <2> HIDE DEF start
    <2>8. SoundReceiver(start, c)
      <3> DEFINE e == receiver[r]
      <3>1. e = [field \in Fields |-> e[field]] /\ SoundReceiver(start, e) /\ e.at = file
        BY <2>3 DEF SoundReceiver
      <3> HIDE DEF e
      <3>2. /\ c = [field \in Fields |-> c[field]]
            /\ c.at = e.at /\ c.payment = e.payment /\ c.open = TRUE /\ c.rows = e.rows
            /\ c.text = {text}
        BY <3>1 DEF Fields, e
      <3>3. /\ e.at = "log" => text = e.rows
            /\ e.at = "final" => text = Book(e.rows)
        BY <2>5, <3>1 DEF e
      <3> HIDE DEF c, file
      <3> QED BY <2>3, <3>1, <3>2, <3>3 DEF SoundReceiver
    <2>9. SoundDisk(start, d)
      BY <1>1, <2>3, <2>6, <2>7, SoundAfterWrite DEF start
    <2> HIDE DEF c, d
    <2> QED BY <1>1, <2>2, <2>8, <2>9, MovesKeepRecInv DEF start
  <1>8. ASSUME NEW r \in Receivers, CloseFile(r) PROVE RecInv'
    <2> DEFINE file == receiver[r].at
    <2>1. PICK content \in {receiver[r].text} \cup {{}} : disk' = [disk EXCEPT ![file] = content]
      BY <1>8 DEF CloseFile
    <2> DEFINE c == [receiver[r] EXCEPT !.at = NextFile[@], !.open = FALSE, !.text = {}, !.left = {}]
               d == [disk EXCEPT ![file] = content]
    <2>2. Moves(r, c, d)
      BY <1>8, <2>1 DEF CloseFile, Step, Moves
    <2>3. SoundReceiver(start, receiver[r]) /\ receiver[r].open /\ file \in Files
      BY <1>1, <1>8 DEF CloseFile, SoundReceiver
    <2>4. /\ SoundLog(start, receiver[r].rows) /\ receiver[r].payment \in Payments
          /\ file = "log" => content \subseteq {receiver[r].rows}
          /\ file = "final" => content \subseteq {Book(receiver[r].rows)}
          /\ file = "final" => KeepsClosed(start, Book(receiver[r].rows))
      BY <2>1, <2>3 DEF SoundReceiver, Files
    <2>5. PaidFor(start, Book(receiver[r].rows), Payments)
      BY <1>1, <2>4, SoundLogIsPaidFor
    <2>6. /\ NextFile[file] \in {"final", "summary", "session", "event"}
          /\ NextFile[file] = "final" => file = "log"
      BY <2>3 DEF Files, NextFile
    <2> HIDE DEF start
    <2>7. SoundReceiver(start, c)
      <3> DEFINE e == receiver[r]
      <3>1. e = [field \in Fields |-> e[field]] /\ SoundReceiver(start, e) /\ e.at = file
        BY <2>3 DEF SoundReceiver
      <3> HIDE DEF e
      <3>2. /\ c = [field \in Fields |-> c[field]]
            /\ c.at = NextFile[file] /\ c.payment = e.payment /\ c.open = FALSE
            /\ c.rows = e.rows
        BY <3>1 DEF Fields, e
      <3> HIDE DEF c, file
      <3> QED BY <2>3, <2>6, <3>1, <3>2 DEF SoundReceiver, Stages, Files
    <2>8. SoundDisk(start, d)
      <3>1. /\ file = "log" => \A rows \in content : SoundLog(start, rows)
            /\ file = "final" => \A book \in content : /\ KeepsClosed(start, book)
                                                      /\ PaidFor(start, book, Payments)
        BY <2>4, <2>5
      <3> QED BY <1>1, <2>3, <3>1, SoundAfterWrite DEF start
    <2> HIDE DEF c, d
    <2> QED BY <1>1, <2>2, <2>7, <2>8, MovesKeepRecInv DEF start
  <1>9. ASSUME NEW r \in Receivers,
               AnswerAlreadyApplied(r) \/ GiveUp(r) \/ AppendEvent(r) \/ Crash(r)
        PROVE  RecInv'
    <2>1. Moves(r, IdleReceiver, disk)
      BY <1>9 DEF AnswerAlreadyApplied, GiveUp, AppendEvent, Crash, Stop, Step, Moves
    <2> QED BY <1>5, <2>1
  <1> QED BY <1>2, <1>3, <1>4, <1>6, <1>7, <1>8, <1>9 DEF RecNext, Work

\* At every moment, of any number of receivers that interleave and die.
THEOREM RecInvariant == RecSpec => []RecInv
  <1>1. RecInit => RecInv
    BY RecInitIsSound
  <1>2. RecInv /\ [RecNext]_recVars => RecInv'
    BY RecStepKeepsInv
  <1> QED BY <1>1, <1>2, PTL DEF RecSpec

\* Whatever receivers read, write over and leave half written, the position on
\* disk never holds more of an invoice than the run recovered and each of its
\* payments once: a payment that is in the log is not booked again, and a log
\* that has lost it has lost its money too (reconcile_payment).
THEOREM CreditedAlwaysOnce == RecSpec => []CreditedOnce
  <1>1. RecInv => CreditedOnce
    BY DEF RecInv, SoundDisk, PaidFor, CreditedOnce
  <1> QED BY <1>1, RecInvariant, PTL

\* Nor does any payment touch a record the run closed (reconcile_payment, the
\* refusal of terminal records).
THEOREM ClosedRecordsAreAlwaysKept == RecSpec => []ClosedRecordsAreKept
  <1>1. RecInv => ClosedRecordsAreKept
    BY DEF RecInv, SoundDisk, KeepsClosed, ClosedRecordsAreKept
  <1> QED BY <1>1, RecInvariant, PTL

-----------------------------------------------------------------------------
(* One receiver alone.  Whatever it leaves half written when it dies, there *)
(* is one history: the last log that was written whole.  What is on disk is *)
(* a beginning of it, and a beginning that has lost a payment replays to    *)
(* less than the history does, because a payment takes its record on.       *)

Strict(rows) ==
    \A k \in 1 .. Len(rows) : \A q \in Payments :
        Mentions(rows[k], q) =>
            \E i \in DOMAIN Amount :
                Weight(Book(First(rows, k - 1))[i]) < Weight(Book(First(rows, k))[i])

Full(start, rows) ==
    \A i \in DOMAIN Amount :
        Book(rows)[i].recovered = Capped(i, start[i].recovered + PaidOn(i, AppliedIn(rows)))

History(start, rows) ==
    rows \in Seq(Rows) /\ rows # << >> /\ Strict(rows) /\ Full(start, rows)

Beginning(rows, whole) == \E k \in 0 .. Len(whole) : rows = First(whole, k)

\* The log a run closes with has no payment in it.
LEMMA ClosingIsHistory ==
    ASSUME NEW rows \in Closings
    PROVE  History(Book(rows), rows) /\ AppliedIn(rows) = {}
  <1>1. /\ rows \in Seq(LogRows(DOMAIN Amount)) /\ rows \in Seq(Rows) /\ rows # << >>
        /\ SoundBook(Book(rows))
    BY ClosingAssumption, ClosingIsSound DEF Rows
  <1>2. \A k \in 1 .. Len(rows), q \in Payments : ~Mentions(rows[k], q)
    <2> TAKE k \in 1 .. Len(rows), q \in Payments
    <2>1. rows[k] \in LogRows(DOMAIN Amount)
      BY <1>1
    <2>2. "payment" \notin DOMAIN rows[k]
      BY <2>1 DEF LogRows
    <2> QED BY <2>2 DEF Mentions
  <1>3. DOMAIN rows = 1 .. Len(rows)
    BY <1>1
  <1>4. AppliedIn(rows) = {}
    BY <1>2, <1>3 DEF AppliedIn, AlreadyApplied
  <1>5. Strict(rows)
    BY <1>2 DEF Strict
  <1>6. ASSUME NEW i \in DOMAIN Amount
        PROVE  Book(rows)[i].recovered
                   = Capped(i, Book(rows)[i].recovered + PaidOn(i, AppliedIn(rows)))
    <2>1. PaidOn(i, AppliedIn(rows)) = 0
      BY <1>4, PaidMoves
    <2>2. /\ Book(rows)[i].recovered \in Nat /\ Book(rows)[i].recovered <= Amount[i]
          /\ Amount[i] \in Nat
      BY <1>1, ReconcileAssumption DEF SoundBook, Accounts
    <2> QED BY <2>1, <2>2 DEF Capped
  <1> QED BY <1>1, <1>4, <1>5, <1>6 DEF History, Full

\* A beginning of a history that replays to the same position has the same
\* payments.
LEMMA SameBookSamePayments ==
    ASSUME NEW rows \in Seq(Rows), Strict(rows), NEW k \in 0 .. Len(rows),
           Book(First(rows, k)) = Book(rows)
    PROVE  AppliedIn(First(rows, k)) = AppliedIn(rows)
  <1>1. AppliedIn(First(rows, k)) \subseteq AppliedIn(rows)
    BY AppliedGrows
  <1>2. SUFFICES ASSUME NEW q \in Payments, AlreadyApplied(rows, q),
                        ~AlreadyApplied(First(rows, k), q)
                 PROVE  FALSE
    BY <1>1 DEF AppliedIn
  <1>3. PICK j \in 1 .. Len(rows) : Mentions(rows[j], q)
    BY <1>2 DEF AlreadyApplied
  <1>4. j > k
    <2>1. /\ DOMAIN First(rows, k) = 1 .. k
          /\ \A l \in 1 .. k : First(rows, k)[l] = rows[l]
      <3> DEFINE p == First(rows, k)
      <3>1. p \in Seq(Rows) /\ Len(p) = k /\ \A l \in 1 .. k : p[l] = rows[l]
        BY PrefixFacts
      <3> HIDE DEF p
      <3>2. DOMAIN p = 1 .. k
        BY <3>1
      <3> QED BY <3>1, <3>2 DEF p
    <2>2. j \notin 1 .. k
      BY <1>2, <1>3, <2>1 DEF AlreadyApplied
    <2> QED BY <2>2
  <1>5. PICK i \in DOMAIN Amount :
            Weight(Book(First(rows, j - 1))[i]) < Weight(Book(First(rows, j))[i])
    BY <1>3 DEF Strict
  <1>6. /\ First(rows, Len(rows)) = rows
        /\ j \in 0 .. Len(rows) /\ j - 1 \in 0 .. Len(rows) /\ j - 1 \in k .. Len(rows)
        /\ Len(rows) \in j .. Len(rows)
    BY <1>4, PrefixFacts
  <1>7. /\ Onward(Book(First(rows, k)), Book(First(rows, j - 1)))
        /\ Onward(Book(First(rows, j)), Book(rows))
    BY <1>6, BooksGoOn
  <1> QED BY <1>5, <1>7 DEF Onward

\* A payment booked on such a beginning makes a history of one more payment.
LEMMA BookedIsHistory ==
    ASSUME NEW start, SoundBook(start), NEW whole, History(start, whole),
           NEW k \in 0 .. Len(whole), NEW rows, rows = First(whole, k), rows # << >>,
           Book(rows) = Book(whole),
           NEW p \in Payments, AmountOf[p] > 0, ~AlreadyApplied(rows, p),
           ~IsTerminal(Book(rows)[InvoiceOf[p]].state)
    PROVE  /\ History(start, Appended(rows, p))
           /\ AppliedIn(Appended(rows, p)) = AppliedIn(whole) \cup {p}
           /\ \A j \in 0 .. Len(Appended(rows, p)) - 1 :
                 Beginning(First(Appended(rows, p), j), whole)
  <1> DEFINE i == InvoiceOf[p]
             r == PaymentRow(rows, p)
             more == Appended(rows, p)
  <1>1. /\ rows \in Seq(Rows) /\ Len(rows) = k /\ k \in Nat
        /\ \A j \in 0 .. k : First(rows, j) = First(whole, j)
        /\ \A j \in 1 .. k : rows[j] = whole[j]
    <2>1. /\ First(whole, k) \in Seq(Rows) /\ Len(First(whole, k)) = k
          /\ \A j \in 1 .. k : First(whole, k)[j] = whole[j]
          /\ \A j \in 0 .. k : First(First(whole, k), j) = First(whole, j)
      BY PrefixFacts DEF History
    <2>2. k \in Nat
      OBVIOUS
    <2> QED BY <2>1, <2>2
  <1>2. /\ r \in Rows /\ more \in Seq(Rows) /\ i \in DOMAIN Amount
        /\ \A q \in Payments : Mentions(r, q) <=> q = p
        /\ \A j \in DOMAIN Amount : j # i => Book(more)[j] = Book(rows)[j]
        /\ Book(more)[i].recovered = Capped(i, Book(rows)[i].recovered + AmountOf[p])
        /\ Weight(Book(rows)[i]) < Weight(Book(more)[i])
    BY <1>1, BookedRow
  <1>3. /\ Len(more) = k + 1 /\ more # << >> /\ more[k + 1] = r
        /\ \A j \in 1 .. k : more[j] = rows[j]
    BY <1>1 DEF Appended
  <1>4. /\ First(more, k + 1) = more /\ First(more, k) = rows
        /\ \A j \in 0 .. k : First(more, j) = First(whole, j)
    <2>1. \A j \in 0 .. k : First(more, j) = First(rows, j)
      BY <1>1, <1>2, PrefixFacts DEF Appended
    <2>2. First(more, k + 1) = more
      BY <1>2, <1>3, PrefixFacts
    <2> QED BY <1>1, <2>1, <2>2
  <1>5. AppliedIn(rows) = AppliedIn(whole)
    BY SameBookSamePayments DEF History
  <1>6. /\ AppliedIn(more) = AppliedIn(whole) \cup {p}
        /\ AppliedIn(whole) \in SUBSET Payments /\ p \in Payments \ AppliedIn(whole)
    <2>1. AppliedIn(more) = AppliedIn(rows) \cup {q \in Payments : Mentions(r, q)}
      BY <1>1, <1>2, AppliedGrows DEF Appended
    <2>2. p \notin AppliedIn(rows) /\ AppliedIn(rows) \in SUBSET Payments
      BY DEF AppliedIn
    <2> QED BY <1>2, <1>5, <2>1, <2>2
  <1>7. Strict(more)
    <2> SUFFICES ASSUME NEW j \in 1 .. Len(more), NEW q \in Payments, Mentions(more[j], q)
                 PROVE  \E l \in DOMAIN Amount :
                            Weight(Book(First(more, j - 1))[l]) < Weight(Book(First(more, j))[l])
      BY DEF Strict
    <2>1. CASE j = k + 1
      BY <1>1, <1>2, <1>4, <2>1
    <2>2. CASE j # k + 1
      <3>1. /\ j \in 1 .. k /\ j \in 0 .. k /\ j - 1 \in 0 .. k /\ j \in 1 .. Len(whole)
            /\ more[j] = whole[j]
        BY <1>1, <1>3, <2>2
      <3>2. First(more, j) = First(whole, j) /\ First(more, j - 1) = First(whole, j - 1)
        BY <1>4, <3>1
      <3> QED BY <3>1, <3>2 DEF History, Strict
    <2> QED BY <2>1, <2>2
  <1>8. ASSUME NEW j \in DOMAIN Amount
        PROVE  Book(more)[j].recovered
                   = Capped(j, start[j].recovered + PaidOn(j, AppliedIn(more)))
    <2>1. /\ PaidOn(j, AppliedIn(whole)) \in Nat
          /\ PaidOn(j, AppliedIn(more))
                 = PaidOn(j, AppliedIn(whole)) + IF i = j THEN AmountOf[p] ELSE 0
      BY <1>6, PaidMoves
    <2>2. start[j].recovered \in Nat /\ Amount[j] \in Nat /\ AmountOf[p] \in Nat
      BY ReconcileAssumption DEF SoundBook, Accounts
    <2>3. Book(rows)[j].recovered = Capped(j, start[j].recovered + PaidOn(j, AppliedIn(whole)))
      BY DEF History, Full
    <2> HIDE DEF i, more
    <2>4. CASE j = i
      BY <1>2, <2>1, <2>2, <2>3, <2>4 DEF Capped
    <2>5. CASE j # i
      BY <1>2, <2>1, <2>2, <2>3, <2>5 DEF Capped
    <2> QED BY <2>4, <2>5
  <1>9. \A j \in 0 .. Len(more) - 1 : Beginning(First(more, j), whole)
    <2> TAKE j \in 0 .. Len(more) - 1
    <2>1. j \in 0 .. k /\ j \in 0 .. Len(whole)
      BY <1>1, <1>3
    <2> QED BY <1>4, <2>1 DEF Beginning
  <1> QED BY <1>2, <1>3, <1>6, <1>7, <1>8, <1>9 DEF History, Full

\* What one receiver holds and what is on disk, next to the history: d the
\* files, c the receiver, ap and ack the payments it has reconciled and
\* acknowledged, n how often it has died.
Answered(ap, ack, whole) == ap \subseteq ack /\ ack \subseteq AppliedIn(whole)

LogFile(d, whole) == \A rows \in d.log : Beginning(rows, whole)

\* A position that is not the history's own is one that was not rewritten
\* after the log was: the whole log is there to be compared with it.
FinalFile(d, c, whole) ==
    \A book \in d.final :
        \/ book = Book(whole)
        \/ d.log = {whole} /\ c.at # "log" /\ (c.at = "compare" => c.rows = whole)

SessionFile(d) == \A links \in d.session : DOMAIN links = Links

Comparing(c, whole) == c.at = "compare" => Beginning(c.rows, whole)

WritingLog(d, c, start, whole) ==
    c.at = "log" =>
        /\ History(start, c.rows)
        /\ AppliedIn(c.rows) = AppliedIn(whole) \cup {c.payment}
        /\ \A j \in 0 .. Len(c.rows) - 1 : Beginning(First(c.rows, j), whole)

\* Each file, once it is written, holds what the log does.
Written(d, c, whole) ==
    /\ c.at \in {"final", "summary", "session", "event"} =>
          c.rows = whole /\ d.log = {whole} /\ c.payment \in AppliedIn(whole)
    /\ c.at \in {"summary", "session", "event"} => d.final = {Book(whole)}
    /\ c.at \in {"session", "event"} => d.summary = {SummaryOf(whole)}
    /\ c.at = "event" => \E links \in d.session : links[LinkOf[c.payment]] = "paid"

\* The file that is open is as it was left, and gets the text it should.
Writing(d, c) ==
    c.open =>
        /\ d[c.at] = c.left
        /\ c.at = "summary" => c.text = {SummaryOf(c.rows)}
        /\ c.at = "session" =>
              \E links : /\ c.text = {links} /\ DOMAIN links = Links
                         /\ links[LinkOf[c.payment]] = "paid"

\* As long as it has not died, nothing is behind.
Undisturbed(d, c, start, ack, n, whole) ==
    n = 0 =>
        /\ c.at # "final" => \A book \in d.final : book = Book(whole)
        /\ c.at # "log" => d.log = {whole}
        /\ \A book \in d.final : \A i \in DOMAIN Amount :
              book[i].recovered >= Capped(i, start[i].recovered + PaidOn(i, ack))

Alone(d, c, ap, ack, n, start, whole) ==
    /\ History(start, whole)
    /\ Answered(ap, ack, whole)
    /\ LogFile(d, whole) /\ FinalFile(d, c, whole) /\ SessionFile(d)
    /\ Comparing(c, whole) /\ WritingLog(d, c, start, whole)
    /\ Written(d, c, whole) /\ Writing(d, c)
    /\ Undisturbed(d, c, start, ack, n, whole)

AloneInv(r) ==
    /\ RecInv
    /\ crashes \in Nat
    /\ \E whole : Alone(disk, receiver[r], applied, acknowledged, crashes, Book(run), whole)

\* With one receiver, the closed run's own log is the whole of the history.
LEMMA AloneInit ==
    ASSUME NEW r, Receivers = {r}
    PROVE  RecInit => AloneInv(r)
  <1> SUFFICES ASSUME RecInit PROVE AloneInv(r)
    OBVIOUS
  <1> DEFINE c == receiver[r]
             start == Book(run)
  <1>1. /\ run \in Closings /\ disk.log = {run} /\ disk.final = {start}
        /\ disk.session = {[l \in Links |-> "created"]}
        /\ applied = {} /\ acknowledged = {}
    BY DEF RecInit
  <1>2. c = IdleReceiver
    BY DEF RecInit
  <1>3. c.at = "idle" /\ c.open = FALSE
    BY <1>2 DEF IdleReceiver
  <1>4. History(start, run) /\ AppliedIn(run) = {} /\ SoundBook(start)
    BY <1>1, ClosingIsHistory, ClosingIsSound
  <1>5. LogFile(disk, run)
    <2>1. First(run, Len(run)) = run /\ Len(run) \in 0 .. Len(run)
      BY <1>4, PrefixFacts DEF History
    <2> QED BY <1>1, <2>1 DEF LogFile, Beginning
  <1>6. FinalFile(disk, c, run) /\ SessionFile(disk)
    BY <1>1 DEF FinalFile, SessionFile
  <1>7. ASSUME NEW i \in DOMAIN Amount
        PROVE  start[i].recovered >= Capped(i, start[i].recovered + PaidOn(i, {}))
    <2>1. PaidOn(i, {}) = 0
      BY PaidMoves
    <2>2. start[i].recovered \in Nat /\ start[i].recovered <= Amount[i] /\ Amount[i] \in Nat
      BY <1>4, ReconcileAssumption DEF SoundBook, Accounts
    <2> QED BY <2>1, <2>2 DEF Capped
  <1> HIDE DEF c, start
  <1>8. Undisturbed(disk, c, start, acknowledged, crashes, run)
    BY <1>1, <1>7 DEF Undisturbed, start
  <1>9. /\ Comparing(c, run) /\ WritingLog(disk, c, start, run)
        /\ Written(disk, c, run) /\ Writing(disk, c)
    BY <1>3 DEF Comparing, WritingLog, Written, Writing
  <1>10. Answered(applied, acknowledged, run)
    BY <1>1 DEF Answered
  <1>11. Alone(disk, c, applied, acknowledged, crashes, start, run)
    BY <1>4, <1>5, <1>6, <1>8, <1>9, <1>10 DEF Alone
  <1>12. crashes \in Nat
    BY DEF RecInit
  <1> QED BY <1>11, <1>12, RecInitIsSound DEF AloneInv, c, start

\* A history has credited every payment in it.
LEMMA HistoryCovers ==
    ASSUME NEW start, SoundBook(start), NEW whole, History(start, whole),
           NEW S, S \subseteq AppliedIn(whole)
    PROVE  \A i \in DOMAIN Amount :
              Book(whole)[i].recovered >= Capped(i, start[i].recovered + PaidOn(i, S))
  <1> TAKE i \in DOMAIN Amount
  <1>1. AppliedIn(whole) \in SUBSET Payments /\ S \in SUBSET Payments
    BY DEF AppliedIn
  <1>2. /\ PaidOn(i, S) \in Nat /\ PaidOn(i, AppliedIn(whole)) \in Nat
        /\ PaidOn(i, S) <= PaidOn(i, AppliedIn(whole))
    BY <1>1, PaidMoves
  <1>3. start[i].recovered \in Nat /\ Amount[i] \in Nat
    BY ReconcileAssumption DEF SoundBook, Accounts
  <1>4. Book(whole)[i].recovered
            = Capped(i, start[i].recovered + PaidOn(i, AppliedIn(whole)))
    BY DEF History, Full
  <1> QED BY <1>2, <1>3, <1>4 DEF Capped

\* A receiver that stops, or begins, between two files.
LEMMA StopKeepsAlone ==
    ASSUME NEW start, SoundBook(start), NEW whole, NEW d, NEW c, NEW e,
           NEW ap, NEW ack, NEW n, NEW ap2, NEW ack2, NEW n2,
           Alone(d, c, ap, ack, n, start, whole),
           e.at \in {"idle", "read"}, e.open = FALSE,
           Answered(ap2, ack2, whole),
           n2 = 0 => n = 0 /\ c.at \notin {"log", "final"}
    PROVE  Alone(d, e, ap2, ack2, n2, start, whole)
  <1>1. /\ History(start, whole) /\ LogFile(d, whole) /\ FinalFile(d, c, whole)
        /\ SessionFile(d) /\ Undisturbed(d, c, start, ack, n, whole)
    BY DEF Alone
  <1>2. FinalFile(d, e, whole)
    BY <1>1 DEF FinalFile
  <1>3. /\ Comparing(e, whole) /\ WritingLog(d, e, start, whole)
        /\ Written(d, e, whole) /\ Writing(d, e)
    BY DEF Comparing, WritingLog, Written, Writing
  <1>4. Undisturbed(d, e, start, ack2, n2, whole)
    <2> SUFFICES ASSUME n2 = 0
                 PROVE  /\ \A book \in d.final : book = Book(whole)
                        /\ d.log = {whole}
                        /\ \A book \in d.final : \A i \in DOMAIN Amount :
                              book[i].recovered
                                  >= Capped(i, start[i].recovered + PaidOn(i, ack2))
      BY DEF Undisturbed
    <2>1. (\A book \in d.final : book = Book(whole)) /\ d.log = {whole}
      BY <1>1 DEF Undisturbed
    <2>2. \A i \in DOMAIN Amount :
              Book(whole)[i].recovered >= Capped(i, start[i].recovered + PaidOn(i, ack2))
      BY <1>1, HistoryCovers DEF Answered
    <2> QED BY <2>1, <2>2
  <1> QED BY <1>1, <1>2, <1>3, <1>4 DEF Alone

\* A receiver that reads the log, and books a payment in memory.
LEMMA ReadKeepsAlone ==
    ASSUME NEW start, NEW whole, NEW d, NEW c, NEW e, NEW ap, NEW ack, NEW n, NEW rows,
           Alone(d, c, ap, ack, n, start, whole), c.at = "read",
           rows \in d.log, e.at = "compare", e.open = FALSE, e.rows = rows
    PROVE  Alone(d, e, ap, ack, n, start, whole)
  <1>1. /\ History(start, whole) /\ Answered(ap, ack, whole) /\ LogFile(d, whole)
        /\ FinalFile(d, c, whole) /\ SessionFile(d) /\ Undisturbed(d, c, start, ack, n, whole)
    BY DEF Alone
  <1>2. FinalFile(d, e, whole)
    BY <1>1 DEF FinalFile
  <1>3. Comparing(e, whole)
    BY <1>1 DEF Comparing, LogFile
  <1>4. WritingLog(d, e, start, whole) /\ Written(d, e, whole) /\ Writing(d, e)
    BY DEF WritingLog, Written, Writing
  <1>5. Undisturbed(d, e, start, ack, n, whole)
    BY <1>1 DEF Undisturbed
  <1> QED BY <1>1, <1>2, <1>3, <1>4, <1>5 DEF Alone

\* Booking a payment in memory changes no file, and leaves the receiver about to
\* write the log the history will be continued with.
LEMMA BookingKeepsAlone ==
    ASSUME NEW start, SoundBook(start), NEW whole, NEW d, NEW c, NEW e,
           NEW ap, NEW ack, NEW n, NEW rows, NEW p \in Payments,
           Alone(d, c, ap, ack, n, start, whole), c.at = "compare",
           c.rows = rows, rows # << >>, ~AlreadyApplied(rows, p), d.final = {Book(rows)},
           AmountOf[p] > 0, ~IsTerminal(Book(rows)[InvoiceOf[p]].state),
           e.at = "log", e.open = FALSE, e.rows = Appended(rows, p), e.payment = p
    PROVE  Alone(d, e, ap, ack, n, start, whole)
  <1>1. /\ History(start, whole) /\ Answered(ap, ack, whole) /\ LogFile(d, whole)
        /\ FinalFile(d, c, whole) /\ SessionFile(d) /\ Undisturbed(d, c, start, ack, n, whole)
        /\ Comparing(c, whole)
    BY DEF Alone
  <1>2. Book(rows) = Book(whole)
    BY <1>1 DEF FinalFile
  <1>3. FinalFile(d, e, whole)
    BY <1>2 DEF FinalFile
  <1>4. PICK k \in 0 .. Len(whole) : rows = First(whole, k)
    BY <1>1 DEF Comparing, Beginning
  <1>5. /\ History(start, Appended(rows, p))
        /\ AppliedIn(Appended(rows, p)) = AppliedIn(whole) \cup {p}
        /\ \A j \in 0 .. Len(Appended(rows, p)) - 1 :
              Beginning(First(Appended(rows, p), j), whole)
    BY <1>1, <1>2, <1>4, BookedIsHistory
  <1>6. WritingLog(d, e, start, whole)
    BY <1>5 DEF WritingLog
  <1>7. Comparing(e, whole) /\ Written(d, e, whole) /\ Writing(d, e)
    BY DEF Comparing, Written, Writing
  <1>8. Undisturbed(d, e, start, ack, n, whole)
    BY <1>1 DEF Undisturbed
  <1> QED BY <1>1, <1>3, <1>6, <1>7, <1>8 DEF Alone

\* What opening a file leaves of it, and what will be written.
LeftOf(file, c, left) ==
    /\ file # "log" => left = {}
    /\ file = "log" =>
          \A rows \in left : \E j \in 0 .. Len(c.rows) - 1 : rows = First(c.rows, j)

TextOf(file, c, d, text) ==
    /\ file = "summary" => text = SummaryOf(c.rows)
    /\ file = "session" =>
          \E links \in d.session : text = [links EXCEPT ![LinkOf[c.payment]] = "paid"]

\* A receiver that opens a file, and so loses what it held.
LEMMA OpeningKeepsAlone ==
    ASSUME NEW start, NEW whole, NEW d, NEW f, NEW c, NEW e, NEW ap, NEW ack, NEW n,
           NEW file \in Files, NEW text, NEW left,
           Alone(d, c, ap, ack, n, start, whole), c.at = file, c.payment \in Payments,
           e.at = file, e.open = TRUE, e.rows = c.rows, e.payment = c.payment,
           e.text = {text}, e.left = left,
           f[file] = left, \A other \in Files : other # file => f[other] = d[other],
           LeftOf(file, c, left), TextOf(file, c, d, text)
    PROVE  Alone(f, e, ap, ack, n, start, whole)
  <1>1. /\ History(start, whole) /\ Answered(ap, ack, whole) /\ LogFile(d, whole)
        /\ FinalFile(d, c, whole) /\ SessionFile(d) /\ Undisturbed(d, c, start, ack, n, whole)
        /\ WritingLog(d, c, start, whole) /\ Written(d, c, whole)
    BY DEF Alone
  <1>2. /\ f.log = IF file = "log" THEN left ELSE d.log
        /\ f.final = IF file = "final" THEN left ELSE d.final
        /\ f.summary = IF file = "summary" THEN left ELSE d.summary
        /\ f.session = IF file = "session" THEN left ELSE d.session
    BY DEF Files
  <1>3. LogFile(f, whole)
    <2>1. CASE file = "log"
      <3> SUFFICES ASSUME NEW rows \in left PROVE Beginning(rows, whole)
        BY <1>2, <2>1 DEF LogFile
      <3>1. PICK j \in 0 .. Len(c.rows) - 1 : rows = First(c.rows, j)
        BY <2>1 DEF LeftOf
      <3> QED BY <1>1, <2>1, <3>1 DEF WritingLog
    <2>2. CASE file # "log"
      BY <1>1, <1>2, <2>2 DEF LogFile
    <2> QED BY <2>1, <2>2
  <1>4. FinalFile(f, e, whole)
    BY <1>1, <1>2 DEF FinalFile, LeftOf
  <1>5. SessionFile(f)
    BY <1>1, <1>2 DEF SessionFile, LeftOf
  <1>6. Comparing(e, whole) /\ WritingLog(f, e, start, whole)
    BY <1>1 DEF Comparing, WritingLog, Files
  <1>7. Written(f, e, whole)
    BY <1>1, <1>2 DEF Written, Files, LeftOf
  <1>8. Writing(f, e)
    <2>1. CASE file = "session"
      <3>1. PICK links \in d.session : text = [links EXCEPT ![LinkOf[c.payment]] = "paid"]
        BY <2>1 DEF TextOf
      <3>2. DOMAIN links = Links /\ LinkOf[c.payment] \in Links
        BY <1>1 DEF SessionFile, Links
      <3>3. DOMAIN text = Links /\ text[LinkOf[c.payment]] = "paid"
        BY <3>1, <3>2
      <3> QED BY <2>1, <3>3 DEF Writing
    <2>2. CASE file # "session"
      BY <2>2 DEF Writing, TextOf
    <2> QED BY <2>1, <2>2
  <1>9. Undisturbed(f, e, start, ack, n, whole)
    BY <1>1, <1>2 DEF Undisturbed, LeftOf
  <1> QED BY <1>1, <1>3, <1>4, <1>5, <1>6, <1>7, <1>8, <1>9 DEF Alone

\* A receiver that closes the log has written the next page of the history.
LEMMA ClosingLogKeepsAlone ==
    ASSUME NEW start, NEW whole, NEW d, NEW f, NEW c, NEW e, NEW ap, NEW ack, NEW n,
           Alone(d, c, ap, ack, n, start, whole), c.at = "log",
           e.at = "final", e.open = FALSE, e.rows = c.rows, e.payment = c.payment,
           c.payment \in Payments,
           f.log = {c.rows}, f.final = d.final, f.session = d.session
    PROVE  Alone(f, e, ap, ack, n, start, c.rows)
  <1>1. /\ Answered(ap, ack, whole) /\ SessionFile(d)
        /\ Undisturbed(d, c, start, ack, n, whole)
        /\ History(start, c.rows) /\ AppliedIn(c.rows) = AppliedIn(whole) \cup {c.payment}
    BY DEF Alone, WritingLog
  <1>2. Answered(ap, ack, c.rows)
    BY <1>1 DEF Answered
  <1>3. LogFile(f, c.rows)
    <2>1. First(c.rows, Len(c.rows)) = c.rows /\ Len(c.rows) \in 0 .. Len(c.rows)
      BY <1>1, PrefixFacts DEF History
    <2> QED BY <2>1 DEF LogFile, Beginning
  <1>4. FinalFile(f, e, c.rows) /\ SessionFile(f)
    BY <1>1 DEF FinalFile, SessionFile
  <1>5. Comparing(e, c.rows) /\ WritingLog(f, e, start, c.rows) /\ Writing(f, e)
    BY DEF Comparing, WritingLog, Writing
  <1>6. Written(f, e, c.rows)
    BY <1>1 DEF Written
  <1>7. Undisturbed(f, e, start, ack, n, c.rows)
    BY <1>1 DEF Undisturbed
  <1> QED BY <1>1, <1>2, <1>3, <1>4, <1>5, <1>6, <1>7 DEF Alone

\* One that closes another file has brought it up to the log.
LEMMA ClosingKeepsAlone ==
    ASSUME NEW start, SoundBook(start), NEW whole, NEW d, NEW f, NEW c, NEW e,
           NEW ap, NEW ack, NEW n, NEW file \in Files \ {"log"},
           Alone(d, c, ap, ack, n, start, whole), c.at = file, c.open = TRUE,
           e.at = NextFile[file], e.open = FALSE, e.rows = c.rows, e.payment = c.payment,
           f[file] = c.text, \A other \in Files : other # file => f[other] = d[other],
           file = "final" => c.text = {Book(c.rows)}
    PROVE  Alone(f, e, ap, ack, n, start, whole)
  <1>1. /\ History(start, whole) /\ Answered(ap, ack, whole) /\ LogFile(d, whole)
        /\ FinalFile(d, c, whole) /\ SessionFile(d) /\ Undisturbed(d, c, start, ack, n, whole)
        /\ Written(d, c, whole) /\ Writing(d, c)
    BY DEF Alone
  <1>2. /\ f.log = d.log
        /\ f.final = IF file = "final" THEN {Book(c.rows)} ELSE d.final
        /\ f.summary = IF file = "summary" THEN c.text ELSE d.summary
        /\ f.session = IF file = "session" THEN c.text ELSE d.session
    BY DEF Files
  <1>3. /\ e.at = CASE file = "final" -> "summary" [] file = "summary" -> "session"
                    [] file = "session" -> "event"
        /\ file \in {"final", "summary", "session"}
    BY DEF Files, NextFile
  <1>4. c.rows = whole /\ d.log = {whole} /\ c.payment \in AppliedIn(whole)
    BY <1>1, <1>3 DEF Written
  <1>5. /\ file = "summary" => c.text = {SummaryOf(whole)}
        /\ file = "session" => \E links : /\ c.text = {links} /\ DOMAIN links = Links
                                          /\ links[LinkOf[c.payment]] = "paid"
    BY <1>1, <1>4 DEF Writing
  <1>6. \A book \in f.final : book = Book(whole)
    <2>1. CASE file = "final"
      BY <1>2, <1>4, <2>1
    <2>2. CASE file # "final"
      BY <1>1, <1>2, <1>3, <2>2 DEF Written
    <2> QED BY <2>1, <2>2
  <1>7. LogFile(f, whole) /\ FinalFile(f, e, whole)
    BY <1>1, <1>2, <1>6 DEF LogFile, FinalFile
  <1>8. SessionFile(f)
    BY <1>1, <1>2, <1>5 DEF SessionFile
  <1>9. Comparing(e, whole) /\ WritingLog(f, e, start, whole) /\ Writing(f, e)
    BY <1>3 DEF Comparing, WritingLog, Writing
  <1>10. Written(f, e, whole)
    <2>1. f.log = {whole} /\ e.rows = whole /\ e.payment \in AppliedIn(whole)
      BY <1>2, <1>4
    <2>2. f.final = {Book(whole)}
      BY <1>1, <1>2, <1>3, <1>4 DEF Written
    <2>3. e.at \in {"session", "event"} => f.summary = {SummaryOf(whole)}
      BY <1>1, <1>2, <1>3, <1>5 DEF Written
    <2>4. e.at = "event" => \E links \in f.session : links[LinkOf[e.payment]] = "paid"
      BY <1>2, <1>3, <1>5
    <2> QED BY <2>1, <2>2, <2>3, <2>4 DEF Written
  <1>11. Undisturbed(f, e, start, ack, n, whole)
    <2>1. \A i \in DOMAIN Amount :
              Book(whole)[i].recovered >= Capped(i, start[i].recovered + PaidOn(i, ack))
      BY <1>1, HistoryCovers DEF Answered
    <2> QED BY <1>2, <1>4, <1>6, <2>1 DEF Undisturbed
  <1> QED BY <1>1, <1>7, <1>8, <1>9, <1>10, <1>11 DEF Alone

\* Every step of the one receiver keeps what it and the files hold.
LEMMA AloneStep ==
    ASSUME NEW r, Receivers = {r}, AloneInv(r), [RecNext]_recVars
    PROVE  AloneInv(r)'
  <1> DEFINE start == Book(run)
             c == receiver[r]
             e == receiver'[r]
  <1>1. RecInv' /\ RecInv /\ run \in Closings /\ crashes \in Nat
    BY RecStepKeepsInv DEF AloneInv, RecInv
  <1>2. SoundBook(start) /\ SoundReceiver(start, c)
    BY <1>1, ClosingIsSound DEF RecInv
  <1>3. PICK whole : Alone(disk, c, applied, acknowledged, crashes, start, whole)
    BY DEF AloneInv
  <1>20. crashes' \in Nat
    <2>1. crashes' = crashes \/ crashes' = crashes + 1
      BY DEF recVars, RecNext, Work, Receive, ReadLog, AnswerAlreadyApplied, BookPayment,
             GiveUp, OpenFile, CloseFile, AppendEvent, Crash
    <2> QED BY <1>1, <2>1
  <1>4. SUFFICES \E page : Alone(disk', e, applied', acknowledged', crashes', Book(run'), page)
    BY <1>1, <1>20 DEF AloneInv
  <1>5. CASE UNCHANGED recVars
    BY <1>3, <1>5 DEF recVars
  <1> SUFFICES ASSUME (\E p \in Payments : Receive(r, p)) \/ Work(r) \/ Crash(r)
               PROVE  \E page : Alone(disk', e, applied', acknowledged', crashes', start, page)
    <2>1. RecNext => (\E p \in Payments : Receive(r, p)) \/ Work(r) \/ Crash(r)
      BY DEF RecNext
    <2>2. (\E p \in Payments : Receive(r, p)) \/ Work(r) \/ Crash(r) => run' = run
      BY DEF Work, Receive, ReadLog, AnswerAlreadyApplied, BookPayment, GiveUp, OpenFile,
             CloseFile, AppendEvent, Crash
    <2> QED BY <1>5, <2>1, <2>2
  <1>6. \A fields : Step(r, fields) => e = fields
    <2>1. receiver = [q \in Receivers |-> receiver[q]]
      BY <1>1 DEF RecInv
    <2> QED BY <2>1 DEF Step
  <1>7. /\ c = [field \in Fields |-> c[field]]
        /\ c.at \in Stages /\ c.open \in BOOLEAN /\ (c.open => c.at \in Files)
        /\ c.at # "idle" => c.payment \in Payments
        /\ c.at \notin {"idle", "read"} => SoundLog(start, c.rows) /\ c.rows # << >>
        /\ c.at = "compare" => ~AlreadyApplied(c.rows, c.payment)
        /\ c.at = "log" /\ c.open => c.text = {c.rows}
        /\ c.at = "final" /\ c.open => c.text = {Book(c.rows)}
    BY <1>2 DEF SoundReceiver
  <1>8. /\ History(start, whole) /\ Answered(applied, acknowledged, whole)
        /\ LogFile(disk, whole) /\ Written(disk, c, whole) /\ Writing(disk, c)
    BY <1>3 DEF Alone
  <1>9. disk = [file \in Files |-> disk[file]]
    BY <1>1 DEF RecInv, SoundDisk
  <1>10. IdleReceiver.at = "idle" /\ IdleReceiver.open = FALSE
    BY DEF IdleReceiver
  <1> HIDE DEF start, c, e
  <1>11. ASSUME NEW p \in Payments, Receive(r, p)
         PROVE  Alone(disk', e, applied', acknowledged', crashes', start, whole)
    <2>1. e = [IdleReceiver EXCEPT !.at = "read", !.payment = p]
      BY <1>6, <1>11 DEF Receive
    <2>2. e.at = "read" /\ e.open = FALSE
      BY <2>1 DEF IdleReceiver
    <2>3. UNCHANGED <<disk, applied, acknowledged, crashes>> /\ c.at = "idle"
      BY <1>11 DEF Receive, At, c
    <2> QED BY <1>2, <1>3, <1>8, <2>2, <2>3, StopKeepsAlone
  <1>12. ASSUME ReadLog(r)
         PROVE  Alone(disk', e, applied', acknowledged', crashes', start, whole)
    <2>1. PICK rows \in disk.log : e = [c EXCEPT !.at = "compare", !.rows = rows]
      BY <1>6, <1>12 DEF ReadLog, RowsOnDisk, c
    <2>2. c.at = "read" /\ c.open = FALSE /\ UNCHANGED <<disk, applied, acknowledged, crashes>>
      BY <1>7, <1>12 DEF ReadLog, At, c
    <2>3. e.at = "compare" /\ e.open = FALSE /\ e.rows = rows
      BY <1>7, <2>1, <2>2 DEF Fields
    <2> QED BY <1>3, <2>2, <2>3, ReadKeepsAlone
  <1>13. ASSUME AnswerAlreadyApplied(r)
         PROVE  Alone(disk', e, applied', acknowledged', crashes', start, whole)
    <2>1. /\ e = IdleReceiver /\ c.at = "read"
          /\ acknowledged' = acknowledged \cup {c.payment}
          /\ UNCHANGED <<disk, applied, crashes>>
      BY <1>6, <1>13 DEF AnswerAlreadyApplied, Stop, At, c
    <2>2. PICK rows \in disk.log : AlreadyApplied(rows, c.payment)
      BY <1>13 DEF AnswerAlreadyApplied, RowsOnDisk, c
    <2>3. PICK k \in 0 .. Len(whole) : rows = First(whole, k)
      BY <1>8 DEF LogFile, Beginning
    <2>4. c.payment \in AppliedIn(whole)
      <3>1. AppliedIn(First(whole, k)) \subseteq AppliedIn(whole)
        BY <1>8, AppliedGrows DEF History
      <3> QED BY <1>7, <2>1, <2>2, <2>3, <3>1 DEF AppliedIn
    <2>5. Answered(applied', acknowledged', whole)
      BY <1>8, <2>1, <2>4 DEF Answered
    <2>6. e.at = "idle" /\ e.open = FALSE /\ c.at \notin {"log", "final"}
      BY <1>10, <2>1
    <2>7. Alone(disk, e, applied', acknowledged', crashes, start, whole)
      BY <1>2, <1>3, <2>5, <2>6, StopKeepsAlone
    <2> QED BY <2>1, <2>7
  <1>14. ASSUME BookPayment(r)
         PROVE  Alone(disk', e, applied', acknowledged', crashes', start, whole)
    <2>1. /\ e = [c EXCEPT !.at = "log", !.rows = Appended(c.rows, c.payment)]
          /\ c.at = "compare" /\ c.open = FALSE
          /\ UNCHANGED <<disk, applied, acknowledged, crashes>>
      <3>1. e = [c EXCEPT !.at = "log", !.rows = Appended(@, c.payment)]
        BY <1>6, <1>14 DEF BookPayment, c
      <3> QED BY <1>7, <1>14, <3>1 DEF BookPayment, At, c
    <2>2. /\ disk.final = {Book(c.rows)} /\ AmountOf[c.payment] > 0
          /\ ~IsTerminal(Book(c.rows)[InvoiceOf[c.payment]].state)
      BY <1>14 DEF BookPayment, Accepts, ReplaysTo, c
    <2>3. /\ e.at = "log" /\ e.open = FALSE /\ e.rows = Appended(c.rows, c.payment)
          /\ e.payment = c.payment
      BY <1>7, <2>1 DEF Fields
    <2> QED BY <1>2, <1>3, <1>7, <2>1, <2>2, <2>3, BookingKeepsAlone
  <1>15. ASSUME GiveUp(r)
         PROVE  Alone(disk', e, applied', acknowledged', crashes', start, whole)
    <2>1. /\ e = IdleReceiver /\ c.at \in {"read", "compare", "summary", "session"}
          /\ UNCHANGED <<disk, applied, acknowledged, crashes>>
      BY <1>6, <1>15 DEF GiveUp, Stop, At, c
    <2> QED BY <1>2, <1>3, <1>8, <1>10, <2>1, StopKeepsAlone
  <1>16. ASSUME Crash(r)
         PROVE  Alone(disk', e, applied', acknowledged', crashes', start, whole)
    <2>1. e = IdleReceiver /\ crashes' = crashes + 1 /\ UNCHANGED <<disk, applied, acknowledged>>
      BY <1>6, <1>16 DEF Crash, Stop
    <2>2. crashes' # 0
      BY <1>1, <2>1
    <2> QED BY <1>2, <1>3, <1>8, <1>10, <2>1, <2>2, StopKeepsAlone
  <1>17. ASSUME AppendEvent(r)
         PROVE  Alone(disk', e, applied', acknowledged', crashes', start, whole)
    <2>1. /\ e = IdleReceiver /\ c.at = "event"
          /\ applied' = applied \cup {c.payment} /\ acknowledged' = acknowledged \cup {c.payment}
          /\ UNCHANGED <<disk, crashes>>
      BY <1>6, <1>17 DEF AppendEvent, Stop, At, c
    <2>2. c.payment \in AppliedIn(whole)
      BY <1>8, <2>1 DEF Written
    <2>3. Answered(applied', acknowledged', whole)
      BY <1>8, <2>1, <2>2 DEF Answered
    <2>4. e.at = "idle" /\ e.open = FALSE /\ c.at \notin {"log", "final"}
      BY <1>10, <2>1
    <2>5. Alone(disk, e, applied', acknowledged', crashes, start, whole)
      BY <1>2, <1>3, <2>3, <2>4, StopKeepsAlone
    <2> QED BY <2>1, <2>5
  <1>18. ASSUME OpenFile(r)
         PROVE  Alone(disk', e, applied', acknowledged', crashes', start, whole)
    <2> DEFINE file == c.at
    <2>0. PICK text \in Texts(r, file) : \E left \in Partly(file, text) :
              /\ disk' = [disk EXCEPT ![file] = left]
              /\ Step(r, [c EXCEPT !.open = TRUE, !.text = {text}, !.left = left])
      BY <1>18 DEF OpenFile, c
    <2>1. PICK left \in Partly(file, text) :
              /\ disk' = [disk EXCEPT ![file] = left]
              /\ Step(r, [c EXCEPT !.open = TRUE, !.text = {text}, !.left = left])
      BY <2>0
    <2>2. e = [c EXCEPT !.open = TRUE, !.text = {text}, !.left = left]
      BY <1>6, <2>1
    <2>3. file \in Files /\ UNCHANGED <<applied, acknowledged, crashes>>
      BY <1>18 DEF OpenFile, c
    <2>4. /\ disk'[file] = left /\ \A other \in Files : other # file => disk'[other] = disk[other]
      BY <1>9, <2>1, <2>3
    <2>5. /\ e.at = file /\ e.open = TRUE /\ e.rows = c.rows /\ e.payment = c.payment
          /\ e.text = {text} /\ e.left = left
      BY <1>7, <2>2 DEF Fields
    <2>6. (file = "log" => text = c.rows) /\ TextOf(file, c, disk, text)
      BY <2>0 DEF Texts, TextOf, c
    <2>7. LeftOf(file, c, left)
      BY <2>1, <2>6 DEF Partly, First, LeftOf
    <2>8. c.payment \in Payments /\ c.at = file
      BY <1>7, <2>3 DEF Files
    <2> DEFINE f == disk'
    <2>9. f[file] = left /\ \A other \in Files : other # file => f[other] = disk[other]
      BY <2>4
    <2> HIDE DEF file, f
    <2>10. Alone(f, e, applied, acknowledged, crashes, start, whole)
      BY <1>3, <2>3, <2>5, <2>6, <2>7, <2>8, <2>9, OpeningKeepsAlone, ZenonT(60)
    <2> QED BY <2>3, <2>10 DEF f
  <1>19. ASSUME CloseFile(r)
         PROVE  \E page : Alone(disk', e, applied', acknowledged', crashes', start, page)
    <2> DEFINE file == c.at
    <2>1. /\ c.open = TRUE /\ file \in Files /\ UNCHANGED <<applied, acknowledged, crashes>>
          /\ c.payment \in Payments
      BY <1>7, <1>19 DEF CloseFile, c, Files
    <2>2. ~Disturbed(r)
      BY <1>8, <2>1 DEF Disturbed, Writing, c
    <2>3. disk' = [disk EXCEPT ![file] = c.text]
      BY <1>19, <2>2 DEF CloseFile, c
    <2>4. e = [c EXCEPT !.at = NextFile[file], !.open = FALSE, !.text = {}, !.left = {}]
      <3>1. e = [c EXCEPT !.at = NextFile[@], !.open = FALSE, !.text = {}, !.left = {}]
        BY <1>6, <1>19 DEF CloseFile, c
      <3> QED BY <1>7, <3>1 DEF Fields
    <2>5. disk'[file] = c.text /\ \A other \in Files : other # file => disk'[other] = disk[other]
      BY <1>9, <2>1, <2>3
    <2>6. e.at = NextFile[file] /\ e.open = FALSE /\ e.rows = c.rows /\ e.payment = c.payment
      BY <1>7, <2>4 DEF Fields
    <2>7. /\ file = "log" => c.text = {c.rows}
          /\ file = "final" => c.text = {Book(c.rows)}
      BY <1>7, <2>1
    <2>8. c.at = file
      OBVIOUS
    <2> HIDE DEF file
    <2>9. CASE file = "log"
      <3>1. disk'.log = {c.rows} /\ disk'.final = disk.final /\ disk'.session = disk.session
        BY <2>5, <2>7, <2>9 DEF Files
      <3>2. e.at = "final"
        BY <2>6, <2>9 DEF NextFile
      <3>3. Alone(disk', e, applied, acknowledged, crashes, start, c.rows)
        BY <1>3, <2>1, <2>6, <2>8, <2>9, <3>1, <3>2, ClosingLogKeepsAlone
      <3> QED BY <2>1, <3>3
    <2>10. CASE file # "log"
      <3>1. file \in Files \ {"log"}
        BY <2>1, <2>10
      <3>2. Alone(disk', e, applied, acknowledged, crashes, start, whole)
        BY <1>2, <1>3, <2>1, <2>5, <2>6, <2>7, <2>8, <3>1, ClosingKeepsAlone
      <3> QED BY <2>1, <3>2
    <2> QED BY <2>9, <2>10
  <1> QED BY <1>11, <1>12, <1>13, <1>14, <1>15, <1>16, <1>17, <1>18, <1>19 DEF Work

\* One receiver, however often it dies: there is always a history its files
\* and itself are part of.
THEOREM AloneInvariant ==
    ASSUME NEW r, Receivers = {r} PROVE RecSpec => []AloneInv(r)
  <1>1. RecInit => AloneInv(r)
    BY AloneInit
  <1>2. AloneInv(r) /\ [RecNext]_recVars => AloneInv(r)'
    BY AloneStep
  <1> QED BY <1>1, <1>2, PTL DEF RecSpec

\* What one receiver answers for is in the position, and what it has reconciled
\* is a row of the log unless the log is open: as long as it has not died, and
\* afterwards whenever the log replays to the position.
THEOREM AnsweredIsAlwaysKept ==
    ASSUME NEW r, Receivers = {r} PROVE RecSpec => []AnsweredIsKept
  <1>1. AloneInv(r) => AnsweredIsKept
    <2> SUFFICES ASSUME AloneInv(r), crashes = 0 \/ \E rows \in disk.log : ReplaysTo(rows)
                 PROVE  AcknowledgedIsBooked /\ AppliedRowsStay
      BY DEF AnsweredIsKept
    <2> DEFINE c == receiver[r]
               start == Book(run)
    <2>1. PICK whole : Alone(disk, c, applied, acknowledged, crashes, start, whole)
      BY DEF AloneInv
    <2>2. SoundBook(start)
      BY ClosingIsSound DEF AloneInv, RecInv
    <2> HIDE DEF c, start
    <2>3. applied \subseteq acknowledged /\ acknowledged \subseteq AppliedIn(whole)
      BY <2>1 DEF Alone, Answered
    <2>4. CASE crashes = 0
      <3>1. /\ c.at # "log" => disk.log = {whole}
            /\ \A book \in disk.final : \A i \in DOMAIN Amount :
                  book[i].recovered >= Capped(i, start[i].recovered + PaidOn(i, acknowledged))
        BY <2>1, <2>4 DEF Alone, Undisturbed
      <3>2. AcknowledgedIsBooked
        BY <3>1 DEF AcknowledgedIsBooked, start
      <3>3. AppliedRowsStay
        BY <2>3, <3>1 DEF AppliedRowsStay, AppliedIn, c
      <3> QED BY <3>2, <3>3
    \* The position is the history's own, and then so are the log's payments.
    <2>5. CASE \E rows \in disk.log : ReplaysTo(rows)
      <3>1. PICK rows \in disk.log : disk.final = {Book(rows)}
        BY <2>5 DEF ReplaysTo
      <3>2. PICK k \in 0 .. Len(whole) : rows = First(whole, k)
        BY <2>1 DEF Alone, LogFile, Beginning
      <3>3. Book(rows) = Book(whole)
        BY <2>1, <3>1 DEF Alone, FinalFile
      <3>4. whole \in Seq(Rows) /\ Strict(whole) /\ History(start, whole)
        BY <2>1 DEF Alone, History
      <3>5. AppliedIn(rows) = AppliedIn(whole)
        BY <3>2, <3>3, <3>4, SameBookSamePayments
      <3>6. AcknowledgedIsBooked
        <4>1. \A i \in DOMAIN Amount :
                 Book(whole)[i].recovered
                    >= Capped(i, start[i].recovered + PaidOn(i, acknowledged))
          BY <2>2, <2>3, <3>4, HistoryCovers
        <4> QED BY <3>1, <3>3, <4>1 DEF AcknowledgedIsBooked, start
      <3>7. AppliedRowsStay
        BY <2>3, <3>1, <3>5 DEF AppliedRowsStay, AppliedIn
      <3> QED BY <3>6, <3>7
    <2> QED BY <2>4, <2>5
  <1> QED BY <1>1, AloneInvariant, PTL

\* The answer to a reconciliation is the last of its steps.
LEMMA AppliedIsAnEvent ==
    ASSUME NEW r, Receivers = {r}, [RecNext]_recVars, applied' # applied
    PROVE  /\ receiver[r].at = "event"
           /\ applied' = applied \cup {receiver[r].payment}
  <1>1. AppendEvent(r)
    BY DEF recVars, RecNext, Work, Receive, ReadLog, AnswerAlreadyApplied, BookPayment, GiveUp,
           OpenFile, CloseFile, Crash
  <1> QED BY <1>1 DEF AppendEvent, At

\* When a payment is answered "reconciled", the log holds it, the position and
\* the summary are the log's, and its link is marked paid.
THEOREM AppliedIsAlwaysBooked ==
    ASSUME NEW r, Receivers = {r} PROVE RecSpec => AppliedIsBooked
  <1> DEFINE booked ==
        \A p \in applied' \ applied :
            \E rows \in disk.log :
                /\ AlreadyApplied(rows, p)
                /\ disk.final = {Book(rows)}
                /\ disk.summary = {[recovered |-> Recovered(Book(rows)), rows |-> Len(rows)]}
                /\ \E links \in disk.session : links[LinkOf[p]] = "paid"
  <1>1. AloneInv(r) /\ [RecNext]_recVars => [booked]_recVars
    <2> SUFFICES ASSUME AloneInv(r), [RecNext]_recVars, NEW p \in applied' \ applied
                 PROVE  \E rows \in disk.log :
                            /\ AlreadyApplied(rows, p)
                            /\ disk.final = {Book(rows)}
                            /\ disk.summary = {SummaryOf(rows)}
                            /\ \E links \in disk.session : links[LinkOf[p]] = "paid"
      BY DEF SummaryOf
    <2> DEFINE c == receiver[r]
    <2>1. c.at = "event" /\ p = c.payment
      BY AppliedIsAnEvent
    <2>2. PICK whole : Alone(disk, c, applied, acknowledged, crashes, Book(run), whole)
      BY DEF AloneInv
    <2> HIDE DEF c
    <2>3. /\ disk.log = {whole} /\ p \in AppliedIn(whole) /\ disk.final = {Book(whole)}
          /\ disk.summary = {SummaryOf(whole)}
          /\ \E links \in disk.session : links[LinkOf[p]] = "paid"
      BY <2>1, <2>2 DEF Alone, Written
    <2> QED BY <2>3 DEF AppliedIn
  <1> QED BY <1>1, AloneInvariant, PTL DEF RecSpec, AppliedIsBooked

\* No payment is reconciled on a log that has lost one acknowledged before: a
\* log cut short by a crash does not replay to final.json, whatever it lost.
THEOREM HistoryIsAlwaysWhole ==
    ASSUME NEW r, Receivers = {r} PROVE RecSpec => HistoryIsWhole
  <1> DEFINE kept ==
        applied' # applied =>
            \A p \in acknowledged : \E rows \in disk.log : AlreadyApplied(rows, p)
  <1>1. AloneInv(r) /\ [RecNext]_recVars => [kept]_recVars
    <2> SUFFICES ASSUME AloneInv(r), [RecNext]_recVars, applied' # applied,
                        NEW p \in acknowledged
                 PROVE  \E rows \in disk.log : AlreadyApplied(rows, p)
      OBVIOUS
    <2> DEFINE c == receiver[r]
    <2>1. c.at = "event"
      BY AppliedIsAnEvent
    <2>2. PICK whole : Alone(disk, c, applied, acknowledged, crashes, Book(run), whole)
      BY DEF AloneInv
    <2> HIDE DEF c
    <2>3. disk.log = {whole} /\ acknowledged \subseteq AppliedIn(whole)
      BY <2>1, <2>2 DEF Alone, Written, Answered
    <2> QED BY <2>3 DEF AppliedIn
  <1> QED BY <1>1, AloneInvariant, PTL DEF RecSpec, HistoryIsWhole
=============================================================================
