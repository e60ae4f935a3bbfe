---------------------------- MODULE ServiceProofs ----------------------------
(***************************************************************************)
(* What a run is served with: the model's answers, which the reasoner       *)
(* caches, counts and replaces when it must; the deadlines the clock makes  *)
(* of a payer's words; and the batch it starts from.  The three modules     *)
(* have nothing in common, neither constants nor variables.                 *)
(*                                                                         *)
(* For the promises: the calendar of Promises is one (every day is in one   *)
(* month, every month is followed by the next), so that a deadline is       *)
(* ahead, at the end of its day, and on the nearest day that fits the       *)
(* words, whenever they are said.                                           *)
(*                                                                         *)
(* For the batch: the shares of any size asked for add up and are fair, and *)
(* the cluster repeats itself only when its templates are used up.          *)
(***************************************************************************)
EXTENDS Reasoner, PromiseClock, Generator, LedgerProofs

-----------------------------------------------------------------------------
(* The guard rails of the reasoner, for any inputs, answers, contracts and  *)
(* budgets.  The inductive invariant adds to the properties what a later    *)
(* step rests on: a closed circuit has failures to spare, and each answer a *)
(* process remembers says what the cache, or the budget, must still hold.   *)

Entries == [output : Answers, contract : Contracts]

ReasonerTypeOK ==
    /\ disk \in [Inputs -> SUBSET Entries]
    /\ contract \in Contracts /\ permitted \in BOOLEAN /\ open \in BOOLEAN
    /\ calls \in Nat /\ failures \in Nat /\ restarts \in Nat
    /\ last \in [Inputs -> {Unasked} \cup [how : Hows, output : Answers]]
    /\ spoken \subseteq [input : Inputs, output : Answers, contract : Contracts]

\* A file holds one entry; what was read from it or written to it is in it;
\* and what was out of reach is out of reach.
Remembered ==
    \A i \in Inputs :
        /\ last[i].how \in {"cache", "stored"} =>
              disk[i] = {[output |-> last[i].output, contract |-> contract]}
        /\ last[i].how = "unavailable" =>
              Cached(i) = {} /\ ~Available /\ last[i].output = FallbackOf[i]

OneEntry == \A i \in Inputs : \A d \in disk[i], e \in disk[i] : d = e

ReasonerInv ==
    /\ ReasonerTypeOK /\ OneEntry /\ Remembered
    /\ OnlyTheModelIsCached /\ SpendIsCapped
    /\ ~open => failures < FailureLimit

\* The counts of calls, of failures and of restarts are natural numbers.
LEMMA Counters ==
    ASSUME ReasonerInv
    PROVE  calls \in Nat /\ failures \in Nat /\ restarts \in Nat
  BY DEF ReasonerInv, ReasonerTypeOK

\* An answer the cache gave or took is still there to be found.
LEMMA StoredIsFound ==
    ASSUME ReasonerInv, NEW j \in Inputs, last[j].how \in {"cache", "stored"}
    PROVE  Cached(j) # {}
  <1>1. disk[j] = {[output |-> last[j].output, contract |-> contract]}
    BY DEF ReasonerInv, Remembered
  <1>2. [output |-> last[j].output, contract |-> contract].contract = contract
    OBVIOUS
  <1>3. [output |-> last[j].output, contract |-> contract] \in Cached(j)
    BY <1>1, <1>2, Zenon DEF Cached
  <1> QED BY <1>3

\* The invariant holds of an empty cache and a process that has asked nothing.
LEMMA ReasonerStarts == ReasonerInit => ReasonerInv
  <1> SUFFICES ASSUME ReasonerInit PROVE ReasonerInv
    OBVIOUS
  <1>1. \A i \in Inputs : last[i].how = "none" /\ last[i] = Unasked /\ disk[i] = {}
    BY DEF ReasonerInit, Unasked
  <1>2. ReasonerTypeOK
    BY DEF ReasonerInit, ReasonerTypeOK
  <1>3. OneEntry /\ Remembered /\ OnlyTheModelIsCached
    BY <1>1 DEF OneEntry, Remembered, OnlyTheModelIsCached
  <1>4. SpendIsCapped /\ failures < FailureLimit
    BY ReasonerAssumption DEF ReasonerInit, SpendIsCapped
  <1> QED BY <1>2, <1>3, <1>4 DEF ReasonerInv

\* A hit gives what the file holds, which is what the model said.
LEMMA HitKeeps ==
    ASSUME ReasonerInv, NEW i \in Inputs, AnswerFromCache(i)
    PROVE  ReasonerInv'
  <1>1. PICK e \in Cached(i) : last' = [last EXCEPT ![i] = [how |-> "cache", output |-> e.output]]
    BY DEF AnswerFromCache, Give
  <1>2. e \in disk[i] /\ e.contract = contract /\ e \in Entries
    BY DEF Cached, ReasonerInv, ReasonerTypeOK
  <1>3. disk[i] = {[output |-> e.output, contract |-> contract]}
    BY <1>2 DEF ReasonerInv, OneEntry, Entries
  <1>4. UNCHANGED <<disk, calls, failures, open, spoken, contract, permitted, restarts>>
    BY DEF AnswerFromCache, process
  <1>5. ReasonerTypeOK' /\ OneEntry' /\ SpendIsCapped' /\ (~open => failures < FailureLimit)'
    BY <1>1, <1>2, <1>4
    DEF ReasonerInv, ReasonerTypeOK, OneEntry, SpendIsCapped, Hows, Entries
  <1>6. Remembered'
    BY <1>1, <1>3, <1>4 DEF ReasonerInv, ReasonerTypeOK, Remembered, Cached, Available
  <1>7. OnlyTheModelIsCached'
    BY <1>1, <1>2, <1>4 DEF ReasonerInv, ReasonerTypeOK, OnlyTheModelIsCached
  <1> QED BY <1>5, <1>6, <1>7 DEF ReasonerInv

\* The fallback, for want of a call or after one that failed, is not stored.
LEMMA FallbackKeeps ==
    ASSUME ReasonerInv, NEW i \in Inputs,
           AnswerUnavailable(i) \/ \E asked \in BOOLEAN : CallFails(i, asked)
    PROVE  ReasonerInv'
  <1>1. /\ UNCHANGED <<disk, spoken, contract, permitted, restarts>> /\ Cached(i) = {}
        /\ permitted' = permitted
    BY DEF AnswerUnavailable, CallFails, process
  <1>2. PICK how \in {"unavailable", "failed"} :
            /\ last' = [last EXCEPT ![i] = [how |-> how, output |-> FallbackOf[i]]]
            /\ how = "unavailable" => ~Available /\ UNCHANGED <<calls, failures, open>>
    BY DEF AnswerUnavailable, CallFails, Give
  <1>3. /\ calls' \in Nat /\ failures' \in Nat /\ open' \in BOOLEAN
        /\ calls' >= calls /\ (open => open')
        /\ SpendIsCapped' /\ (~open => failures < FailureLimit)'
    <2>1. CASE AnswerUnavailable(i)
      BY <2>1, <1>1 DEF AnswerUnavailable, ReasonerInv, ReasonerTypeOK, SpendIsCapped
    <2>2. ASSUME NEW asked \in BOOLEAN, CallFails(i, asked)
          PROVE  /\ calls' \in Nat /\ failures' \in Nat /\ open' \in BOOLEAN
                 /\ calls' >= calls /\ (open => open')
                 /\ SpendIsCapped' /\ (~open => failures < FailureLimit)'
      <3>1. permitted /\ ~open /\ calls < MaxCalls
        BY <2>2 DEF CallFails, Available
      <3>2. /\ calls' = IF asked THEN calls + 1 ELSE calls
            /\ failures' = failures + 1
            /\ open' = (open \/ failures + 1 >= FailureLimit)
        BY <2>2 DEF CallFails
      <3>3. calls \in Nat /\ failures \in Nat /\ failures < FailureLimit
        BY <3>1 DEF ReasonerInv, ReasonerTypeOK
      <3>4. calls' \in Nat /\ calls' >= calls /\ calls' <= MaxCalls
        BY <3>1, <3>2, <3>3, ReasonerAssumption
      <3>5. failures' \in Nat /\ failures' <= FailureLimit
        BY <3>2, <3>3, ReasonerAssumption
      <3>6. open' \in BOOLEAN /\ (~open' => failures' < FailureLimit)
        <4>1. open' \in BOOLEAN /\ (~open' => ~(failures + 1 >= FailureLimit))
          BY <3>2, Zenon
        <4> QED BY <4>1, <3>2, <3>3, ReasonerAssumption
      <3>7. permitted'
        BY <1>1, <3>1
      <3> QED BY <3>1, <3>4, <3>5, <3>6, <3>7 DEF SpendIsCapped
    <2> QED BY <2>1, <2>2
  <1>4. ReasonerTypeOK' /\ OneEntry'
    BY <1>1, <1>2, <1>3, ReasonerAssumption DEF ReasonerInv, ReasonerTypeOK, OneEntry, Hows
  <1>5. Remembered'
    BY <1>1, <1>2, <1>3, ReasonerAssumption
    DEF ReasonerInv, ReasonerTypeOK, Remembered, Cached, Available
  <1>6. OnlyTheModelIsCached'
    BY <1>1, <1>2 DEF ReasonerInv, ReasonerTypeOK, OnlyTheModelIsCached
  <1> QED BY <1>3, <1>4, <1>5, <1>6 DEF ReasonerInv

\* A usable answer is spoken, counted, and stored if it can be.
LEMMA SuccessKeeps ==
    ASSUME ReasonerInv, NEW i \in Inputs, NEW output \in Answers, NEW written \in BOOLEAN,
           CallSucceeds(i, output, written)
    PROVE  ReasonerInv'
  <1> DEFINE heard == [input |-> i, output |-> output, contract |-> contract]
             entry == [output |-> output, contract |-> contract]
             manner == IF written THEN "stored" ELSE "not stored"
  <1>1. /\ UNCHANGED <<open, contract, restarts>> /\ permitted' = permitted
        /\ permitted /\ calls < MaxCalls
    BY DEF CallSucceeds, process, Available
  <1>2. calls' = calls + 1 /\ failures' = 0
    BY DEF CallSucceeds
  <1>3. calls' \in Nat /\ failures' \in Nat /\ calls' <= MaxCalls /\ failures' < FailureLimit
    BY <1>1, <1>2, Counters, ReasonerAssumption
  <1>4. /\ spoken' = spoken \cup {heard}
        /\ disk' = IF written THEN [disk EXCEPT ![i] = {entry}] ELSE disk
    BY DEF CallSucceeds, Entry
  <1>5. last' = [last EXCEPT ![i] = [how |-> manner, output |-> output]]
    BY DEF CallSucceeds, Give
  <1>6. /\ manner \in Hows /\ manner # "cache" /\ manner # "unavailable"
        /\ manner = "stored" => written
    BY DEF Hows
  <1> HIDE DEF manner
  <1>7. heard \in [input : Inputs, output : Answers, contract : Contracts] /\ entry \in Entries
    BY DEF ReasonerInv, ReasonerTypeOK, Entries
  <1>8. \A j \in Inputs : disk'[j] = IF written /\ j = i THEN {entry} ELSE disk[j]
    BY <1>4 DEF ReasonerInv, ReasonerTypeOK
  <1>9. \A j \in Inputs :
            last'[j] = IF j = i THEN [how |-> manner, output |-> output] ELSE last[j]
    BY <1>5 DEF ReasonerInv, ReasonerTypeOK
  <1>10. ReasonerTypeOK'
    <2>1. disk' \in [Inputs -> SUBSET Entries]
      <3>1. CASE written
        BY <3>1, <1>4, <1>7 DEF ReasonerInv, ReasonerTypeOK
      <3>2. CASE ~written
        BY <3>2, <1>4 DEF ReasonerInv, ReasonerTypeOK
      <3> QED BY <3>1, <3>2
    <2>2. last' \in [Inputs -> {Unasked} \cup [how : Hows, output : Answers]]
      BY <1>5, <1>6 DEF ReasonerInv, ReasonerTypeOK
    <2>3. spoken' \subseteq [input : Inputs, output : Answers, contract : Contracts]
      BY <1>4, <1>7 DEF ReasonerInv, ReasonerTypeOK
    <2>4. /\ contract' \in Contracts /\ permitted' \in BOOLEAN /\ open' \in BOOLEAN
          /\ restarts' \in Nat
      BY <1>1 DEF ReasonerInv, ReasonerTypeOK
    <2> QED BY <1>3, <2>1, <2>2, <2>3, <2>4 DEF ReasonerTypeOK
  <1>11. OneEntry'
    BY <1>8 DEF ReasonerInv, OneEntry
  <1>12. SpendIsCapped' /\ (~open => failures < FailureLimit)'
    <2>1. permitted'
      BY <1>1
    <2>2. calls' <= MaxCalls /\ failures' < FailureLimit /\ failures' <= FailureLimit
      BY <1>3, ReasonerAssumption
    <2> QED BY <2>1, <2>2 DEF SpendIsCapped
  <1>13. Remembered'
    <2> SUFFICES ASSUME NEW j \in Inputs
                 PROVE  /\ last'[j].how \in {"cache", "stored"} =>
                              disk'[j] = {[output |-> last'[j].output, contract |-> contract']}
                        /\ last'[j].how = "unavailable" =>
                              Cached(j)' = {} /\ ~Available' /\ last'[j].output = FallbackOf[j]
      BY DEF Remembered
    <2>1. CASE j = i
      <3>1. last'[j].how = manner /\ last'[j].output = output
        BY <2>1, <1>9
      <3>2. manner = "stored" => disk'[j] = {[output |-> output, contract |-> contract']}
        BY <2>1, <1>1, <1>6, <1>8
      <3> QED BY <3>1, <3>2, <1>6
    <2>2. CASE j # i /\ last[j].how \in {"cache", "stored"}
      BY <2>2, <1>1, <1>8, <1>9 DEF ReasonerInv, Remembered
    <2>3. last[j].how # "unavailable"
      BY DEF ReasonerInv, Remembered, CallSucceeds
    <2> QED BY <2>1, <2>2, <2>3, <1>9
  <1>14. OnlyTheModelIsCached'
    <2>1. \A j \in Inputs : \A e \in disk'[j] :
              [input |-> j, output |-> e.output, contract |-> e.contract] \in spoken'
      <3> SUFFICES ASSUME NEW j \in Inputs, NEW e \in disk'[j]
                   PROVE  [input |-> j, output |-> e.output, contract |-> e.contract] \in spoken'
        OBVIOUS
      <3>1. CASE e \in disk[j]
        BY <3>1, <1>4 DEF ReasonerInv, OnlyTheModelIsCached
      <3>2. CASE j = i /\ e = entry
        BY <3>2, <1>4
      <3> QED BY <3>1, <3>2, <1>8
    <2>2. \A j \in Inputs : last'[j].how = "cache" =>
              [input |-> j, output |-> last'[j].output, contract |-> contract'] \in spoken'
      <3> SUFFICES ASSUME NEW j \in Inputs, last'[j].how = "cache"
                   PROVE  [input |-> j, output |-> last'[j].output, contract |-> contract'] \in spoken'
        OBVIOUS
      <3>1. last'[j] = last[j]
        <4>1. CASE j = i
          BY <4>1, <1>6, <1>9
        <4> QED BY <4>1, <1>9
      <3> QED BY <3>1, <1>1, <1>4 DEF ReasonerInv, OnlyTheModelIsCached
    <2> QED BY <2>1, <2>2 DEF OnlyTheModelIsCached
  <1> QED BY <1>10, <1>11, <1>12, <1>13, <1>14 DEF ReasonerInv

\* A restarted process, under whatever contract, finds the file as it was left
\* and its own counters at nothing.
LEMMA StartKeeps ==
    ASSUME ReasonerInv, StartProcess
    PROVE  ReasonerInv'
  <1>1. /\ UNCHANGED <<disk, spoken>>
        /\ restarts' = restarts + 1
        /\ contract' \in Contracts /\ permitted' \in BOOLEAN
        /\ calls' = 0 /\ failures' = 0 /\ open' = FALSE
        /\ last' = [i \in Inputs |-> Unasked]
    BY DEF StartProcess
  <1>2. \A i \in Inputs : last'[i].how = "none"
    BY <1>1 DEF Unasked
  <1>3. ReasonerTypeOK'
    <2>1. last' \in [Inputs -> {Unasked} \cup [how : Hows, output : Answers]]
      BY <1>1
    <2>2. calls' \in Nat /\ failures' \in Nat /\ restarts' \in Nat
      BY <1>1, Counters
    <2>3. open' \in BOOLEAN
      BY <1>1, Zenon
    <2>4. /\ disk' \in [Inputs -> SUBSET Entries]
          /\ spoken' \subseteq [input : Inputs, output : Answers, contract : Contracts]
      BY <1>1 DEF ReasonerInv, ReasonerTypeOK
    <2> QED BY <1>1, <2>1, <2>2, <2>3, <2>4 DEF ReasonerTypeOK
  <1>4. OneEntry'
    BY <1>1 DEF ReasonerInv, OneEntry
  <1>5. Remembered'
    BY <1>2 DEF Remembered
  <1>6. OnlyTheModelIsCached'
    BY <1>1, <1>2 DEF ReasonerInv, OnlyTheModelIsCached
  <1>7. SpendIsCapped' /\ failures' < FailureLimit
    BY <1>1, ReasonerAssumption DEF SpendIsCapped
  <1> QED BY <1>3, <1>5, <1>6, <1>7, <1>4 DEF ReasonerInv

\* Every step of the reasoner keeps the invariant.
LEMMA ReasonerSteps == ReasonerInv /\ [ReasonerNext]_reasonerVars => ReasonerInv'
  <1> SUFFICES ASSUME ReasonerInv, [ReasonerNext]_reasonerVars PROVE ReasonerInv'
    OBVIOUS
  <1>1. CASE UNCHANGED reasonerVars
    BY <1>1
    DEF reasonerVars, ReasonerInv, ReasonerTypeOK, OneEntry, Remembered, Cached, Available,
        OnlyTheModelIsCached, SpendIsCapped
  <1>2. CASE ReasonerNext
    BY <1>2, HitKeeps, FallbackKeeps, SuccessKeeps, StartKeeps DEF ReasonerNext
  <1> QED BY <1>1, <1>2

\* The invariant holds throughout every history of processes.
LEMMA ReasonerInvariant == ReasonerSpec => []ReasonerInv
  BY ReasonerStarts, ReasonerSteps, PTL DEF ReasonerSpec

\* Only what the model said, for that input and that contract, is ever cached
\* or given for a hit.
THEOREM OnlyTheModelIsEverCached == ReasonerSpec => []OnlyTheModelIsCached
  <1>1. ReasonerInv => OnlyTheModelIsCached
    BY DEF ReasonerInv
  <1> QED BY <1>1, ReasonerInvariant, PTL

\* No process spends more calls than its budget, any without permission, or
\* more consecutive failures than the circuit allows.
THEOREM SpendIsAlwaysCapped == ReasonerSpec => []SpendIsCapped
  <1>1. ReasonerInv => SpendIsCapped
    BY DEF ReasonerInv
  <1> QED BY <1>1, ReasonerInvariant, PTL

\* What one pass was given of the cache, stored there or was refused for want
\* of a model, the next pass of the process is given again.
THEOREM AnswersAlwaysRepeat == ReasonerSpec => AnswersRepeat
  <1> DEFINE Repeat(i) ==
        (last[i].how \in {"cache", "stored", "unavailable"} /\ restarts' = restarts)
            => last'[i].output = last[i].output
  <1>1. ReasonerInv /\ [ReasonerNext]_reasonerVars
            => [\A i \in Inputs : Repeat(i)]_reasonerVars
    <2> SUFFICES ASSUME ReasonerInv, ReasonerNext, NEW j \in Inputs,
                        last[j].how \in {"cache", "stored", "unavailable"},
                        restarts' = restarts
                 PROVE  last'[j].output = last[j].output
      OBVIOUS
    <2>1. CASE StartProcess
      BY <2>1 DEF StartProcess, ReasonerInv, ReasonerTypeOK
    <2>2. ASSUME NEW i \in Inputs, i # j,
                 \/ AnswerFromCache(i) \/ AnswerUnavailable(i)
                 \/ \E output \in Answers, written \in BOOLEAN : CallSucceeds(i, output, written)
                 \/ \E asked \in BOOLEAN : CallFails(i, asked)
          PROVE  last'[j] = last[j]
      BY <2>2
      DEF AnswerFromCache, AnswerUnavailable, CallSucceeds, CallFails, Give, ReasonerInv,
          ReasonerTypeOK
    <2>3. CASE AnswerFromCache(j)
      BY <2>3 DEF AnswerFromCache, Give, Cached, ReasonerInv, ReasonerTypeOK, Remembered
    <2>4. CASE AnswerUnavailable(j)
      <3>1. last'[j].output = FallbackOf[j] /\ Cached(j) = {}
        BY <2>4 DEF AnswerUnavailable, Give, ReasonerInv, ReasonerTypeOK
      <3>2. last[j].how = "unavailable"
        BY <3>1, StoredIsFound
      <3> QED BY <3>1, <3>2 DEF ReasonerInv, Remembered
    <2>5. Cached(j) = {} /\ Available => FALSE
      <3>1. CASE last[j].how \in {"cache", "stored"}
        BY <3>1, StoredIsFound
      <3>2. CASE last[j].how = "unavailable"
        BY <3>2 DEF ReasonerInv, Remembered
      <3> QED BY <3>1, <3>2
    <2> QED BY <2>1, <2>2, <2>3, <2>4, <2>5 DEF ReasonerNext, CallSucceeds, CallFails
  <1> QED BY <1>1, ReasonerInvariant, PTL DEF ReasonerSpec, AnswersRepeat

-----------------------------------------------------------------------------
(* The calendar.                                                            *)

\* A non-empty set of natural numbers has a least element.
LEMMA LeastNumber ==
    ASSUME NEW T \in SUBSET Nat, T # {}
    PROVE  \E x \in T : \A y \in T : x <= y
  <1>1. PICK x \in T : \A y \in T : ~ (<<y, x>> \in OpToRel(<, Nat))
    BY NatLessThanWellFounded, WFMin
  <1>2. \A y \in T : ~(y < x)
    BY <1>1 DEF OpToRel
  <1> QED BY <1>2

\* From one year to the next the leap days grow by the year's own.
LEMMA LeapDaysGrow ==
    ASSUME NEW y \in Nat, y > 0
    PROVE  /\ LeapDays(y) \in Int /\ LeapDays(y - 1) \in Int
           /\ LeapDays(y) = LeapDays(y - 1) + (IF Leap(y) THEN 1 ELSE 0)
  <1>1. y \div 4 = (y - 1) \div 4 + (IF y % 4 = 0 THEN 1 ELSE 0)
    OBVIOUS
  <1>2. y \div 100 = (y - 1) \div 100 + (IF y % 100 = 0 THEN 1 ELSE 0)
    OBVIOUS
  <1>3. y \div 400 = (y - 1) \div 400 + (IF y % 400 = 0 THEN 1 ELSE 0)
    OBVIOUS
  <1>4. (y % 400 = 0 => y % 100 = 0) /\ (y % 100 = 0 => y % 4 = 0)
    OBVIOUS
  <1> QED BY <1>1, <1>2, <1>3, <1>4 DEF LeapDays, Leap

\* The months go round the year.
LEMMA MonthsGoRound ==
    ASSUME NEW m \in Nat
    PROVE  /\ MonthNumber(m) \in 1 .. 12 /\ YearOf(m) \in Nat /\ YearOf(m) >= 2026
           /\ MonthNumber(m) = 12 => MonthNumber(m + 1) = 1 /\ YearOf(m + 1) = YearOf(m) + 1
           /\ MonthNumber(m) # 12 =>
                  MonthNumber(m + 1) = MonthNumber(m) + 1 /\ YearOf(m + 1) = YearOf(m)
  BY DEF MonthNumber, YearOf

\* A month starts the days of the years before it, of the months before it and
\* of a leap February before it, after the epoch's year.
LEMMA MonthStarts ==
    ASSUME NEW m \in Nat, NEW n, n = MonthNumber(m), NEW y, y = YearOf(m)
    PROVE  MonthStart(m) = 365 * (y - 2026) + LeapDays(y - 1) - LeapDays(2025) - 95
                           + DaysBefore[n] + (IF n > 2 /\ Leap(y) THEN 1 ELSE 0)
  <1>1. n \in 1 .. 12 /\ y \in Nat /\ y > 0
    BY MonthsGoRound
  <1>2. DaysBefore[n] \in Int /\ DaysBefore[4] = 90
    BY <1>1 DEF DaysBefore
  <1>3. LeapDays(y - 1) \in Int /\ LeapDays(2025) \in Int
    BY <1>1, LeapDaysGrow DEF LeapDays
  <1>4. MonthStart(m) = 365 * (y - 2026) + LeapDays(y - 1) - LeapDays(2025)
                        + DaysBefore[n] + (IF n > 2 /\ Leap(y) THEN 1 ELSE 0)
                        - (DaysBefore[4] + EpochDayOfMonth - 1)
    BY DEF MonthStart
  <1> QED BY <1>1, <1>2, <1>3, <1>4 DEF EpochDayOfMonth

\* The lengths of the months.
LEMMA MonthLengths ==
    ASSUME NEW m \in Nat, NEW n, n = MonthNumber(m)
    PROVE  /\ n = 2 => MonthLength(m) = 28 + (IF Leap(YearOf(m)) THEN 1 ELSE 0)
           /\ n \in {4, 6, 9, 11} => MonthLength(m) = 30
           /\ n \notin {2, 4, 6, 9, 11} => MonthLength(m) = 31
  <1>1. CASE n = 2
    <2>1. MonthLength(m) = IF Leap(YearOf(m)) THEN 29 ELSE 28
      BY <1>1 DEF MonthLength
    <2> QED BY <1>1, <2>1
  <1>2. CASE n # 2
    BY <1>2 DEF MonthLength
  <1> QED BY <1>1, <1>2

\* The first of a month is the day after the last of the month before.
LEMMA MonthFollows ==
    ASSUME NEW m \in Nat
    PROVE  /\ MonthStart(m) \in Int /\ MonthLength(m) \in 28 .. 31
           /\ MonthStart(m + 1) = MonthStart(m) + MonthLength(m)
  <1> DEFINE n == MonthNumber(m)
             y == YearOf(m)
             extra == IF Leap(y) THEN 1 ELSE 0
             first == 365 * (y - 2026) + LeapDays(y - 1) - LeapDays(2025) - 95
  <1>1. n \in 1 .. 12 /\ y \in Nat /\ y >= 2026
    BY MonthsGoRound
  <1>2. LeapDays(y) = LeapDays(y - 1) + extra /\ LeapDays(y - 1) \in Int /\ LeapDays(2025) \in Int
    <2>1. LeapDays(y) = LeapDays(y - 1) + extra /\ LeapDays(y - 1) \in Int
      BY <1>1, LeapDaysGrow
    <2>2. LeapDays(2025) \in Int
      BY LeapDaysGrow
    <2> QED BY <2>1, <2>2
  <1>3. first \in Int /\ extra \in {0, 1}
    BY <1>1, <1>2
  <1>4. MonthStart(m) = first + DaysBefore[n] + (IF n > 2 THEN extra ELSE 0)
    BY <1>1, <1>3, MonthStarts
  <1>5. /\ n = 2 => MonthLength(m) = 28 + extra
        /\ n \in {4, 6, 9, 11} => MonthLength(m) = 30
        /\ n \notin {2, 4, 6, 9, 11} => MonthLength(m) = 31
    BY MonthLengths
  <1>6. CASE n = 12
    <2>1. MonthNumber(m + 1) = 1 /\ YearOf(m + 1) = y + 1
      BY <1>6, MonthsGoRound
    <2>2. MonthStart(m + 1) = 365 * (y + 1 - 2026) + LeapDays(y + 1 - 1) - LeapDays(2025) - 95
                              + DaysBefore[1] + 0
      BY <2>1, <1>1, MonthStarts
    <2>3. y + 1 - 1 = y /\ DaysBefore[1] = 0 /\ DaysBefore[12] = 334
      BY <1>1 DEF DaysBefore
    <2>4. MonthStart(m + 1) = first + 365 + extra
      BY <1>1, <1>2, <2>2, <2>3
    <2> HIDE DEF n, y, first, extra
    <2> QED BY <1>3, <1>4, <1>5, <1>6, <2>3, <2>4
  <1>7. CASE n # 12
    <2>1. MonthNumber(m + 1) = n + 1 /\ YearOf(m + 1) = y
      BY <1>7, MonthsGoRound
    <2>2. MonthStart(m + 1) = first + DaysBefore[n + 1] + (IF n + 1 > 2 THEN extra ELSE 0)
      BY <1>1, <1>3, <2>1, MonthStarts
    <2> HIDE DEF n, y, first, extra
    <2> QED BY <1>1, <1>3, <1>4, <1>5, <1>7, <2>2 DEF DaysBefore
  <1> QED BY <1>6, <1>7

\* A month ends before every later one starts.
LEMMA MonthsAreInOrder ==
    ASSUME NEW m \in Nat, NEW n \in Nat, m < n
    PROVE  MonthStart(m + 1) <= MonthStart(n)
  <1> DEFINE T == {k \in Nat : m < k /\ ~(MonthStart(m + 1) <= MonthStart(k))}
  <1>1. SUFFICES ASSUME T # {} PROVE FALSE
    OBVIOUS
  <1>2. PICK k \in T : \A j \in T : k <= j
    <2>1. T \in SUBSET Nat
      OBVIOUS
    <2> HIDE DEF T
    <2> QED BY <1>1, <2>1, LeastNumber
  <1>3. CASE k = m + 1
    <2>1. MonthStart(m + 1) \in Int
      BY MonthFollows
    <2> QED BY <1>2, <1>3, <2>1
  <1>4. CASE k # m + 1
    <2>1. k - 1 \in Nat /\ m < k - 1 /\ k - 1 + 1 = k /\ ~(k <= k - 1)
      BY <1>2, <1>4
    <2>2. MonthStart(m + 1) <= MonthStart(k - 1)
      BY <1>2, <2>1
    <2>3. /\ MonthStart(m + 1) \in Int /\ MonthStart(k - 1) \in Int
          /\ MonthStart(k) = MonthStart(k - 1) + MonthLength(k - 1)
          /\ MonthLength(k - 1) \in 28 .. 31
      BY <2>1, MonthFollows
    <2> QED BY <1>2, <2>2, <2>3
  <1> QED BY <1>3, <1>4

\* Month 0 is April 2026: it starts five days before the epoch.
LEMMA AprilStarts == MonthStart(0) = -5
  <1>1. MonthNumber(0) = 4 /\ YearOf(0) = 2026 /\ DaysBefore[4] = 90 /\ ~Leap(2026)
    BY DEF MonthNumber, YearOf, DaysBefore, Leap
  <1>2. LeapDays(2026 - 1) = LeapDays(2025) /\ LeapDays(2025) \in Int
    BY LeapDaysGrow
  <1> QED BY <1>1, <1>2, MonthStarts

\* No month starts earlier than months of 28 days would.
LEMMA MonthsAreLong ==
    ASSUME NEW m \in Nat
    PROVE  MonthStart(m) \in Int /\ MonthStart(m) >= 28 * m - 5
  <1> DEFINE T == {k \in Nat : ~(MonthStart(k) >= 28 * k - 5)}
  <1>1. SUFFICES ASSUME T # {} PROVE FALSE
    BY MonthFollows
  <1>2. PICK k \in T : \A j \in T : k <= j
    <2>1. T \in SUBSET Nat
      OBVIOUS
    <2> HIDE DEF T
    <2> QED BY <1>1, <2>1, LeastNumber
  <1>3. CASE k = 0
    BY <1>2, <1>3, AprilStarts
  <1>4. CASE k # 0
    <2>1. k - 1 \in Nat /\ k - 1 + 1 = k /\ ~(k <= k - 1)
      BY <1>2, <1>4
    <2>2. MonthStart(k - 1) >= 28 * (k - 1) - 5
      BY <1>2, <2>1
    <2>3. /\ MonthStart(k - 1) \in Int
          /\ MonthStart(k) = MonthStart(k - 1) + MonthLength(k - 1)
          /\ MonthLength(k - 1) \in 28 .. 31
      BY <2>1, MonthFollows
    <2> QED BY <1>2, <2>2, <2>3
  <1> QED BY <1>3, <1>4

\* Day d is a day of month m.
InMonth(d, m) == MonthStart(m) <= d /\ d < MonthStart(m + 1)

\* A day is in no two months.
LEMMA OneMonthADay ==
    ASSUME NEW d \in Nat, NEW m \in Nat, NEW n \in Nat, InMonth(d, m), InMonth(d, n)
    PROVE  m = n
  <1>1. /\ MonthStart(m) \in Int /\ MonthStart(m + 1) \in Int
        /\ MonthStart(n) \in Int /\ MonthStart(n + 1) \in Int
    BY MonthFollows
  <1>2. ~(m < n)
    BY <1>1, MonthsAreInOrder DEF InMonth
  <1>3. ~(n < m)
    BY <1>1, MonthsAreInOrder DEF InMonth
  <1> QED BY <1>2, <1>3

\* Every day from the epoch on is a day of its month, and of no other.
LEMMA DayIsInItsMonth ==
    ASSUME NEW d \in Nat
    PROVE  /\ MonthOf(d) \in Nat /\ InMonth(d, MonthOf(d))
           /\ \A m \in Nat : InMonth(d, m) => m = MonthOf(d)
  <1> DEFINE bound == d \div 28 + 1
             T == {m \in Nat : d < MonthStart(m + 1)}
  <1>1. bound \in Nat /\ 28 * bound > d
    OBVIOUS
  <1>2. MonthStart(bound + 1) \in Int /\ MonthStart(bound + 1) >= 28 * (bound + 1) - 5
    BY <1>1, MonthsAreLong
  <1>3. bound \in T
    BY <1>1, <1>2
  <1>4. PICK m \in T : \A j \in T : m <= j
    <2>1. T \in SUBSET Nat
      OBVIOUS
    <2> HIDE DEF T
    <2> QED BY <1>3, <2>1, LeastNumber
  <1>5. m \in 0 .. bound
    BY <1>1, <1>3, <1>4
  <1>6. MonthStart(m) <= d
    <2>1. CASE m = 0
      BY <2>1, AprilStarts
    <2>2. CASE m # 0
      <3>1. m - 1 \in Nat /\ m - 1 + 1 = m /\ ~(m <= m - 1)
        BY <1>4, <2>2
      <3>2. MonthStart(m) \in Int /\ ~(d < MonthStart(m))
        BY <1>4, <3>1, MonthFollows
      <3> QED BY <3>2
    <2> QED BY <2>1, <2>2
  <1>7. \E k \in 0 .. bound : MonthStart(k) <= d /\ d < MonthStart(k + 1)
    BY <1>4, <1>5, <1>6
  <1>8. MonthOf(d) \in 0 .. bound /\ InMonth(d, MonthOf(d))
    BY <1>7 DEF MonthOf, InMonth
  <1>9. MonthOf(d) \in Nat
    BY <1>1, <1>8
  <1> QED BY <1>8, <1>9, OneMonthADay

\* The day of the month of a day, and the day that is the n-th of its month.
LEMMA DaysOfMonths ==
    ASSUME NEW m \in Nat, NEW n \in 1 .. MonthLength(m), DateOf(m, n) \in Nat
    PROVE  MonthOf(DateOf(m, n)) = m /\ DayOfMonth(DateOf(m, n)) = n
  <1> DEFINE d == DateOf(m, n)
  <1>1. /\ MonthStart(m) \in Int /\ MonthLength(m) \in Int
        /\ MonthStart(m + 1) = MonthStart(m) + MonthLength(m)
    BY MonthFollows
  <1>2. d = MonthStart(m) + n - 1
    BY DEF DateOf
  <1>3. InMonth(d, m)
    BY <1>1, <1>2 DEF InMonth
  <1>4. MonthOf(d) = m
    BY <1>3, DayIsInItsMonth
  <1> QED BY <1>1, <1>2, <1>4 DEF DayOfMonth

\* A day's number in its month is one of the month's.
LEMMA DayOfMonthType ==
    ASSUME NEW d \in Nat
    PROVE  /\ MonthOf(d) \in Nat /\ MonthStart(MonthOf(d)) \in Int
           /\ MonthStart(MonthOf(d) + 1) = MonthStart(MonthOf(d)) + MonthLength(MonthOf(d))
           /\ MonthLength(MonthOf(d)) \in 28 .. 31
           /\ DayOfMonth(d) \in 1 .. MonthLength(MonthOf(d))
           /\ d = MonthStart(MonthOf(d)) + DayOfMonth(d) - 1
  <1>1. MonthOf(d) \in Nat /\ InMonth(d, MonthOf(d))
    BY DayIsInItsMonth
  <1>2. /\ MonthStart(MonthOf(d)) \in Int /\ MonthLength(MonthOf(d)) \in 28 .. 31
        /\ MonthStart(MonthOf(d) + 1) = MonthStart(MonthOf(d)) + MonthLength(MonthOf(d))
    BY <1>1, MonthFollows
  <1> QED BY <1>1, <1>2 DEF InMonth, DayOfMonth

-----------------------------------------------------------------------------
(* The helpers find the nearest day.                                        *)

\* _next_weekday is the nearest such weekday after today.
LEMMA NextWeekdayIsNearest ==
    ASSUME NEW d \in Nat, NEW w \in Weekdays, NEW x, x = NextWeekday(d, w)
    PROVE  /\ x \in (d + 1) .. (d + 7) /\ Weekday(x) = w
           /\ \A e \in (d + 1) .. (x - 1) : Weekday(e) # w
  <1>1. x \in (d + 1) .. (d + 7) /\ Weekday(x) = w
    BY DEF NextWeekday, Weekday, Weekdays
  <1>2. ASSUME NEW e \in (d + 1) .. (x - 1) PROVE Weekday(e) # w
    BY <1>1, <1>2 DEF Weekday
  <1> QED BY <1>1, <1>2

\* _next_weekday with allow_today is the nearest one from today on.
LEMMA WeekdayFromIsNearest ==
    ASSUME NEW d \in Nat, NEW w \in Weekdays, NEW x, x = WeekdayFrom(d, w)
    PROVE  /\ x \in d .. (d + 6) /\ Weekday(x) = w
           /\ \A e \in d .. (x - 1) : Weekday(e) # w
  <1>1. x \in d .. (d + 6) /\ Weekday(x) = w
    BY DEF WeekdayFrom, Weekday, Weekdays
  <1>2. ASSUME NEW e \in d .. (x - 1) PROVE Weekday(e) # w
    BY <1>1, <1>2 DEF Weekday
  <1> QED BY <1>1, <1>2

\* The Sunday that ends next week is the first that is more than a week ahead.
LEMMA NextWeekIsNearest ==
    ASSUME NEW d \in Nat
    PROVE  /\ SundayOfNextWeek(d) \in (d + 8) .. (d + 14) /\ Weekday(SundayOfNextWeek(d)) = Sunday
           /\ \A e \in (d + 8) .. (SundayOfNextWeek(d) - 1) : Weekday(e) # Sunday
  <1>1. /\ NextWeekday(d, Sunday) \in (d + 1) .. (d + 7)
        /\ Weekday(NextWeekday(d, Sunday)) = Sunday
    BY NextWeekdayIsNearest DEF Sunday, Weekdays
  <1>2. /\ SundayOfNextWeek(d) \in (d + 8) .. (d + 14)
        /\ Weekday(SundayOfNextWeek(d)) = Sunday
    BY <1>1 DEF SundayOfNextWeek, Weekday, Sunday
  <1>3. ASSUME NEW e \in (d + 8) .. (SundayOfNextWeek(d) - 1) PROVE Weekday(e) # Sunday
    BY <1>2, <1>3 DEF Weekday
  <1> QED BY <1>2, <1>3

\* _end_of_month is the nearest day whose morrow is a first.
LEMMA MonthEndIsNearest ==
    ASSUME NEW d \in Nat
    PROVE  /\ EndOfMonth(d) \in Nat /\ EndOfMonth(d) >= d
           /\ DayOfMonth(EndOfMonth(d) + 1) = 1
           /\ \A e \in d .. (EndOfMonth(d) - 1) : DayOfMonth(e + 1) # 1
  <1> DEFINE m == MonthOf(d)
             end == EndOfMonth(d)
  <1>1. /\ m \in Nat /\ MonthStart(m) \in Int /\ MonthLength(m) \in 28 .. 31
        /\ MonthStart(m + 1) = MonthStart(m) + MonthLength(m)
        /\ MonthStart(m) <= d /\ d < MonthStart(m + 1)
    BY DayOfMonthType, DayIsInItsMonth DEF InMonth
  <1>2. end = MonthStart(m + 1) - 1
    BY <1>1 DEF EndOfMonth, DateOf
  <1>3. end \in Nat /\ end >= d
    BY <1>1, <1>2
  <1>4. DayOfMonth(end + 1) = 1
    <2>1. m + 1 \in Nat /\ 1 \in 1 .. MonthLength(m + 1)
      BY <1>1, MonthFollows
    <2>2. DateOf(m + 1, 1) = end + 1 /\ end + 1 \in Nat
      BY <1>1, <1>2, <1>3 DEF DateOf
    <2> QED BY <2>1, <2>2, DaysOfMonths
  <1>5. ASSUME NEW e \in d .. (end - 1) PROVE DayOfMonth(e + 1) # 1
    <2>1. e + 1 \in Nat /\ InMonth(e + 1, m) /\ MonthStart(m) < e + 1
      BY <1>1, <1>2, <1>5 DEF InMonth
    <2>2. MonthOf(e + 1) = m
      BY <1>1, <2>1, DayIsInItsMonth
    <2> QED BY <1>1, <2>1, <2>2 DEF DayOfMonth
  <1> QED BY <1>3, <1>4, <1>5

\* _next_day_of_month, when it finds a day, finds the nearest one of that
\* number that is still to come.
LEMMA OrdinalIsNearest ==
    ASSUME NEW d \in Nat, NEW n \in Nat, NEW x, x = NextDayOfMonth(d, n), x # NoDay
    PROVE  /\ x \in Nat /\ x > d /\ DayOfMonth(x) = n
           /\ \A e \in (d + 1) .. (x - 1) : DayOfMonth(e) # n
  <1> DEFINE m == MonthOf(d)
             k == IF n > DayOfMonth(d) THEN m ELSE m + 1
  <1>1. /\ m \in Nat /\ MonthStart(m) \in Int /\ MonthLength(m) \in 28 .. 31
        /\ MonthStart(m + 1) = MonthStart(m) + MonthLength(m)
        /\ DayOfMonth(d) \in 1 .. MonthLength(m) /\ d = MonthStart(m) + DayOfMonth(d) - 1
    BY DayOfMonthType
  <1>2. k \in Nat /\ n \in 1 .. MonthLength(k) /\ x = DateOf(k, n)
    BY <1>1 DEF NextDayOfMonth
  <1>3. /\ MonthStart(k) \in Int /\ MonthLength(k) \in Int
        /\ MonthStart(k + 1) = MonthStart(k) + MonthLength(k)
    BY <1>2, MonthFollows
  <1>4. x = MonthStart(k) + n - 1
    BY <1>2 DEF DateOf
  <1>5. x \in Nat /\ x > d
    BY <1>1, <1>2, <1>3, <1>4
  <1>6. DayOfMonth(x) = n
    BY <1>2, <1>5, DaysOfMonths
  <1>7. ASSUME NEW e \in (d + 1) .. (x - 1), DayOfMonth(e) = n PROVE FALSE
    <2>1. e \in Nat /\ d < e /\ e < x
      BY <1>5, <1>7
    <2>2. CASE InMonth(e, m)
      <3>1. MonthOf(e) = m
        BY <1>1, <2>1, <2>2, DayIsInItsMonth
      <3>2. e = MonthStart(m) + n - 1
        BY <1>1, <1>7, <2>1, <3>1 DEF DayOfMonth
      <3> QED BY <1>1, <1>2, <1>4, <2>1, <3>2
    <2>3. CASE ~InMonth(e, m)
      <3>1. MonthStart(m + 1) <= e /\ k = m + 1
        BY <1>1, <1>2, <1>3, <1>4, <2>1, <2>3 DEF InMonth
      <3>2. InMonth(e, k)
        BY <1>2, <1>3, <1>4, <2>1, <3>1 DEF InMonth
      <3>3. MonthOf(e) = k
        BY <1>2, <2>1, <3>2, DayIsInItsMonth
      <3>4. e = MonthStart(k) + n - 1
        BY <1>2, <1>3, <1>7, <2>1, <3>3 DEF DayOfMonth
      <3> QED BY <1>4, <2>1, <3>4
    <2> QED BY <2>2, <2>3
  <1> QED BY <1>5, <1>6, <1>7

-----------------------------------------------------------------------------
(* What a phrase resolves to.                                               *)

\* Every pattern has its place in the order they are tried in.
LEMMA RankType ==
    ASSUME NEW r \in Readings PROVE Rank(r.kind) \in 1 .. 10 /\ r.n \in 0 .. 99
  <1>1. DOMAIN Order = 1 .. 10
    BY DEF Order
  <1>2. PICK k \in 1 .. 10 : Order[k] = r.kind
    BY <1>1 DEF Readings
  <1> QED BY <1>1, <1>2 DEF Rank, Readings

\* A phrase that names anything has a first reading.
LEMMA FirstReadingIsOne ==
    ASSUME NEW p \in SUBSET Readings, p # {}
    PROVE  FirstReading(p) \in p
  <1> DEFINE score(r) == 100 * Rank(r.kind) + r.n
             T == {score(r) : r \in p}
  <1>1. \A r \in p : Rank(r.kind) \in 1 .. 10 /\ r.n \in 0 .. 99
    BY RankType
  <1>2. T \in SUBSET Nat /\ T # {}
    BY <1>1
  <1>3. PICK x \in T : \A y \in T : x <= y
    <2> HIDE DEF T
    <2> QED BY <1>2, LeastNumber
  <1>4. PICK r \in p : x = score(r)
    BY <1>3
  <1>5. ASSUME NEW q \in p
        PROVE  Rank(r.kind) < Rank(q.kind) \/ (Rank(r.kind) = Rank(q.kind) /\ r.n <= q.n)
    <2>1. score(r) <= score(q)
      BY <1>3, <1>4, <1>5
    <2>2. \A a, b \in 1 .. 10, c, d \in 0 .. 99 :
              100 * a + c <= 100 * b + d => a < b \/ (a = b /\ c <= d)
      OBVIOUS
    <2> QED BY <1>1, <1>4, <1>5, <2>1, <2>2
  <1> QED BY <1>4, <1>5 DEF FirstReading

\* The kinds of readings, and what the number of one may be.
LEMMA ReadingKinds ==
    ASSUME NEW r \in Readings
    PROVE  /\ r.kind \in {"tomorrow", "month end", "in days", "in weeks", "fortnight", "weekend",
                          "weekday", "next week", "this week", "ordinal"}
           /\ r.n \in Nat /\ (r.kind = "weekday" => r.n \in Weekdays)
  <1>1. DOMAIN Order = 1 .. 10
    BY DEF Order
  <1>2. PICK k \in 1 .. 10 : Order[k] = r.kind
    BY <1>1 DEF Readings
  <1>3. k \in {1, 2, 3, 4, 5, 6, 7, 8, 9, 10}
    BY <1>2
  <1>4. /\ Order[1] = "tomorrow" /\ Order[2] = "month end" /\ Order[3] = "in days"
        /\ Order[4] = "in weeks" /\ Order[5] = "fortnight" /\ Order[6] = "weekend"
        /\ Order[7] = "weekday" /\ Order[8] = "next week" /\ Order[9] = "this week"
        /\ Order[10] = "ordinal"
    BY DEF Order
  <1>5. r.n \in Nat /\ (r.kind = "weekday" => r.n \in Weekdays)
    BY DEF Readings
  <1> QED BY <1>2, <1>3, <1>4, <1>5

\* The first day a reading may name, of those that name a day of the calendar.
FirstDay(r, today) ==
    CASE r.kind \in FromToday -> today
      [] r.kind = "next week" -> today + 8
      [] OTHER -> today + 1

\* What a reading names is today at the earliest, and the nearest day that
\* fits it.
Nearest(r, today, day) ==
    /\ day \in Nat /\ day >= today
    /\ r.kind \in Absolute =>
           Fits(r, day) /\ \A e \in FirstDay(r, today) .. (day - 1) : ~Fits(r, e)

\* The first day on or after the one asked about that an absolute reading fits.
LEMMA NamedDayIsNearest ==
    ASSUME NEW r \in Readings, NEW today \in Nat,
           NEW day, day = DayNamed(r, today), day # NoDay
    PROVE  Nearest(r, today, day)
  <1>1. /\ r.kind \in {"tomorrow", "month end", "in days", "in weeks", "fortnight", "weekend",
                       "weekday", "next week", "this week", "ordinal"}
        /\ r.n \in Nat /\ (r.kind = "weekday" => r.n \in Weekdays)
    BY ReadingKinds
  <1>2. Friday \in Weekdays /\ Sunday \in Weekdays
    BY DEF Friday, Sunday, Weekdays
  <1>3. CASE r.kind \in {"tomorrow", "in days", "in weeks", "fortnight"}
    <2>1. \/ day = today + 1 \/ day = today + r.n
          \/ day = today + 7 * r.n \/ day = today + 14
      BY <1>3 DEF DayNamed
    <2>2. day \in Nat /\ day >= today
      <3>1. r.n \in Nat
        BY <1>1
      <3>2. \A n \in Nat : 7 * n \in Nat /\ today + n \in Nat /\ today + n >= today
        OBVIOUS
      <3> QED BY <2>1, <3>1, <3>2
    <2>3. r.kind \notin Absolute
      BY <1>3 DEF Absolute
    <2> QED BY <2>2, <2>3 DEF Nearest
  <1>4. CASE r.kind = "month end"
    <2>1. day = EndOfMonth(today) /\ FirstDay(r, today) = today
      BY <1>4 DEF DayNamed, FirstDay, FromToday
    <2>2. \A e : Fits(r, e) <=> DayOfMonth(e + 1) = 1
      BY <1>4 DEF Fits
    <2>3. /\ day \in Nat /\ day >= today /\ DayOfMonth(day + 1) = 1
          /\ \A e \in today .. (day - 1) : ~(DayOfMonth(e + 1) = 1)
      BY <2>1, MonthEndIsNearest
    <2> QED BY <2>1, <2>2, <2>3, Zenon DEF Nearest
  <1>5. CASE r.kind = "weekend"
    <2>1. day = WeekdayFrom(today, Friday) /\ FirstDay(r, today) = today
      BY <1>5 DEF DayNamed, FirstDay, FromToday
    <2>2. \A e : Fits(r, e) <=> Weekday(e) = Friday
      BY <1>5 DEF Fits
    <2>3. /\ day \in today .. (today + 6) /\ Weekday(day) = Friday
          /\ \A e \in today .. (day - 1) : ~(Weekday(e) = Friday)
      BY <1>2, <2>1, WeekdayFromIsNearest, Zenon
    <2>4. day \in Nat /\ day >= today
      BY <2>3
    <2> QED BY <2>1, <2>2, <2>3, <2>4, Zenon DEF Nearest
  <1>6. CASE r.kind = "weekday"
    <2>1. day = NextWeekday(today, r.n) /\ FirstDay(r, today) = today + 1
      BY <1>6 DEF DayNamed, FirstDay, FromToday
    <2>2. \A e : Fits(r, e) <=> Weekday(e) = r.n
      BY <1>6 DEF Fits
    <2>3. /\ day \in (today + 1) .. (today + 7) /\ Weekday(day) = r.n
          /\ \A e \in (today + 1) .. (day - 1) : ~(Weekday(e) = r.n)
      BY <1>1, <1>6, <2>1, NextWeekdayIsNearest, Zenon
    <2>4. day \in Nat /\ day >= today
      BY <2>3
    <2> QED BY <2>1, <2>2, <2>3, <2>4, Zenon DEF Nearest
  <1>7. CASE r.kind = "next week"
    <2>1. day = SundayOfNextWeek(today) /\ FirstDay(r, today) = today + 8
      BY <1>7 DEF DayNamed, FirstDay, FromToday
    <2>2. \A e : Fits(r, e) <=> Weekday(e) = Sunday
      BY <1>7 DEF Fits
    <2>3. /\ day \in (today + 8) .. (today + 14) /\ Weekday(day) = Sunday
          /\ \A e \in (today + 8) .. (day - 1) : ~(Weekday(e) = Sunday)
      BY <2>1, NextWeekIsNearest, Zenon
    <2>4. day \in Nat /\ day >= today
      BY <2>3
    <2> QED BY <2>1, <2>2, <2>3, <2>4, Zenon DEF Nearest
  <1>8. CASE r.kind = "this week"
    <2>1. day = WeekdayFrom(today, Sunday) /\ FirstDay(r, today) = today
      BY <1>8 DEF DayNamed, FirstDay, FromToday
    <2>2. \A e : Fits(r, e) <=> Weekday(e) = Sunday
      BY <1>8 DEF Fits
    <2>3. /\ day \in today .. (today + 6) /\ Weekday(day) = Sunday
          /\ \A e \in today .. (day - 1) : ~(Weekday(e) = Sunday)
      BY <1>2, <2>1, WeekdayFromIsNearest, Zenon
    <2>4. day \in Nat /\ day >= today
      BY <2>3
    <2> QED BY <2>1, <2>2, <2>3, <2>4, Zenon DEF Nearest
  <1>9. CASE r.kind = "ordinal"
    <2>1. day = NextDayOfMonth(today, r.n) /\ FirstDay(r, today) = today + 1
      BY <1>9 DEF DayNamed, FirstDay, FromToday
    <2>2. \A e : Fits(r, e) <=> DayOfMonth(e) = r.n
      BY <1>9 DEF Fits
    <2>3. /\ day \in Nat /\ day > today /\ DayOfMonth(day) = r.n
          /\ \A e \in (today + 1) .. (day - 1) : ~(DayOfMonth(e) = r.n)
      BY <1>1, <2>1, OrdinalIsNearest, Zenon
    <2>4. day >= today
      BY <2>3
    <2> QED BY <2>1, <2>2, <2>3, <2>4, Zenon DEF Nearest
  <1> QED BY <1>1, <1>3, <1>4, <1>5, <1>6, <1>7, <1>8, <1>9

\* The last tick of a day is of that day, at 20:00, and no earlier than any
\* tick of the day.
LEMMA LastTicks ==
    ASSUME NEW t \in Nat, NEW day \in Nat
    PROVE  /\ VirtualDate(t) \in Nat
           /\ LastTickOn(day) \in Nat /\ VirtualDate(LastTickOn(day)) = day
           /\ HourOfDay(LastTickOn(day)) = 20
           /\ day >= VirtualDate(t) => LastTickOn(day) >= t
  <1>1. LastTickOn(day) = 4 * day + 2 /\ HoursSinceEpoch(LastTickOn(day)) = 24 * day + 20
    BY DEF LastTickOn, TicksPerDay, HoursPerTick, HoursSinceEpoch, EpochHour
  <1>2. VirtualDate(t) = (8 + 6 * t) \div 24
    BY DEF VirtualDate, HoursSinceEpoch, HoursPerTick, EpochHour
  <1>3. VirtualDate(LastTickOn(day)) = day /\ HourOfDay(LastTickOn(day)) = 20
    BY <1>1 DEF VirtualDate, HourOfDay
  <1> QED BY <1>1, <1>2, <1>3

\* The reading, the day and the tick behind a deadline.
LEMMA DeadlineNames ==
    ASSUME NEW p \in SUBSET Readings, NEW t \in Nat, Deadline(p, t) # NoDeadline
    PROVE  \E day \in Nat :
               /\ p # {} /\ FirstReading(p) \in Readings
               /\ Nearest(FirstReading(p), VirtualDate(t), day)
               /\ Deadline(p, t) = LastTickOn(day)
  <1> DEFINE r == FirstReading(p)
             day == DayNamed(r, VirtualDate(t))
  <1>1. p # {} /\ day # NoDay /\ Deadline(p, t) = LastTickOn(day)
    BY DEF Deadline
  <1>2. r \in Readings
    BY <1>1, FirstReadingIsOne
  <1>3. VirtualDate(t) \in Nat
    BY LastTicks
  <1>4. Nearest(r, VirtualDate(t), day)
    BY <1>1, <1>2, <1>3, NamedDayIsNearest
  <1> QED BY <1>1, <1>2, <1>4 DEF Nearest

\* resolve_promise_phrase, of any text and on any tick, returns nothing or a
\* tick that is no earlier: what PromiseAssumption asks of the table a run is
\* given, so that every table made of Deadline will do.
THEOREM DeadlinesAreNoEarlier ==
    ASSUME NEW p \in SUBSET Readings, NEW t \in Nat, Deadline(p, t) # NoDeadline
    PROVE  Deadline(p, t) \in Nat /\ Deadline(p, t) >= t /\ HourOfDay(Deadline(p, t)) = 20
  <1>1. PICK day \in Nat : /\ Nearest(FirstReading(p), VirtualDate(t), day)
                           /\ Deadline(p, t) = LastTickOn(day)
    BY DeadlineNames
  <1>2. day >= VirtualDate(t)
    BY <1>1 DEF Nearest
  <1> QED BY <1>1, <1>2, LastTicks

\* A reading of any other kind always names a day.
LEMMA OtherReadingsAreDated ==
    ASSUME NEW r \in Readings, NEW today \in Nat, r.kind # "ordinal"
    PROVE  DayNamed(r, today) \in Nat
  <1>1. /\ r.kind \in {"tomorrow", "month end", "in days", "in weeks", "fortnight", "weekend",
                       "weekday", "next week", "this week"}
        /\ r.n \in Nat /\ (r.kind = "weekday" => r.n \in Weekdays)
    BY ReadingKinds
  <1>2. Friday \in Weekdays /\ Sunday \in Weekdays
    BY DEF Friday, Sunday, Weekdays
  <1>3. \A n \in Nat : 7 * n \in Nat /\ today + n \in Nat /\ today + 7 * n \in Nat
    OBVIOUS
  <1>4. CASE r.kind \in {"tomorrow", "in days", "in weeks", "fortnight"}
    <2>1. \/ DayNamed(r, today) = today + 1 \/ DayNamed(r, today) = today + r.n
          \/ DayNamed(r, today) = today + 7 * r.n \/ DayNamed(r, today) = today + 14
      BY <1>4 DEF DayNamed
    <2>2. r.n \in Nat
      BY <1>1
    <2> QED BY <1>3, <2>1, <2>2
  <1>5. CASE r.kind = "month end"
    <2>1. DayNamed(r, today) = EndOfMonth(today)
      BY <1>5 DEF DayNamed
    <2> QED BY <2>1, MonthEndIsNearest
  <1>6. CASE r.kind \in {"weekend", "this week"}
    <2>1. PICK w \in Weekdays : DayNamed(r, today) = WeekdayFrom(today, w)
      BY <1>2, <1>6 DEF DayNamed
    <2>2. DayNamed(r, today) \in today .. (today + 6)
      BY <2>1, WeekdayFromIsNearest
    <2> QED BY <2>2
  <1>7. CASE r.kind = "weekday"
    <2>1. DayNamed(r, today) = NextWeekday(today, r.n)
      BY <1>7 DEF DayNamed
    <2>2. DayNamed(r, today) \in (today + 1) .. (today + 7)
      BY <1>1, <1>7, <2>1, NextWeekdayIsNearest
    <2> QED BY <2>2
  <1>8. CASE r.kind = "next week"
    <2>1. DayNamed(r, today) = SundayOfNextWeek(today)
      BY <1>8 DEF DayNamed
    <2>2. DayNamed(r, today) \in (today + 8) .. (today + 14)
      BY <2>1, NextWeekIsNearest
    <2> QED BY <2>2
  <1> QED BY <1>1, <1>4, <1>5, <1>6, <1>7, <1>8

\* A day of the month that every month has is always found.
LEMMA ShortOrdinalsAreDated ==
    ASSUME NEW d \in Nat, NEW n \in 1 .. 28
    PROVE  NextDayOfMonth(d, n) \in Nat
  <1> DEFINE m == MonthOf(d)
             k == IF n > DayOfMonth(d) THEN m ELSE m + 1
  <1>1. /\ m \in Nat /\ MonthStart(m) \in Int /\ MonthLength(m) \in 28 .. 31
        /\ MonthStart(m + 1) = MonthStart(m) + MonthLength(m)
        /\ DayOfMonth(d) \in 1 .. MonthLength(m) /\ d = MonthStart(m) + DayOfMonth(d) - 1
    BY DayOfMonthType
  <1>2. k \in Nat /\ MonthLength(k) \in 28 .. 31
    BY <1>1, MonthFollows
  <1>3. NextDayOfMonth(d, n) = MonthStart(k) + n - 1
    BY <1>1, <1>2 DEF NextDayOfMonth, DateOf
  <1> QED BY <1>1, <1>3

\* A phrase that names something, and no ordinal past the 28th, is dated on
\* every tick: the pool of firm promises of Adjudicator._promise_phrase is, so
\* that PromiseAssumption's "all dated" does not depend on the run's window.
THEOREM FirmPhrasesAreDated ==
    ASSUME NEW p \in SUBSET Readings, p # {}, NEW t \in Nat,
           \A r \in p : r.kind = "ordinal" => r.n \in 1 .. 28
    PROVE  Deadline(p, t) # NoDeadline
  <1> DEFINE r == FirstReading(p)
             today == VirtualDate(t)
  <1>1. r \in p /\ r \in Readings
    BY FirstReadingIsOne
  <1>2. today \in Nat
    BY LastTicks
  <1>3. DayNamed(r, today) # NoDay
    <2>1. CASE r.kind = "ordinal"
      <3>1. DayNamed(r, today) = NextDayOfMonth(today, r.n)
        BY <2>1 DEF DayNamed
      <3>2. r.n \in 1 .. 28
        BY <1>1, <2>1, Zenon
      <3>3. NextDayOfMonth(today, r.n) \in Nat
        BY <1>2, <3>2, ShortOrdinalsAreDated, Zenon
      <3> QED BY <3>1, <3>3 DEF NoDay
    <2>2. CASE r.kind # "ordinal"
      BY <1>1, <1>2, <2>2, OtherReadingsAreDated DEF NoDay
    <2> QED BY <2>1, <2>2
  <1>4. DayNamed(r, today) \in Nat
    BY <1>1, <1>2, <1>3, NamedDayIsNearest DEF Nearest
  <1>5. Deadline(p, t) = LastTickOn(DayNamed(r, today))
    BY <1>3 DEF Deadline
  <1> QED BY <1>2, <1>4, <1>5, LastTicks DEF NoDeadline

-----------------------------------------------------------------------------
(* A phrase said over time.                                                 *)

PromiseInv ==
    /\ now \in Nat /\ phrase \in SUBSET Readings
    /\ \/ said = NoDeadline
       \/ said \in Nat /\ due = Deadline(phrase, said)

\* What the ledger holds is what the words resolved to when they were said last.
LEMMA PromiseInvariant == PromiseSpec => []PromiseInv
  <1>1. PromiseInit => PromiseInv
    BY PromiseClockAssumption DEF PromiseInit, PromiseInv
  <1>2. PromiseInv /\ [SayAgain \/ Tick]_promiseVars => PromiseInv'
    <2> SUFFICES ASSUME PromiseInv, [SayAgain \/ Tick]_promiseVars PROVE PromiseInv'
      OBVIOUS
    <2>1. CASE SayAgain
      BY <2>1 DEF SayAgain, PromiseInv
    <2>2. CASE Tick
      BY <2>2 DEF Tick, PromiseInv
    <2>3. CASE UNCHANGED promiseVars
      BY <2>3 DEF promiseVars, PromiseInv
    <2> QED BY <2>1, <2>2, <2>3
  <1> QED BY <1>1, <1>2, PTL DEF PromiseSpec

\* Whatever a payer says, on whatever tick, the deadline that is kept is not
\* before the words and gives them the whole of its day.
THEOREM DeadlineIsAlwaysAhead == PromiseSpec => []DeadlineIsAhead
  <1>1. PromiseInv => DeadlineIsAhead
    BY DeadlinesAreNoEarlier DEF PromiseInv, DeadlineIsAhead, Kept
  <1> QED BY <1>1, PromiseInvariant, PTL

\* Whatever a payer says, on whatever tick, a deadline is on the nearest day
\* that fits the words: across months, years and leap Februaries, past which
\* no run of TLC goes.
THEOREM DeadlineAlwaysFitsNearest == PromiseSpec => []NearestFit
  <1>1. ASSUME PromiseInv PROVE NearestFit
    <2> SUFFICES ASSUME Kept, Reading.kind \in Absolute
                 PROVE  /\ Fits(Reading, VirtualDate(due))
                        /\ \A day \in FirstDay(Reading, VirtualDate(said)) .. (VirtualDate(due) - 1) :
                               ~Fits(Reading, day)
      BY DEF NearestFit, FirstDay
    <2>1. said \in Nat /\ due = Deadline(phrase, said) /\ due # NoDeadline
          /\ phrase \in SUBSET Readings
      BY <1>1 DEF PromiseInv, Kept
    <2>2. PICK d \in Nat : /\ Nearest(Reading, VirtualDate(said), d)
                           /\ due = LastTickOn(d)
      BY <2>1, DeadlineNames DEF Reading
    <2>3. VirtualDate(due) = d
      BY <2>2, LastTicks
    <2> QED BY <2>2, <2>3, Zenon DEF Nearest
  <1> QED BY <1>1, PromiseInvariant, PTL

-----------------------------------------------------------------------------
(* The shares of a batch, for every size asked for.  An archetype is given   *)
(* the whole of its quota and at most one of the records left over; these   *)
(* are as many as the fractions add up to, so that one with no fraction     *)
(* never gets one.                                                          *)

\* The six archetypes.
LEMMA SixKinds ==
    Kinds = {Reliable, "CHRONIC_LATE", Disputing, "DISTRESSED", "SILENT", "PAID_UNRECONCILED"}
  BY DEF Kinds, Range, ArchetypeOrder

\* The archetypes are finitely many, so that a sum over them is one.
LEMMA KindsAreFinite == IsFiniteSet(Kinds)
  <1> DEFINE two == {Reliable} \cup {"CHRONIC_LATE"}
             four == (two \cup {Disputing}) \cup {"DISTRESSED"}
             six == (four \cup {"SILENT"}) \cup {"PAID_UNRECONCILED"}
  <1>1. IsFiniteSet({Reliable})
    BY FS_Singleton
  <1>2. IsFiniteSet(two)
    BY <1>1, FS_AddElement
  <1> HIDE DEF two
  <1>3. IsFiniteSet(two \cup {Disputing})
    BY <1>2, FS_AddElement
  <1>4. IsFiniteSet(four)
    BY <1>3, FS_AddElement
  <1> HIDE DEF four
  <1>5. IsFiniteSet(four \cup {"SILENT"})
    BY <1>4, FS_AddElement
  <1>6. IsFiniteSet(six)
    BY <1>5, FS_AddElement
  <1>7. six = Kinds
    BY SixKinds DEF two, four
  <1> QED BY <1>6, <1>7

\* Where each archetype stands in ARCHETYPE_ORDER.
LEMMA Ranks ==
    /\ RankOf(Reliable) = 1 /\ RankOf("CHRONIC_LATE") = 2 /\ RankOf(Disputing) = 3
    /\ RankOf("DISTRESSED") = 4 /\ RankOf("SILENT") = 5 /\ RankOf("PAID_UNRECONCILED") = 6
  BY DEF RankOf, ArchetypeOrder, Reliable, Disputing

\* How many of the published 126 each archetype has: PROFILES.
LEMMA ProfileCounts ==
    /\ ProfileOf(Reliable).count = 34 /\ ProfileOf("CHRONIC_LATE").count = 30
    /\ ProfileOf(Disputing).count = 18 /\ ProfileOf("DISTRESSED").count = 12
    /\ ProfileOf("SILENT").count = 22 /\ ProfileOf("PAID_UNRECONCILED").count = 10
  BY Ranks DEF ProfileOf, Table, Kind

\* A sum over the archetypes.
LEMMA SumOfSix ==
    ASSUME NEW f, \A a \in Kinds : f[a] \in Nat
    PROVE  SumFunctionOnSet(f, Kinds) =
             f[Reliable] + f["CHRONIC_LATE"] + f[Disputing] + f["DISTRESSED"] + f["SILENT"]
                 + f["PAID_UNRECONCILED"]
  <1> DEFINE five == Kinds \ {Reliable}
             four == five \ {"CHRONIC_LATE"}
             three == four \ {Disputing}
             two == three \ {"DISTRESSED"}
             one == two \ {"SILENT"}
             none == one \ {"PAID_UNRECONCILED"}
             sum(S) == SumFunctionOnSet(f, S)
  <1>1. /\ five \subseteq Kinds /\ four \subseteq Kinds /\ three \subseteq Kinds
        /\ two \subseteq Kinds /\ one \subseteq Kinds
        /\ Reliable \in Kinds /\ "CHRONIC_LATE" \in five /\ Disputing \in four
        /\ "DISTRESSED" \in three /\ "SILENT" \in two /\ "PAID_UNRECONCILED" \in one
        /\ none = {}
    BY SixKinds DEF Reliable, Disputing
  <1>2. IsFiniteSet(Kinds)
    BY KindsAreFinite
  <1>3. \A A \in SUBSET Kinds : \A x \in A : sum(A) = f[x] + sum(A \ {x}) /\ sum(A \ {x}) \in Nat
    <2>1. \A A \in SUBSET Kinds :
              sum(A) \in Nat /\ \A x \in A : sum(A) = f[x] + sum(A \ {x})
      BY <1>2, SumTakesOut
    <2> QED BY <2>1
  <1>4. sum({}) = 0
    BY <1>2, SumUnfolds
  <1> HIDE DEF sum
  <1>5. /\ sum(Kinds) = f[Reliable] + sum(five) /\ sum(five) = f["CHRONIC_LATE"] + sum(four)
        /\ sum(four) = f[Disputing] + sum(three)
    BY <1>1, <1>3
  <1>6. /\ sum(three) = f["DISTRESSED"] + sum(two) /\ sum(two) = f["SILENT"] + sum(one)
        /\ sum(one) = f["PAID_UNRECONCILED"] + sum(none)
    BY <1>1, <1>3
  <1>7. /\ f[Reliable] \in Nat /\ f["CHRONIC_LATE"] \in Nat /\ f[Disputing] \in Nat
        /\ f["DISTRESSED"] \in Nat /\ f["SILENT"] \in Nat /\ f["PAID_UNRECONCILED"] \in Nat
        /\ sum(five) \in Nat /\ sum(four) \in Nat /\ sum(three) \in Nat /\ sum(two) \in Nat
        /\ sum(one) \in Nat /\ sum(none) = 0
    BY <1>1, <1>3, <1>4, SixKinds
  <1>8. sum(Kinds) =
             f[Reliable] + f["CHRONIC_LATE"] + f[Disputing] + f["DISTRESSED"] + f["SILENT"]
                 + f["PAID_UNRECONCILED"]
    <2> HIDE DEF five, four, three, two, one, none
    <2> QED BY <1>5, <1>6, <1>7
  <1> QED BY <1>8 DEF sum

\* The members of a set found so far.
LEMMA CountOneMore ==
    ASSUME NEW S, IsFiniteSet(S), NEW x, x \notin S, NEW s
    PROVE  /\ Cardinality(s \cap (S \cup {x})) = Cardinality(s \cap S) + IF x \in s THEN 1 ELSE 0
           /\ Cardinality(s \cap S) \in Nat
  <1>1. IsFiniteSet(s \cap S) /\ x \notin s \cap S
    BY FS_Subset
  <1>2. CASE x \in s
    <2>1. s \cap (S \cup {x}) = (s \cap S) \cup {x}
      BY <1>2
    <2> QED BY <1>1, <1>2, <2>1, FS_AddElement, FS_CardinalityType
  <1>3. CASE x \notin s
    <2>1. s \cap (S \cup {x}) = s \cap S
      BY <1>3
    <2>2. Cardinality(s \cap S) \in Nat
      BY <1>1, FS_CardinalityType
    <2>3. Cardinality(s \cap (S \cup {x})) = Cardinality(s \cap S)
      BY <2>1, Zenon
    <2> QED BY <1>3, <2>2, <2>3
  <1> QED BY <1>2, <1>3

\* A member counted.
One(a, s) == IF a \in s THEN 1 ELSE 0

\* The members of a set of archetypes, one term for each.
LEMMA CountOfSix ==
    ASSUME NEW s \in SUBSET Kinds
    PROVE  Cardinality(s) =
             One(Reliable, s) + One("CHRONIC_LATE", s) + One(Disputing, s) + One("DISTRESSED", s)
                 + One("SILENT", s) + One("PAID_UNRECONCILED", s)
  <1> DEFINE one == {} \cup {Reliable}
             two == one \cup {"CHRONIC_LATE"}
             three == two \cup {Disputing}
             four == three \cup {"DISTRESSED"}
             five == four \cup {"SILENT"}
             six == five \cup {"PAID_UNRECONCILED"}
  <1>1. /\ IsFiniteSet({}) /\ IsFiniteSet(one) /\ IsFiniteSet(two) /\ IsFiniteSet(three)
        /\ IsFiniteSet(four) /\ IsFiniteSet(five)
    <2>1. IsFiniteSet({}) /\ IsFiniteSet(one)
      BY FS_EmptySet, FS_AddElement
    <2>2. IsFiniteSet(two)
      BY <2>1, FS_AddElement
    <2>3. IsFiniteSet(three)
      BY <2>2, FS_AddElement
    <2>4. IsFiniteSet(four)
      BY <2>3, FS_AddElement
    <2>5. IsFiniteSet(five)
      BY <2>4, FS_AddElement
    <2> QED BY <2>1, <2>2, <2>3, <2>4, <2>5
  <1>2. /\ Reliable \notin {} /\ "CHRONIC_LATE" \notin one /\ Disputing \notin two
        /\ "DISTRESSED" \notin three /\ "SILENT" \notin four /\ "PAID_UNRECONCILED" \notin five
        /\ s \cap six = s /\ s \cap {} = {}
    BY SixKinds DEF Reliable, Disputing
  <1> HIDE DEF one, two, three, four, five
  <1>3. Cardinality(s \cap one) = One(Reliable, s)
    <2>1. Cardinality(s \cap one) = Cardinality(s \cap {}) + One(Reliable, s)
      BY <1>1, <1>2, CountOneMore DEF one, One
    <2> QED BY <1>2, <2>1, FS_EmptySet DEF One
  <1>4. Cardinality(s \cap two) = Cardinality(s \cap one) + One("CHRONIC_LATE", s)
    BY <1>1, <1>2, CountOneMore DEF two, One
  <1>5. Cardinality(s \cap three) = Cardinality(s \cap two) + One(Disputing, s)
    BY <1>1, <1>2, CountOneMore DEF three, One
  <1>6. Cardinality(s \cap four) = Cardinality(s \cap three) + One("DISTRESSED", s)
    BY <1>1, <1>2, CountOneMore DEF four, One
  <1>7. Cardinality(s \cap five) = Cardinality(s \cap four) + One("SILENT", s)
    BY <1>1, <1>2, CountOneMore DEF five, One
  <1>8. Cardinality(s \cap six) = Cardinality(s \cap five) + One("PAID_UNRECONCILED", s)
    BY <1>1, <1>2, CountOneMore DEF six, One
  <1> QED BY <1>2, <1>3, <1>4, <1>5, <1>6, <1>7, <1>8

\* How often a value is among the first m of a list.
Hits(f, v, m) == Cardinality({k \in 1 .. m : f[k] = v})

\* One more of the list is one more or none.
LEMMA HitsGrow ==
    ASSUME NEW f, NEW v, NEW m \in Nat
    PROVE  /\ Hits(f, v, 0) = 0
           /\ Hits(f, v, m) \in Nat
           /\ Hits(f, v, m + 1) = Hits(f, v, m) + IF f[m + 1] = v THEN 1 ELSE 0
  <1> DEFINE s == {k \in 1 .. m + 1 : f[k] = v}
  <1>1. Hits(f, v, 0) = 0
    <2>1. {k \in 1 .. 0 : f[k] = v} = {}
      OBVIOUS
    <2> QED BY <2>1, FS_EmptySet DEF Hits
  <1>2. IsFiniteSet(1 .. m) /\ m + 1 \notin 1 .. m
    BY FS_Interval
  <1>3. /\ Cardinality(s \cap ((1 .. m) \cup {m + 1}))
              = Cardinality(s \cap (1 .. m)) + IF m + 1 \in s THEN 1 ELSE 0
        /\ Cardinality(s \cap (1 .. m)) \in Nat
    <2> HIDE DEF s
    <2> QED BY <1>2, CountOneMore
  <1>4. s \cap ((1 .. m) \cup {m + 1}) = s /\ s \cap (1 .. m) = {k \in 1 .. m : f[k] = v}
    OBVIOUS
  <1>5. m + 1 \in s <=> f[m + 1] = v
    OBVIOUS
  <1> QED BY <1>1, <1>3, <1>4, <1>5 DEF Hits

\* The first m of the cluster by archetype, in the order of the pools.
ClusterHits(m, r, c, d, di, si, p) ==
    /\ Hits(ClusterArchetypes, Reliable, m) = r
    /\ Hits(ClusterArchetypes, "CHRONIC_LATE", m) = c
    /\ Hits(ClusterArchetypes, Disputing, m) = d
    /\ Hits(ClusterArchetypes, "DISTRESSED", m) = di
    /\ Hits(ClusterArchetypes, "SILENT", m) = si
    /\ Hits(ClusterArchetypes, "PAID_UNRECONCILED", m) = p

\* The archetypes of the first m of the nine.
LEMMA ClusterTable ==
    /\ ClusterHits(0, 0, 0, 0, 0, 0, 0) /\ ClusterHits(1, 0, 0, 0, 0, 1, 0)
    /\ ClusterHits(2, 1, 0, 0, 0, 1, 0) /\ ClusterHits(3, 1, 0, 0, 0, 2, 0)
    /\ ClusterHits(4, 1, 1, 0, 0, 2, 0) /\ ClusterHits(5, 1, 1, 0, 0, 3, 0)
    /\ ClusterHits(6, 2, 1, 0, 0, 3, 0) /\ ClusterHits(7, 2, 2, 0, 0, 3, 0)
    /\ ClusterHits(8, 2, 2, 0, 0, 4, 0) /\ ClusterHits(9, 3, 2, 0, 0, 4, 0)
  <1>1. \A m \in 0 .. 8 : \A v \in Kinds :
            /\ Hits(ClusterArchetypes, v, 0) = 0
            /\ Hits(ClusterArchetypes, v, m + 1)
                  = Hits(ClusterArchetypes, v, m) + IF ClusterArchetypes[m + 1] = v THEN 1 ELSE 0
    BY HitsGrow
  <1>2. /\ Reliable \in Kinds /\ "CHRONIC_LATE" \in Kinds /\ Disputing \in Kinds
        /\ "DISTRESSED" \in Kinds /\ "SILENT" \in Kinds /\ "PAID_UNRECONCILED" \in Kinds
    BY SixKinds
  <1>3. ClusterHits(0, 0, 0, 0, 0, 0, 0)
    BY <1>1, <1>2 DEF ClusterHits
  <1>4. ClusterHits(1, 0, 0, 0, 0, 1, 0)
    <2>1. ClusterArchetypes[0 + 1] = "SILENT"
      BY DEF ClusterArchetypes
    <2> QED BY <1>1, <1>2, <1>3, <2>1 DEF ClusterHits, Reliable, Disputing
  <1>5. ClusterHits(2, 1, 0, 0, 0, 1, 0)
    <2>1. ClusterArchetypes[1 + 1] = Reliable
      BY DEF ClusterArchetypes
    <2> QED BY <1>1, <1>2, <1>4, <2>1 DEF ClusterHits, Reliable, Disputing
  <1>6. ClusterHits(3, 1, 0, 0, 0, 2, 0)
    <2>1. ClusterArchetypes[2 + 1] = "SILENT"
      BY DEF ClusterArchetypes
    <2> QED BY <1>1, <1>2, <1>5, <2>1 DEF ClusterHits, Reliable, Disputing
  <1>7. ClusterHits(4, 1, 1, 0, 0, 2, 0)
    <2>1. ClusterArchetypes[3 + 1] = "CHRONIC_LATE"
      BY DEF ClusterArchetypes
    <2> QED BY <1>1, <1>2, <1>6, <2>1 DEF ClusterHits, Reliable, Disputing
  <1>8. ClusterHits(5, 1, 1, 0, 0, 3, 0)
    <2>1. ClusterArchetypes[4 + 1] = "SILENT"
      BY DEF ClusterArchetypes
    <2> QED BY <1>1, <1>2, <1>7, <2>1 DEF ClusterHits, Reliable, Disputing
  <1>9. ClusterHits(6, 2, 1, 0, 0, 3, 0)
    <2>1. ClusterArchetypes[5 + 1] = Reliable
      BY DEF ClusterArchetypes
    <2> QED BY <1>1, <1>2, <1>8, <2>1 DEF ClusterHits, Reliable, Disputing
  <1>10. ClusterHits(7, 2, 2, 0, 0, 3, 0)
    <2>1. ClusterArchetypes[6 + 1] = "CHRONIC_LATE"
      BY DEF ClusterArchetypes
    <2> QED BY <1>1, <1>2, <1>9, <2>1 DEF ClusterHits, Reliable, Disputing
  <1>11. ClusterHits(8, 2, 2, 0, 0, 4, 0)
    <2>1. ClusterArchetypes[7 + 1] = "SILENT"
      BY DEF ClusterArchetypes
    <2> QED BY <1>1, <1>2, <1>10, <2>1 DEF ClusterHits, Reliable, Disputing
  <1>12. ClusterHits(9, 3, 2, 0, 0, 4, 0)
    <2>1. ClusterArchetypes[8 + 1] = Reliable
      BY DEF ClusterArchetypes
    <2> QED BY <1>1, <1>2, <1>11, <2>1 DEF ClusterHits, Reliable, Disputing
  <1> QED BY <1>3, <1>4, <1>5, <1>6, <1>7, <1>8, <1>9, <1>10, <1>11, <1>12

\* The nine are shared out among the archetypes.
LEMMA ClusterIsShared ==
    ASSUME NEW n \in Nat
    PROVE  /\ ClusterSize(n) \in 0 .. 9 /\ ClusterSize(n) <= n
           /\ n >= 9 => ClusterSize(n) = 9
           /\ \A a \in Kinds : InCluster(a, n) \in Nat
           /\ InCluster(Reliable, n) + InCluster("CHRONIC_LATE", n) + InCluster(Disputing, n)
                  + InCluster("DISTRESSED", n) + InCluster("SILENT", n)
                  + InCluster("PAID_UNRECONCILED", n) = ClusterSize(n)
           /\ \A a \in Kinds : InCluster(a, n) <= 4
           /\ InCluster(Disputing, n) = 0 /\ InCluster(Reliable, n) <= 3
           /\ InCluster("DISTRESSED", n) = 0 /\ InCluster("PAID_UNRECONCILED", n) = 0
  <1>1. ClusterSize(n) = IF n < 9 THEN n ELSE 9
    <2>1. \E x \in {9, n} : \A y \in {9, n} : x <= y
      <3>1. CASE n < 9
        BY <3>1
      <3>2. CASE n >= 9
        BY <3>2
      <3> QED BY <3>1, <3>2
    <2> QED BY <2>1 DEF ClusterSize, Min
  <1>2. ClusterSize(n) \in 0 .. 9 /\ ClusterSize(n) <= n /\ (n >= 9 => ClusterSize(n) = 9)
    BY <1>1
  <1> DEFINE m == ClusterSize(n)
  <1>3. \A a : InCluster(a, n) = Hits(ClusterArchetypes, a, m)
    BY DEF InCluster, Hits
  <1>4. \E r, c, si \in 0 .. 4 : ClusterHits(m, r, c, 0, 0, si, 0) /\ r + c + si = m /\ r <= 3
    <2>1. m \in {0, 1, 2, 3, 4, 5, 6, 7, 8, 9}
      BY <1>2
    <2> HIDE DEF m
    <2> QED BY <2>1, ClusterTable
  <1>5. PICK r, c, si \in 0 .. 4 : ClusterHits(m, r, c, 0, 0, si, 0) /\ r + c + si = m /\ r <= 3
    BY <1>4
  <1>6. /\ InCluster(Reliable, n) = r /\ InCluster("CHRONIC_LATE", n) = c
        /\ InCluster(Disputing, n) = 0 /\ InCluster("DISTRESSED", n) = 0
        /\ InCluster("SILENT", n) = si /\ InCluster("PAID_UNRECONCILED", n) = 0
    <2> HIDE DEF m
    <2> QED BY <1>3, <1>5 DEF ClusterHits
  <1>7. \A a \in Kinds : InCluster(a, n) \in Nat /\ InCluster(a, n) <= 4
    BY <1>6, SixKinds
  <1>8. r + c + 0 + 0 + si + 0 = m
    BY <1>5
  <1> QED BY <1>2, <1>5, <1>6, <1>7, <1>8

\* A quota is its whole records and a fraction of one.
LEMMA DivisionOfBatch ==
    ASSUME NEW q \in Nat
    PROVE  q \div 126 \in Nat /\ q % 126 \in 0 .. 125 /\ q = 126 * (q \div 126) + (q % 126)
  <1>1. q \div 126 \in Nat /\ q % 126 \in 0 .. 125
    OBVIOUS
  <1>2. q = 126 * (q \div 126) + (q % 126)
    OBVIOUS
  <1> QED BY <1>1, <1>2

\* What apportion gives: at least the whole of each quota, less than one record
\* off it, and all of the size asked for.
LEMMA SharesAddUp ==
    ASSUME NEW n \in Nat, NEW sh \in Apportion(n)
    PROVE  /\ sh \in [Kinds -> Nat]
           /\ SumFunctionOnSet(sh, Kinds) = n
           /\ \A a \in Kinds :
                /\ sh[a] >= Whole(a, n)
                /\ -BatchSize < sh[a] * BatchSize - Quota(a, n)
                /\ sh[a] * BatchSize - Quota(a, n) < BatchSize
  <1> DEFINE whole == [a \in Kinds |-> Whole(a, n)]
             left == n - SumFunction(whole)
  <1>1. PICK s \in SUBSET Kinds :
            /\ Cardinality(s) = left
            /\ \A a \in s, o \in Kinds \ s : Fraction(a, n) >= Fraction(o, n)
            /\ sh = [a \in Kinds |-> Whole(a, n) + IF a \in s THEN 1 ELSE 0]
    BY DEF Apportion
  <1>2. \A a \in Kinds : ProfileOf(a).count \in Nat
    BY SixKinds, ProfileCounts
  <1>3. \A q \in Nat : /\ q \div 126 \in Nat /\ q % 126 \in 0 .. 125
                       /\ q = 126 * (q \div 126) + (q % 126)
    BY DivisionOfBatch
  <1>4. \A a \in Kinds : /\ Quota(a, n) \in Nat /\ Whole(a, n) \in Nat
                          /\ Fraction(a, n) \in 0 .. 125
                          /\ Quota(a, n) = 126 * Whole(a, n) + Fraction(a, n)
    <2>1. \A a \in Kinds : Quota(a, n) \in Nat
      BY <1>2 DEF Quota
    <2> QED BY <1>3, <2>1 DEF Whole, Fraction, BatchSize
  <1>5. \A a \in Kinds : sh[a] = Whole(a, n) + One(a, s) /\ One(a, s) \in {0, 1}
    BY <1>1 DEF One
  <1>6. sh \in [Kinds -> Nat]
    BY <1>1, <1>4
  <1>7. SumFunctionOnSet(sh, Kinds) = n
    <2>1. SumFunction(whole) = SumFunctionOnSet(whole, Kinds)
      BY DEF SumFunction
    <2>2. \A a \in Kinds : whole[a] = Whole(a, n)
      OBVIOUS
    <2> HIDE DEF whole
    <2>3. SumFunctionOnSet(whole, Kinds) =
             Whole(Reliable, n) + Whole("CHRONIC_LATE", n) + Whole(Disputing, n)
                 + Whole("DISTRESSED", n) + Whole("SILENT", n) + Whole("PAID_UNRECONCILED", n)
      BY <1>4, <2>2, SumOfSix, SixKinds
    <2>4. SumFunctionOnSet(sh, Kinds) =
             sh[Reliable] + sh["CHRONIC_LATE"] + sh[Disputing] + sh["DISTRESSED"] + sh["SILENT"]
                 + sh["PAID_UNRECONCILED"]
      BY <1>6, SumOfSix
    <2>5. Cardinality(s) =
             One(Reliable, s) + One("CHRONIC_LATE", s) + One(Disputing, s) + One("DISTRESSED", s)
                 + One("SILENT", s) + One("PAID_UNRECONCILED", s)
      BY CountOfSix
    <2>6. Cardinality(s) = n - SumFunctionOnSet(whole, Kinds)
      BY <1>1, <2>1
    <2>7. /\ sh[Reliable] = Whole(Reliable, n) + One(Reliable, s)
          /\ sh["CHRONIC_LATE"] = Whole("CHRONIC_LATE", n) + One("CHRONIC_LATE", s)
          /\ sh[Disputing] = Whole(Disputing, n) + One(Disputing, s)
          /\ sh["DISTRESSED"] = Whole("DISTRESSED", n) + One("DISTRESSED", s)
          /\ sh["SILENT"] = Whole("SILENT", n) + One("SILENT", s)
          /\ sh["PAID_UNRECONCILED"] = Whole("PAID_UNRECONCILED", n) + One("PAID_UNRECONCILED", s)
      BY <1>5, SixKinds
    <2>8. \A a \in Kinds : Whole(a, n) \in Nat /\ One(a, s) \in Nat
      BY <1>4, <1>5
    <2>9. /\ Whole(Reliable, n) \in Nat /\ One(Reliable, s) \in Nat
          /\ Whole("CHRONIC_LATE", n) \in Nat /\ One("CHRONIC_LATE", s) \in Nat
          /\ Whole(Disputing, n) \in Nat /\ One(Disputing, s) \in Nat
          /\ Whole("DISTRESSED", n) \in Nat /\ One("DISTRESSED", s) \in Nat
          /\ Whole("SILENT", n) \in Nat /\ One("SILENT", s) \in Nat
          /\ Whole("PAID_UNRECONCILED", n) \in Nat /\ One("PAID_UNRECONCILED", s) \in Nat
      BY <2>8, SixKinds
    <2> DEFINE wholes == Whole(Reliable, n) + Whole("CHRONIC_LATE", n) + Whole(Disputing, n)
                   + Whole("DISTRESSED", n) + Whole("SILENT", n) + Whole("PAID_UNRECONCILED", n)
               ones == One(Reliable, s) + One("CHRONIC_LATE", s) + One(Disputing, s)
                   + One("DISTRESSED", s) + One("SILENT", s) + One("PAID_UNRECONCILED", s)
    <2>10. ones = n - wholes
      BY <2>3, <2>5, <2>6, Zenon
    <2>11. SumFunctionOnSet(sh, Kinds) = wholes + ones
      BY <2>4, <2>7, <2>9
    <2>12. wholes \in Nat /\ ones \in Nat
      BY <2>9
    <2> HIDE DEF wholes, ones
    <2> QED BY <2>10, <2>11, <2>12
  <1>8. ASSUME NEW a \in s, Fraction(a, n) = 0 PROVE FALSE
    <2>1. \A o \in Kinds : Fraction(o, n) <= 125 * One(o, s)
      <3>1. ASSUME NEW o \in Kinds PROVE Fraction(o, n) <= 125 * One(o, s)
        <4>1. CASE o \in s
          BY <1>4, <4>1 DEF One
        <4>2. CASE o \notin s
          <5>1. Fraction(a, n) >= Fraction(o, n)
            BY <1>1, <1>8, <4>2
          <5> QED BY <1>4, <1>8, <4>2, <5>1 DEF One
        <4> QED BY <4>1, <4>2
      <3> QED BY <3>1
    <2>2. \A o \in Kinds : Quota(o, n) <= 126 * Whole(o, n) + 125 * One(o, s)
      BY <1>4, <1>5, <2>1
    <2>3. Quota(a, n) <= 126 * Whole(a, n) + 125 * One(a, s) - 125 /\ One(a, s) = 1
      BY <1>4, <1>5, <1>8 DEF One
    <2>4. \A o \in Kinds : Quota(o, n) <= 126 * sh[o] - One(o, s)
      BY <1>4, <1>5, <2>2
    <2>5. Quota(a, n) <= 126 * sh[a] - 126
      BY <1>4, <1>5, <2>3
    <2>6. \A o \in Kinds : Quota(o, n) <= 126 * sh[o] - (IF o = a THEN 126 ELSE 0)
      BY <1>4, <1>5, <1>6, <2>4, <2>5
    <2>7. /\ Quota(Reliable, n) = 34 * n /\ Quota("CHRONIC_LATE", n) = 30 * n
          /\ Quota(Disputing, n) = 18 * n /\ Quota("DISTRESSED", n) = 12 * n
          /\ Quota("SILENT", n) = 22 * n /\ Quota("PAID_UNRECONCILED", n) = 10 * n
      BY ProfileCounts DEF Quota
    <2>8. n = sh[Reliable] + sh["CHRONIC_LATE"] + sh[Disputing] + sh["DISTRESSED"] + sh["SILENT"]
                 + sh["PAID_UNRECONCILED"]
      BY <1>6, <1>7, SumOfSix
    <2>9. /\ 34 * n <= 126 * sh[Reliable] - (IF Reliable = a THEN 126 ELSE 0)
          /\ 30 * n <= 126 * sh["CHRONIC_LATE"] - (IF "CHRONIC_LATE" = a THEN 126 ELSE 0)
          /\ 18 * n <= 126 * sh[Disputing] - (IF Disputing = a THEN 126 ELSE 0)
          /\ 12 * n <= 126 * sh["DISTRESSED"] - (IF "DISTRESSED" = a THEN 126 ELSE 0)
          /\ 22 * n <= 126 * sh["SILENT"] - (IF "SILENT" = a THEN 126 ELSE 0)
          /\ 10 * n <= 126 * sh["PAID_UNRECONCILED"] - (IF "PAID_UNRECONCILED" = a THEN 126 ELSE 0)
      BY <2>6, <2>7, SixKinds
    <2>10. a \in Kinds
      OBVIOUS
    <2>11. /\ sh[Reliable] \in Nat /\ sh["CHRONIC_LATE"] \in Nat /\ sh[Disputing] \in Nat
           /\ sh["DISTRESSED"] \in Nat /\ sh["SILENT"] \in Nat /\ sh["PAID_UNRECONCILED"] \in Nat
      BY <1>6, SixKinds
    <2> QED BY <2>8, <2>9, <2>10, <2>11, SixKinds
  <1>9. ASSUME NEW a \in Kinds
        PROVE  /\ sh[a] >= Whole(a, n)
               /\ -BatchSize < sh[a] * BatchSize - Quota(a, n)
               /\ sh[a] * BatchSize - Quota(a, n) < BatchSize
    <2>1. a \in s => Fraction(a, n) > 0
      BY <1>4, <1>8
    <2>2. One(a, s) = 1 => a \in s
      BY DEF One
    <2>3. sh[a] = Whole(a, n) + One(a, s) /\ One(a, s) \in {0, 1}
      BY <1>5
    <2>4. /\ Whole(a, n) \in Nat /\ Fraction(a, n) \in 0 .. 125
          /\ Quota(a, n) = 126 * Whole(a, n) + Fraction(a, n)
      BY <1>4
    <2> QED BY <2>1, <2>2, <2>3, <2>4 DEF BatchSize
  <1> QED BY <1>6, <1>7, <1>9

-----------------------------------------------------------------------------
(* The book as it is written.                                               *)

\* The spotlight is the first of its pool; what is hidden is what comes after the
\* visible ones of its own.
Spotted == IF built[Reliable] > 0 THEN 1 ELSE 0
Hidden == LET visible == VisibleCount(shares[Disputing])
          IN  IF built[Disputing] > visible THEN built[Disputing] - visible ELSE 0

\* A book in the making: no archetype has more than its share, a refusal has a
\* reason, and what is written is all there is to write.
GeneratorInv ==
    /\ count \in Nat /\ shares \in Apportion(count)
    /\ stage \in {"building", "refused", "written"}
    /\ slot \in 0 .. ClusterSize(count)
    /\ built \in [Kinds -> Nat] /\ \A a \in Kinds : built[a] > 0 => built[a] <= Target(a)
    /\ stage = "refused" => \E a \in Kinds : Target(a) < 0
    /\ stage = "written" => slot = ClusterSize(count) /\ \A a \in Kinds : built[a] = Target(a)
    /\ spotlights = Spotted /\ proseOnly = Hidden

\* What is left of a share once the cluster has taken its own.
LEMMA Targets ==
    ASSUME count \in Nat, shares \in Apportion(count)
    PROVE  \A a \in Kinds : /\ Target(a) \in Int /\ shares[a] \in Nat
                            /\ shares[a] = Target(a) + InCluster(a, count)
  <1>1. shares \in [Kinds -> Nat]
    BY SharesAddUp
  <1>2. \A a \in Kinds : InCluster(a, count) \in Nat
    BY ClusterIsShared
  <1> QED BY <1>1, <1>2 DEF Target

\* Of seventeen disputing records five are not filed as disputes.
LEMMA VisibleIsCount ==
    ASSUME NEW t \in Nat
    PROVE  VisibleCount(t) \in Nat /\ (t >= 17 => t - VisibleCount(t) >= 5)
  BY DEF VisibleCount

\* The first payer of eleven takes the first record there is and is the only one to.
LEMMA FirstPayer ==
    ASSUME NEW t \in Nat, t > 0
    PROVE  PayerSlot(0, t, 11) = 0 /\ SplitEvenly(t, 11, 0) = 0
  <1>1. t \div 11 \in Nat /\ t % 11 \in 0 .. 10 /\ (t \div 11 > 0 \/ t % 11 > 0)
    <2>1. t \div 11 \in Nat /\ t % 11 \in 0 .. 10
      OBVIOUS
    <2>2. t = 11 * (t \div 11) + (t % 11)
      OBVIOUS
    <2> QED BY <2>1, <2>2
  <1>2. \A p, r \in Nat : Min({p, r}) \in Nat /\ Min({p, r}) = IF p < r THEN p ELSE r
    <2>1. ASSUME NEW p \in Nat, NEW r \in Nat
          PROVE  Min({p, r}) \in Nat /\ Min({p, r}) = IF p < r THEN p ELSE r
      <3>1. \E x \in {p, r} : \A y \in {p, r} : x <= y
        <4>1. CASE p < r
          BY <4>1
        <4>2. CASE p >= r
          BY <4>2
        <4> QED BY <4>1, <4>2
      <3> QED BY <3>1 DEF Min
    <2> QED BY <2>1
  <1> DEFINE q == t \div 11
             r == t % 11
  <1>3. \A p \in Nat : SplitEvenly(t, 11, p) = p * q + IF p < r THEN p ELSE r
    BY <1>1, <1>2 DEF SplitEvenly
  <1>4. q \in Nat /\ r \in Nat /\ (q > 0 \/ r > 0)
    BY <1>1
  <1> HIDE DEF q, r
  <1>5. SplitEvenly(t, 11, 0) = 0
    BY <1>3, <1>4
  <1>6. \A p \in 1 .. 11 : SplitEvenly(t, 11, p) > 0
    <2>1. ASSUME NEW p \in 1 .. 11 PROVE p * q + (IF p < r THEN p ELSE r) > 0
      <3>1. p * q >= q
        BY <1>4, <2>1
      <3>2. p * q \in Nat
        BY <1>4, <2>1
      <3> QED BY <1>4, <2>1, <3>1, <3>2
    <2> QED BY <1>3, <2>1
  <1>7. \A p \in 0 .. 10 :
            (SplitEvenly(t, 11, p) <= 0 /\ 0 < SplitEvenly(t, 11, p + 1)) <=> p = 0
    <2>1. ASSUME NEW p \in 0 .. 10
          PROVE  (SplitEvenly(t, 11, p) <= 0 /\ 0 < SplitEvenly(t, 11, p + 1)) <=> p = 0
      <3>1. 0 < SplitEvenly(t, 11, p + 1)
        BY <1>6, <2>1
      <3>2. p = 0 => SplitEvenly(t, 11, p) <= 0
        BY <1>5
      <3>3. p # 0 => SplitEvenly(t, 11, p) > 0 /\ SplitEvenly(t, 11, p) \in Int
        <4>1. p # 0 => SplitEvenly(t, 11, p) > 0
          BY <1>6, <2>1
        <4>2. SplitEvenly(t, 11, p) \in Int
          <5>1. p * q \in Int
            BY <1>4, <2>1
          <5> QED BY <1>3, <1>4, <2>1, <5>1
        <4> QED BY <4>1, <4>2
      <3> QED BY <3>1, <3>2, <3>3
    <2> QED BY <2>1
  <1>8. PayerSlot(0, t, 11) = CHOOSE p \in 0 .. 10 : p = 0
    BY <1>7 DEF PayerSlot
  <1> QED BY <1>5, <1>8

\* The spotlight is the first record of the reliable pool, and no other.
LEMMA SpotlightIsFirst ==
    ASSUME NEW a \in Kinds, built[a] \in Nat, Target(a) \in Int, built[a] < Target(a)
    PROVE  IsSpotlight(a) <=> a = Reliable /\ built[a] = 0
  <1>1. Target(a) \in Nat /\ Target(a) > 0
    OBVIOUS
  <1>2. PayersPerArchetype[RankOf(Reliable)] = 11
    BY Ranks DEF PayersPerArchetype
  <1>3. PayerSlot(0, Target(a), 11) = 0 /\ SplitEvenly(Target(a), 11, 0) = 0
    BY <1>1, FirstPayer
  <1>4. CASE a = Reliable /\ built[a] = 0
    BY <1>2, <1>3, <1>4 DEF IsSpotlight
  <1>5. CASE a = Reliable /\ built[a] # 0
    <2>1. ~IsSpotlight(a)
      <3>1. SUFFICES ASSUME IsSpotlight(a) PROVE FALSE
        OBVIOUS
      <3>2. PayerSlot(built[a], Target(a), 11) = 0
        BY <1>2, <1>5, <3>1 DEF IsSpotlight
      <3>3. built[a] = SplitEvenly(Target(a), 11, PayerSlot(built[a], Target(a), 11))
        BY <1>2, <1>5, <3>1 DEF IsSpotlight
      <3> QED BY <1>3, <1>5, <3>2, <3>3
    <2> QED BY <1>5, <2>1
  <1>6. CASE a # Reliable
    BY <1>6 DEF IsSpotlight
  <1> QED BY <1>4, <1>5, <1>6

\* An empty book is one in the making.
LEMMA GeneratorInitInv == GeneratorInit => GeneratorInv
  <1> SUFFICES ASSUME GeneratorInit PROVE GeneratorInv
    OBVIOUS
  <1>1. count \in Nat /\ shares \in Apportion(count)
    BY GeneratorAssumption DEF GeneratorInit
  <1>2. ClusterSize(count) \in 0 .. 9
    BY <1>1, ClusterIsShared
  <1>3. \A a \in Kinds : built[a] = 0
    BY DEF GeneratorInit
  <1>4. Reliable \in Kinds /\ Disputing \in Kinds
    BY SixKinds
  <1>5. shares[Disputing] \in Nat
    BY <1>1, <1>4, Targets
  <1>6. VisibleCount(shares[Disputing]) \in Nat
    BY <1>5, VisibleIsCount
  <1>7. Spotted = 0 /\ Hidden = 0
    BY <1>3, <1>4, <1>6 DEF Spotted, Hidden
  <1>8. /\ built \in [Kinds -> Nat] /\ stage = "building" /\ slot = 0
        /\ spotlights = 0 /\ proseOnly = 0
    BY DEF GeneratorInit
  <1> QED BY <1>1, <1>2, <1>3, <1>7, <1>8 DEF GeneratorInv

\* A general record goes to an archetype that is short of its share, and is
\* the spotlight, or in prose alone, as its place in the pool says.
LEMMA WriteGeneralKeepsInv == GeneratorInv /\ WriteGeneral => GeneratorInv'
  <1> SUFFICES ASSUME GeneratorInv, WriteGeneral PROVE GeneratorInv'
    OBVIOUS
  <1> DEFINE a == ArchetypeOrder[Min(NextKind)]
  <1>1. /\ built' = [built EXCEPT ![a] = @ + 1]
        /\ spotlights' = spotlights + IF IsSpotlight(a) THEN 1 ELSE 0
        /\ proseOnly' = proseOnly + IF a = Disputing /\ ~VisibleDispute(a) THEN 1 ELSE 0
        /\ UNCHANGED <<count, shares, stage, slot>>
        /\ stage = "building" /\ NextKind # {}
    BY DEF WriteGeneral
  <1>2. a \in Kinds /\ built[a] < Target(a)
    <2>1. NextKind \subseteq 1 .. 6
      BY DEF NextKind
    <2>2. Min(NextKind) \in NextKind
      <3>1. \E x \in NextKind : \A y \in NextKind : x <= y
        <4>1. NextKind \in SUBSET Nat /\ NextKind # {}
          BY <1>1, <2>1
        <4> HIDE DEF NextKind
        <4> QED BY <4>1, LeastTick
      <3> QED BY <3>1 DEF Min
    <2>3. \A k \in 1 .. 6 : ArchetypeOrder[k] \in Kinds
      BY SixKinds DEF ArchetypeOrder
    <2> QED BY <2>1, <2>2, <2>3 DEF NextKind
  <1> HIDE DEF a
  <1>3. /\ count \in Nat /\ shares \in Apportion(count) /\ built \in [Kinds -> Nat]
        /\ spotlights = Spotted /\ proseOnly = Hidden
        /\ \A b \in Kinds : built[b] > 0 => built[b] <= Target(b)
    BY DEF GeneratorInv
  <1>4. \A b \in Kinds : Target(b) \in Int /\ Target(b)' = Target(b)
    BY <1>1, <1>3, Targets DEF Target
  <1>5. built' \in [Kinds -> Nat] /\ built'[a] = built[a] + 1
        /\ \A b \in Kinds : b # a => built'[b] = built[b]
    BY <1>1, <1>2, <1>3
  <1>6. \A b \in Kinds : built'[b] > 0 => built'[b] <= Target(b)'
    BY <1>2, <1>3, <1>4, <1>5
  <1>7. spotlights' = Spotted'
    <2>1. IsSpotlight(a) <=> a = Reliable /\ built[a] = 0
      BY <1>2, <1>3, <1>4, SpotlightIsFirst
    <2>2. Reliable \in Kinds
      BY SixKinds
    <2>3. built[Reliable] \in Nat /\ built'[Reliable] = built[Reliable] + (IF a = Reliable THEN 1 ELSE 0)
      BY <1>3, <1>5, <2>2
    <2>4. spotlights' = (IF built[Reliable] > 0 THEN 1 ELSE 0)
                          + (IF a = Reliable /\ built[Reliable] = 0 THEN 1 ELSE 0)
      BY <1>1, <1>3, <2>1 DEF Spotted
    <2>5. spotlights' = IF built'[Reliable] > 0 THEN 1 ELSE 0
      BY <2>3, <2>4
    <2> QED BY <2>5 DEF Spotted
  <1>8. proseOnly' = Hidden'
    <2>1. Disputing \in Kinds
      BY SixKinds
    <2> DEFINE v == VisibleCount(shares[Disputing])
               n == built[Disputing]
    <2>2. shares[Disputing] \in Nat /\ shares[Disputing] = Target(Disputing) + InCluster(Disputing, count)
      BY <1>3, <2>1, Targets
    <2>3. v \in Nat
      BY <2>2, VisibleIsCount
    <2>4. a = Disputing => (VisibleDispute(a) <=> n < v)
      BY <2>2 DEF VisibleDispute
    <2>5. n \in Nat /\ built'[Disputing] = n + (IF a = Disputing THEN 1 ELSE 0)
      BY <1>3, <1>5, <2>1
    <2>6. proseOnly = IF n > v THEN n - v ELSE 0
      BY <1>3 DEF Hidden
    <2>7. Hidden' = IF built'[Disputing] > v THEN built'[Disputing] - v ELSE 0
      BY <1>1 DEF Hidden
    <2> HIDE DEF v, n
    <2> QED BY <1>1, <2>3, <2>4, <2>5, <2>6, <2>7
  <1>9. slot \in 0 .. ClusterSize(count)
    BY DEF GeneratorInv
  <1> QED BY <1>1, <1>3, <1>5, <1>6, <1>7, <1>8, <1>9 DEF GeneratorInv

\* The parts of the invariant that only the general records change.
LEMMA RestKeepsInv ==
    ASSUME GeneratorInv, UNCHANGED <<count, shares, built, spotlights, proseOnly>>
    PROVE  /\ count' \in Nat /\ shares' \in Apportion(count')
           /\ built' \in [Kinds -> Nat]
           /\ \A a \in Kinds : Target(a)' = Target(a)
           /\ (\A a \in Kinds : built[a] > 0 => built[a] <= Target(a))'
           /\ (spotlights = Spotted /\ proseOnly = Hidden)'
           /\ ClusterSize(count') = ClusterSize(count)
  BY DEF GeneratorInv, Target, Spotted, Hidden

\* So does every other step: a batch is written when nothing is short.
LEMMA GeneratorStepInv == GeneratorInv /\ [GeneratorNext]_generatorVars => GeneratorInv'
  <1> SUFFICES ASSUME GeneratorInv, [GeneratorNext]_generatorVars PROVE GeneratorInv'
    OBVIOUS
  <1>1. CASE WriteGeneral
    BY <1>1, WriteGeneralKeepsInv
  <1>2. CASE Refuse
    <2>1. /\ stage' = "refused" /\ slot' = slot
          /\ UNCHANGED <<count, shares, built, spotlights, proseOnly>>
          /\ \E a \in Kinds : Target(a) < 0
      BY <1>2 DEF Refuse
    <2> QED BY <2>1, RestKeepsInv DEF GeneratorInv
  <1>3. CASE WriteCluster
    <2>1. /\ stage' = stage /\ slot' = slot + 1 /\ slot < ClusterSize(count) /\ stage = "building"
          /\ UNCHANGED <<count, shares, built, spotlights, proseOnly>>
      BY <1>3 DEF WriteCluster
    <2>2. ClusterSize(count) \in 0 .. 9 /\ slot \in 0 .. ClusterSize(count)
      BY ClusterIsShared DEF GeneratorInv
    <2>3. slot' \in 0 .. ClusterSize(count)
      BY <2>1, <2>2
    <2> QED BY <2>1, <2>3, RestKeepsInv DEF GeneratorInv
  <1>4. CASE WriteBatch
    <2>1. /\ stage' = "written" /\ slot' = slot /\ slot = ClusterSize(count) /\ NextKind = {}
          /\ UNCHANGED <<count, shares, built, spotlights, proseOnly>>
          /\ \A a \in Kinds : Target(a) >= 0
      BY <1>4 DEF WriteBatch
    <2>2. \A a \in Kinds : \E k \in 1 .. 6 : ArchetypeOrder[k] = a
      BY SixKinds DEF ArchetypeOrder
    <2>3. ASSUME NEW a \in Kinds PROVE built[a] = Target(a)
      <3>1. PICK k \in 1 .. 6 : ArchetypeOrder[k] = a
        BY <2>2
      <3>2. ~(built[a] < Target(a))
        BY <2>1, <3>1 DEF NextKind
      <3>3. built[a] \in Nat /\ Target(a) \in Int
        BY Targets DEF GeneratorInv
      <3>4. built[a] > 0 => built[a] <= Target(a)
        BY DEF GeneratorInv
      <3> QED BY <2>1, <3>2, <3>3, <3>4
    <2> QED BY <2>1, <2>3, RestKeepsInv DEF GeneratorInv
  <1>5. CASE UNCHANGED generatorVars
    <2>1. UNCHANGED <<count, shares, built, spotlights, proseOnly, stage, slot>>
      BY <1>5 DEF generatorVars
    <2> QED BY <2>1, RestKeepsInv DEF GeneratorInv
  <1> QED BY <1>1, <1>2, <1>3, <1>4, <1>5 DEF GeneratorNext

\* The invariant of a batch in the making, for every size and every draw.
LEMMA GeneratorInvariant == GeneratorSpec => []GeneratorInv
  BY GeneratorInitInv, GeneratorStepInv, PTL DEF GeneratorSpec

\* For every size, the book written is of the size asked for, and each archetype
\* has its share to within one record.
THEOREM SharesAreAlwaysFair == GeneratorSpec => []SharesAreFair
  <1>1. ASSUME GeneratorInv, stage = "written"
        PROVE  /\ slot + SumFunction(built) = count
               /\ \A a \in Kinds :
                    LET off == (built[a] + InCluster(a, count)) * BatchSize - Quota(a, count)
                    IN  -BatchSize < off /\ off < BatchSize
    <2>1. /\ count \in Nat /\ shares \in Apportion(count) /\ slot = ClusterSize(count)
          /\ built \in [Kinds -> Nat] /\ \A a \in Kinds : built[a] = Target(a)
      BY <1>1 DEF GeneratorInv
    <2>2. \A a \in Kinds : /\ built[a] \in Nat /\ InCluster(a, count) \in Nat
                           /\ shares[a] = built[a] + InCluster(a, count)
      BY <2>1, Targets, ClusterIsShared
    <2>3. \A a \in Kinds :
            LET off == (built[a] + InCluster(a, count)) * BatchSize - Quota(a, count)
            IN  -BatchSize < off /\ off < BatchSize
      BY <2>1, <2>2, SharesAddUp
    <2>4. /\ built[Reliable] + built["CHRONIC_LATE"] + built[Disputing] + built["DISTRESSED"]
                + built["SILENT"] + built["PAID_UNRECONCILED"] = SumFunctionOnSet(built, Kinds)
          /\ SumFunction(built) = SumFunctionOnSet(built, Kinds)
      BY <2>1, SumOfSix DEF SumFunction
    <2>5. shares[Reliable] + shares["CHRONIC_LATE"] + shares[Disputing] + shares["DISTRESSED"]
                + shares["SILENT"] + shares["PAID_UNRECONCILED"] = count
      BY <2>1, SumOfSix, SharesAddUp
    <2>6. InCluster(Reliable, count) + InCluster("CHRONIC_LATE", count)
             + InCluster(Disputing, count) + InCluster("DISTRESSED", count)
             + InCluster("SILENT", count) + InCluster("PAID_UNRECONCILED", count) = slot
      BY <2>1, ClusterIsShared
    <2>7. \A a \in {Reliable, "CHRONIC_LATE", Disputing, "DISTRESSED", "SILENT", "PAID_UNRECONCILED"} :
              /\ built[a] \in Nat /\ InCluster(a, count) \in Nat
              /\ shares[a] = built[a] + InCluster(a, count)
      BY <2>2, SixKinds
    <2>8. slot + SumFunction(built) = count
      BY <2>4, <2>5, <2>6, <2>7
    <2> QED BY <2>3, <2>8
  <1>2. GeneratorInv => SharesAreFair
    BY <1>1 DEF SharesAreFair
  <1> QED BY <1>2, GeneratorInvariant, PTL

\* No size the command line takes is refused, and each has its one spotlight and
\* five objections in prose alone.
THEOREM PublishedSizesAlwaysHold == GeneratorSpec => []PublishedSizesHold
  <1>1. ASSUME GeneratorInv, count >= 120
        PROVE  /\ stage # "refused"
               /\ stage = "written" => spotlights = 1 /\ proseOnly >= 5
    <2>1. /\ count \in Nat /\ shares \in Apportion(count) /\ built \in [Kinds -> Nat]
          /\ spotlights = Spotted /\ proseOnly = Hidden
      BY <1>1 DEF GeneratorInv
    <2>2. \A a \in Kinds : shares[a] >= Whole(a, count) /\ shares[a] \in Nat
      BY <2>1, SharesAddUp
    <2>3. \A c \in {34, 30, 18, 12, 22, 10} :
              (count * c) \div 126 >= 9 /\ (c # 10 => (count * c) \div 126 >= 11)
      BY <1>1, <2>1
    <2>4. (count * 18) \div 126 >= 17
      BY <1>1, <2>1
    <2>5. \A a \in Kinds : Whole(a, count) >= 9 /\ Whole(a, count) \in Int
      BY <2>1, <2>3, ProfileCounts, SixKinds DEF Whole, Quota, BatchSize
    <2>6. \A a \in Kinds : Target(a) \in Int /\ Target(a) >= 5
      BY <2>1, <2>2, <2>5, ClusterIsShared DEF Target
    <2>7. Reliable \in Kinds /\ Disputing \in Kinds
      BY SixKinds
    <2>8. shares[Disputing] \in Nat /\ shares[Disputing] >= 17
      BY <2>2, <2>4, <2>5, <2>7, ProfileCounts DEF Whole, Quota, BatchSize
    <2>9. ASSUME stage = "written" PROVE spotlights = 1 /\ proseOnly >= 5
      <3>1. built[Reliable] = Target(Reliable) /\ built[Disputing] = Target(Disputing)
        BY <1>1, <2>7, <2>9 DEF GeneratorInv
      <3>2. Target(Disputing) = shares[Disputing]
        BY <2>1, <2>8, ClusterIsShared DEF Target
      <3>3. spotlights = 1
        BY <2>1, <2>6, <2>7, <3>1 DEF Spotted
      <3> DEFINE v == VisibleCount(shares[Disputing])
      <3>4. v \in Nat /\ shares[Disputing] - v >= 5
        BY <2>8, VisibleIsCount
      <3>5. proseOnly = IF shares[Disputing] > v THEN shares[Disputing] - v ELSE 0
        BY <2>1, <3>1, <3>2 DEF Hidden
      <3> HIDE DEF v
      <3> QED BY <2>8, <3>3, <3>4, <3>5
    <2>10. stage # "refused"
      BY <1>1, <2>6 DEF GeneratorInv
    <2> QED BY <2>9, <2>10
  <1>2. GeneratorInv => PublishedSizesHold
    BY <1>1 DEF PublishedSizesHold
  <1> QED BY <1>2, GeneratorInvariant, PTL

-----------------------------------------------------------------------------
(* The cluster's templates.                                                 *)

\* More of the list holds no fewer.
LEMMA HitsMonotone ==
    ASSUME NEW f, NEW v, NEW m \in Nat, NEW n \in Nat, m <= n
    PROVE  Hits(f, v, m) <= Hits(f, v, n)
  <1> DEFINE S == {k \in 1 .. m : f[k] = v}
             T == {k \in 1 .. n : f[k] = v}
  <1>1. S \subseteq T
    OBVIOUS
  <1>2. IsFiniteSet(1 .. n) /\ T \subseteq 1 .. n
    BY FS_Interval
  <1>3. IsFiniteSet(T)
    BY <1>2, FS_Subset
  <1> HIDE DEF S, T
  <1>4. Cardinality(S) <= Cardinality(T)
    BY <1>1, <1>3, FS_Subset
  <1> QED BY <1>4 DEF Hits, S, T

\* Letters drawn from what a band has left are of that band, and are fewer than
\* they seem only when the band has not that many left.
LEMMA LettersOfABand ==
    ASSUME NEW band, NEW gone, NEW letters \in Letters(Without(band, gone))
    PROVE  /\ Range(letters) \subseteq band
           /\ Cardinality(Range(letters) \ gone) < Len(letters)
                 => Cardinality(band \ gone) < Len(letters)
  <1> DEFINE left == Without(band, gone)
  <1>1. left \subseteq band /\ (left \cap gone # {} => band \ gone = {})
        /\ (left \cap gone = {} => band \ gone = left)
    BY DEF Without
  <1>2. Cardinality({}) = 0
    BY FS_EmptySet
  <1> HIDE DEF left
  <1>3. CASE \E e \in left : letters = <<e>>
    <2>1. PICK e \in left : letters = <<e>>
      BY <1>3
    <2>2. Range(letters) = {e} /\ Len(letters) = 1
      BY <2>1 DEF Range
    <2>3. CASE e \in gone
      BY <1>1, <1>2, <2>1, <2>2, <2>3
    <2>4. CASE e \notin gone
      <3>1. Range(letters) \ gone = {e}
        BY <2>2, <2>4
      <3>2. Cardinality({e}) = 1
        BY FS_Singleton
      <3> QED BY <1>1, <2>1, <2>2, <3>1, <3>2
    <2> QED BY <2>3, <2>4
  <1>4. CASE \E e \in left : \E f \in Without(left, {e}) : letters = <<e, f>>
    <2>1. PICK e \in left : \E f \in Without(left, {e}) : letters = <<e, f>>
      BY <1>4
    <2>2. PICK f \in Without(left, {e}) : letters = <<e, f>>
      BY <2>1
    <2>3. Range(letters) = {e, f} /\ Len(letters) = 2
      BY <2>2 DEF Range
    <2>4. f \in left /\ (f = e => left = {e})
      BY <2>1, <2>2 DEF Without
    <2>5. CASE e \in gone \/ f \in gone
      <3>1. band \ gone = {}
        BY <1>1, <2>1, <2>4, <2>5
      <3> QED BY <1>1, <1>2, <2>1, <2>3, <2>4, <3>1
    <2>6. CASE e \notin gone /\ f \notin gone /\ e # f
      <3>1. Range(letters) \ gone = {e} \cup {f}
        BY <2>3, <2>6
      <3>2. IsFiniteSet({e}) /\ Cardinality({e}) = 1 /\ f \notin {e}
        BY <2>6, FS_Singleton
      <3>3. Cardinality({e} \cup {f}) = 2
        BY <3>2, FS_AddElement
      <3> QED BY <1>1, <2>1, <2>3, <2>4, <3>1, <3>3
    <2>7. CASE e \notin gone /\ f = e
      <3>1. band \ gone = {e}
        BY <1>1, <2>1, <2>4, <2>7
      <3>2. Cardinality({e}) = 1
        BY FS_Singleton
      <3> QED BY <1>1, <2>1, <2>3, <2>4, <3>1, <3>2
    <2> QED BY <2>5, <2>6, <2>7
  <1>5. letters \in Letters(left)
    BY DEF left
  <1> QED BY <1>3, <1>4, <1>5 DEF Letters

\* A reply is at least one letter.
LEMMA LettersAreSent ==
    ASSUME NEW candidates, NEW letters \in Letters(candidates)
    PROVE  letters # << >>
  <1>1. CASE \E e \in candidates : letters = <<e>>
    BY <1>1
  <1>2. CASE \E e \in candidates : \E f \in Without(candidates, {e}) : letters = <<e, f>>
    BY <1>2
  <1> QED BY <1>1, <1>2 DEF Letters

\* What the next of the cluster avoids is what those before it carry, of which
\* each band has given no more notes than it had to.
BandsLast ==
    slot < ClusterSize(count) =>
        /\ spent = carried
        /\ \A h \in Bands :
              /\ IsFiniteSet(carried \cap Templates["NOTE"][h])
              /\ Cardinality(carried \cap Templates["NOTE"][h]) <= Hits(ClusterHintPlan, h, slot)

\* The record the cluster gets next.
LEMMA ClusterRecord ==
    ASSUME GeneratorInv, BandsLast, WriteCluster, NEW h, h = ClusterHintPlan[slot + 1]
    PROVE  /\ slot \in 0 .. 8 /\ slot' = slot + 1 /\ count' = count
           /\ carried' = carried \cup Used(latest') /\ spent' = carried'
           /\ h = "NONE" => latest'.text = NoText
           /\ h # "NONE" =>
                 /\ h \in Bands
                 /\ \E n \in Templates["NOTE"][h] \ carried : latest'.text.note = {n}
                 /\ latest'.text.letters \in Letters(Without(Templates["EMAIL"][h], carried))
  <1>1. /\ slot < ClusterSize(count) /\ slot' = slot + 1 /\ count' = count
        /\ Write(ClusterArchetypes[slot + 1], ClusterText(slot + 1, spent), FALSE)
        /\ spent' = spent \cup Used(latest') /\ carried' = carried \cup Used(latest')
    BY DEF WriteCluster
  <1>2. spent = carried
    BY <1>1 DEF BandsLast
  <1>3. slot \in 0 .. 8 /\ count \in Nat
    BY <1>1, ClusterIsShared DEF GeneratorInv
  <1>4. latest'.text \in ClusterText(slot + 1, carried)
    BY <1>1, <1>2 DEF Write
  <1>5. ASSUME h = "NONE" PROVE latest'.text = NoText
    BY <1>4, <1>5 DEF ClusterText
  <1>6. ASSUME h # "NONE"
        PROVE  /\ h \in Bands
               /\ \E n \in Templates["NOTE"][h] \ carried : latest'.text.note = {n}
               /\ latest'.text.letters \in Letters(Without(Templates["EMAIL"][h], carried))
    <2>1. h \in Bands
      BY <1>3, <1>6 DEF ClusterHintPlan, Bands
    <2> DEFINE notes == Templates["NOTE"][h]
    <2>2. latest'.text \in Text({{n} : n \in Without(notes, carried)},
                                 Letters(Without(Templates["EMAIL"][h], carried)))
      BY <1>4, <1>6 DEF ClusterText
    <2>3. ~(notes \subseteq carried)
      <3>1. SUFFICES ASSUME notes \subseteq carried PROVE FALSE
        OBVIOUS
      <3>2. carried \cap notes = notes
        BY <3>1
      <3>3. Cardinality(notes) <= Hits(ClusterHintPlan, h, slot)
        BY <1>1, <2>1, <3>2 DEF BandsLast
      <3>4. Cardinality(notes) >= Hits(ClusterHintPlan, h, 9) /\ Cardinality(notes) \in Nat
        BY <2>1, TemplatesAssumption, FS_CardinalityType DEF Hits
      <3>5. /\ Hits(ClusterHintPlan, h, slot + 1) = Hits(ClusterHintPlan, h, slot) + 1
            /\ Hits(ClusterHintPlan, h, slot) \in Nat
        BY <1>3, HitsGrow
      <3>6. Hits(ClusterHintPlan, h, slot + 1) <= Hits(ClusterHintPlan, h, 9)
        BY <1>3, HitsMonotone
      <3>7. Hits(ClusterHintPlan, h, 9) \in Nat
        BY HitsGrow
      <3> HIDE DEF notes
      <3> QED BY <3>3, <3>4, <3>5, <3>6, <3>7
    <2>4. Without(notes, carried) = notes \ carried
      BY <2>3 DEF Without
    <2>5. latest'.text.note \in {{n} : n \in notes \ carried}
      BY <2>2, <2>4 DEF Text
    <2>6. latest'.text.letters \in Letters(Without(Templates["EMAIL"][h], carried))
      BY <2>2 DEF Text
    <2> QED BY <2>1, <2>5, <2>6
  <1> QED BY <1>1, <1>2, <1>3, <1>5, <1>6

\* A record of the cluster takes one note, of its own band.
LEMMA ClusterKeepsBands == GeneratorInv /\ BandsLast /\ WriteCluster => BandsLast'
  <1> SUFFICES ASSUME GeneratorInv, BandsLast, WriteCluster PROVE BandsLast'
    OBVIOUS
  <1> DEFINE h == ClusterHintPlan[slot + 1]
             text == latest'.text
  <1>1. /\ slot \in 0 .. 8 /\ slot' = slot + 1 /\ count' = count
        /\ carried' = carried \cup Used(latest') /\ spent' = carried'
        /\ h = "NONE" => text = NoText
        /\ h # "NONE" =>
              /\ h \in Bands
              /\ \E n \in Templates["NOTE"][h] \ carried : text.note = {n}
              /\ text.letters \in Letters(Without(Templates["EMAIL"][h], carried))
    BY ClusterRecord
  <1>2. Used(latest') = text.note \cup Range(text.letters)
    BY DEF Used
  <1>3. \A g \in Bands : /\ IsFiniteSet(carried \cap Templates["NOTE"][g])
                         /\ Cardinality(carried \cap Templates["NOTE"][g])
                                <= Hits(ClusterHintPlan, g, slot)
    BY DEF BandsLast, WriteCluster
  <1> HIDE DEF text
  <1>4. ASSUME NEW g \in Bands
        PROVE  /\ IsFiniteSet(carried' \cap Templates["NOTE"][g])
               /\ Cardinality(carried' \cap Templates["NOTE"][g])
                      <= Hits(ClusterHintPlan, g, slot + 1)
    <2> DEFINE notes == Templates["NOTE"][g]
    <2>1. /\ Hits(ClusterHintPlan, g, slot + 1)
                = Hits(ClusterHintPlan, g, slot) + IF h = g THEN 1 ELSE 0
          /\ Hits(ClusterHintPlan, g, slot) \in Nat
      BY <1>1, HitsGrow
    <2>2. IsFiniteSet(carried \cap notes) /\ Cardinality(carried \cap notes) \in Nat
      BY <1>3, FS_CardinalityType
    <2>3. CASE h = "NONE"
      <3>1. text.note = {} /\ Range(text.letters) = {}
        BY <1>1, <2>3 DEF NoText, Range
      <3>2. carried' \cap notes = carried \cap notes
        BY <1>1, <1>2, <3>1
      <3>3. h # g
        BY <2>3 DEF Bands
      <3> QED BY <1>3, <2>1, <2>2, <3>2, <3>3
    <2>4. CASE h # "NONE"
      <3>1. PICK n \in Templates["NOTE"][h] \ carried : text.note = {n}
        BY <1>1, <2>4
      <3>2. Range(text.letters) \subseteq Templates["EMAIL"][h] /\ h \in Bands
        BY <1>1, <2>4, LettersOfABand
      <3>3. Range(text.letters) \cap notes = {}
        BY <3>2, TemplatesAssumption
      <3>4. CASE g = h
        <4>1. carried' \cap notes = (carried \cap notes) \cup {n} /\ n \notin carried \cap notes
          BY <1>1, <1>2, <3>1, <3>3, <3>4
        <4>2. /\ IsFiniteSet((carried \cap notes) \cup {n})
              /\ Cardinality((carried \cap notes) \cup {n}) = Cardinality(carried \cap notes) + 1
          BY <2>2, <4>1, FS_AddElement
        <4>3. Cardinality(carried \cap notes) <= Hits(ClusterHintPlan, g, slot)
          BY <1>3
        <4> HIDE DEF notes, h
        <4>4. Cardinality(carried' \cap notes) <= Hits(ClusterHintPlan, g, slot + 1)
          BY <2>1, <2>2, <3>4, <4>1, <4>2, <4>3
        <4> QED BY <4>1, <4>2, <4>4 DEF notes
      <3>5. CASE g # h
        <4>1. n \notin notes
          BY <3>1, <3>2, <3>5, TemplatesAssumption
        <4>2. carried' \cap notes = carried \cap notes
          BY <1>1, <1>2, <3>1, <3>3, <4>1
        <4> QED BY <1>3, <2>1, <2>2, <3>5, <4>2
      <3> QED BY <3>4, <3>5
    <2> QED BY <2>3, <2>4
  <1> QED BY <1>1, <1>4 DEF BandsLast

\* No two of the cluster carry one note, and a letter goes out again only when
\* its band has too few left: for any CLUSTER pool with notes enough.
THEOREM ClusterAlwaysRepeatsOnlyWhenSpent == GeneratorSpec => ClusterRepeatsOnlyWhenSpent
  <1>1. GeneratorInit => BandsLast
    <2> SUFFICES ASSUME GeneratorInit, NEW h \in Bands
                 PROVE  /\ spent = carried
                        /\ IsFiniteSet(carried \cap Templates["NOTE"][h])
                        /\ Cardinality(carried \cap Templates["NOTE"][h])
                               <= Hits(ClusterHintPlan, h, slot)
      BY DEF BandsLast, GeneratorInit
    <2>1. spent = {} /\ carried = {} /\ slot = 0
      BY DEF GeneratorInit
    <2>2. carried \cap Templates["NOTE"][h] = {}
      BY <2>1
    <2>3. IsFiniteSet({}) /\ Cardinality({}) = 0 /\ Hits(ClusterHintPlan, h, 0) = 0
      BY FS_EmptySet, HitsGrow
    <2> QED BY <2>1, <2>2, <2>3
  <1>2. GeneratorInv /\ BandsLast /\ [GeneratorNext]_generatorVars => BandsLast'
    <2> SUFFICES ASSUME GeneratorInv, BandsLast, [GeneratorNext]_generatorVars PROVE BandsLast'
      OBVIOUS
    <2>1. CASE WriteCluster
      BY <2>1, ClusterKeepsBands
    <2>2. CASE WriteGeneral
      <3>1. slot' = ClusterSize(count') /\ ClusterSize(count') \in Int
        BY <2>2, ClusterIsShared DEF WriteGeneral, GeneratorInv
      <3> QED BY <3>1 DEF BandsLast
    <2>3. CASE Refuse \/ WriteBatch \/ UNCHANGED generatorVars
      <3>1. UNCHANGED <<slot, count, spent, carried>>
        BY <2>3 DEF Refuse, WriteBatch, generatorVars
      <3> QED BY <3>1 DEF BandsLast
    <2> QED BY <2>1, <2>2, <2>3 DEF GeneratorNext
  <1> DEFINE letters == latest'.text.letters
             band == IF letters = << >> THEN {} ELSE Templates["EMAIL"][ClusterHintPlan[slot']]
             Repeats == slot' # slot =>
                /\ latest'.text.note \cap carried = {}
                /\ Cardinality(Range(letters) \ carried) < Len(letters)
                      => Cardinality(band \ carried) < Len(letters)
  <1>3. GeneratorInv /\ BandsLast /\ [GeneratorNext]_generatorVars => Repeats
    <2> SUFFICES ASSUME GeneratorInv, BandsLast, [GeneratorNext]_generatorVars, slot' # slot
                 PROVE  /\ latest'.text.note \cap carried = {}
                        /\ Cardinality(Range(letters) \ carried) < Len(letters)
                              => Cardinality(band \ carried) < Len(letters)
      OBVIOUS
    <2>1. WriteCluster
      BY DEF GeneratorNext, Refuse, WriteGeneral, WriteBatch, generatorVars
    <2> DEFINE h == ClusterHintPlan[slot + 1]
    <2>2. /\ slot' = slot + 1
          /\ h = "NONE" => latest'.text = NoText
          /\ h # "NONE" =>
                /\ \E n \in Templates["NOTE"][h] \ carried : latest'.text.note = {n}
                /\ letters \in Letters(Without(Templates["EMAIL"][h], carried))
      BY <2>1, ClusterRecord
    <2>3. CASE h = "NONE"
      <3>1. latest'.text.note = {} /\ letters = << >>
        BY <2>2, <2>3 DEF NoText
      <3>2. Len(letters) = 0 /\ Range(letters) \ carried = {}
        BY <3>1 DEF Range
      <3> QED BY <3>1, <3>2, FS_EmptySet
    <2>4. CASE h # "NONE"
      <3>1. latest'.text.note \cap carried = {}
        BY <2>2, <2>4
      <3>2. letters # << >>
        BY <2>2, <2>4, LettersAreSent
      <3>3. band = Templates["EMAIL"][h]
        BY <2>2, <3>2
      <3> HIDE DEF band
      <3>4. Cardinality(Range(letters) \ carried) < Len(letters)
              => Cardinality(band \ carried) < Len(letters)
        BY <2>2, <2>4, <3>3, LettersOfABand
      <3> QED BY <3>1, <3>4 DEF band
    <2> QED BY <2>3, <2>4
  <1>4. GeneratorSpec => [][Repeats]_generatorVars
    BY <1>1, <1>2, <1>3, GeneratorInvariant, PTL DEF GeneratorSpec
  <1> QED BY <1>4 DEF ClusterRepeatsOnlyWhenSpent
=============================================================================
