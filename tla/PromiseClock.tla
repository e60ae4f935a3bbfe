---------------------------- MODULE PromiseClock ----------------------------
(***************************************************************************)
(* A payer's phrase over time: the payer says the same words, perhaps more  *)
(* than once, and the ledger keeps the deadline the last one resolved to    *)
(* (Ledger.set_promise on what resolve_promise_phrase returns).             *)
(***************************************************************************)
EXTENDS Promises

CONSTANTS
    SomePhrases, \* what may be said, sets of readings (a bound)
    Starts,      \* the ticks a walk may start at
    Window       \* its length in ticks (a bound)

ASSUME PromiseClockAssumption ==
    /\ SomePhrases \subseteq SUBSET Readings
    /\ Starts \subseteq Nat /\ Window \in Nat

VARIABLES
    start,    \* where the walk began
    now,      \* the clock
    phrase,   \* what the payer says
    said,     \* when it was said last, NoDeadline if never
    due       \* promise_due_tick

promiseVars == <<start, now, phrase, said, due>>

PromiseInit ==
    /\ start \in Starts /\ now = start
    /\ phrase \in SomePhrases
    /\ said = NoDeadline /\ due = NoDeadline

\* A response that promises: set_promise overwrites what stood there.
SayAgain ==
    /\ said' = now
    /\ due' = Deadline(phrase, now)
    /\ UNCHANGED <<start, now, phrase>>

Tick ==
    /\ now < start + Window
    /\ now' = now + 1
    /\ UNCHANGED <<start, phrase, said, due>>

PromiseSpec == PromiseInit /\ [][SayAgain \/ Tick]_promiseVars

-----------------------------------------------------------------------------
(* Properties.                                                              *)

Reading == FirstReading(phrase)
Kept == said # NoDeadline /\ due # NoDeadline

(* A deadline is never before the words that set it, and gives the payer    *)
(* the whole of its day: it is the 20:00 tick (test_resolvable_promises_    *)
(* land_in_the_future, test_a_deadline_resolves_to_the_end_of_its_day; what *)
(* Runner assumes of its table Resolve).                                    *)
DeadlineIsAhead == Kept => due >= said /\ HourOfDay(due) = 20

\* The days that fit the words, whatever the code computes.
Fits(r, day) ==
    CASE r.kind = "weekday" -> Weekday(day) = r.n
      [] r.kind = "weekend" -> Weekday(day) = Friday
      [] r.kind \in {"this week", "next week"} -> Weekday(day) = Sunday
      [] r.kind = "month end" -> DayOfMonth(day + 1) = 1
      [] r.kind = "ordinal" -> DayOfMonth(day) = r.n
Absolute == {"weekday", "weekend", "this week", "next week", "month end", "ordinal"}
FromToday == {"weekend", "this week", "month end"}

(* "by Friday" means the coming Friday: a phrase that names a day resolves  *)
(* to the first day that fits it, today included only for the ends of the   *)
(* week and of the month; "next week" ends on the first Sunday more than a  *)
(* week ahead.                                                              *)
NearestFit ==
    (Kept /\ Reading.kind \in Absolute) =>
        LET today == VirtualDate(said)
            first == CASE Reading.kind \in FromToday -> today
                       [] Reading.kind = "next week" -> today + 8
                       [] OTHER -> today + 1
        IN  /\ Fits(Reading, VirtualDate(due))
            /\ \A day \in first .. VirtualDate(due) - 1 : ~Fits(Reading, day)
=============================================================================
