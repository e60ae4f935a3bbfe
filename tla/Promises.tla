------------------------------ MODULE Promises ------------------------------
(***************************************************************************)
(* recoup.ledger.clock.resolve_promise_phrase: the payer's words and the    *)
(* tick they are read on become a deadline, or none.                        *)
(*                                                                         *)
(* A phrase is what its text names, the readings the patterns would find in *)
(* it: "in the next payment run, on the 25th" names an ordinal day, "within *)
(* 7 working days, by Friday" a number of days and a weekday.  A day is a   *)
(* virtual date, days since 6 April 2026; the calendar is the Gregorian     *)
(* one, by months counted from April 2026.                                  *)
(***************************************************************************)
EXTENDS Clock, Sequences

NoDay == -1
NoDeadline == -1
Weekdays == 0 .. 6
Friday == 4
Sunday == 6

-----------------------------------------------------------------------------
(* The calendar.                                                            *)

\* Month m after April 2026: its number, 1 .. 12, and its year.
MonthNumber(m) == ((m + 3) % 12) + 1
YearOf(m) == 2026 + (m + 3) \div 12
Leap(y) == y % 4 = 0 /\ (y % 100 # 0 \/ y % 400 = 0)

\* calendar.monthrange
MonthLength(m) ==
    CASE MonthNumber(m) = 2 -> IF Leap(YearOf(m)) THEN 29 ELSE 28
      [] MonthNumber(m) \in {4, 6, 9, 11} -> 30
      [] OTHER -> 31

\* The days of a common year before each of its months, and the leap days of
\* the years up to y.
DaysBefore == <<0, 31, 59, 90, 120, 151, 181, 212, 243, 273, 304, 334>>
LeapDays(y) == y \div 4 - y \div 100 + y \div 400

\* The first day of month m.  The sixth of April 2026 is the epoch.
MonthStart(m) ==
    LET y == YearOf(m)
        n == MonthNumber(m)
    IN  365 * (y - 2026) + LeapDays(y - 1) - LeapDays(2025)
        + DaysBefore[n] + (IF n > 2 /\ Leap(y) THEN 1 ELSE 0)
        - (DaysBefore[4] + EpochDayOfMonth - 1)

\* The month of a day on or after the epoch: no month is shorter than 28 days.
MonthOf(day) == CHOOSE m \in 0 .. day \div 28 + 1 :
                    MonthStart(m) <= day /\ day < MonthStart(m + 1)
DayOfMonth(day) == day - MonthStart(MonthOf(day)) + 1
DateOf(m, dayOfMonth) == MonthStart(m) + dayOfMonth - 1

\* _end_of_month
EndOfMonth(day) == DateOf(MonthOf(day), MonthLength(MonthOf(day)))

-----------------------------------------------------------------------------
(* The helpers.                                                             *)

\* Mutant: the weekday of this calendar week, come or gone.
WeekdayOfThisWeek(day, target) == day + target - Weekday(day)

\* _next_weekday, and with allow_today.
NextWeekday(day, target) == day + 1 + ((target - Weekday(day) - 1) % 7)
WeekdayFrom(day, target) == day + ((target - Weekday(day)) % 7)

SundayOfNextWeek(day) == NextWeekday(day, Sunday) + 7

\* Mutant: a day the month does not have runs into the month after.
NextDayOfMonthUnchecked(day, n) ==
    LET m == IF n > DayOfMonth(day) THEN MonthOf(day) ELSE MonthOf(day) + 1
    IN  DateOf(m, n)

\* _next_day_of_month: this month's when it is still to come, or else the
\* next month's, or none when that month has no such day.
NextDayOfMonth(day, n) ==
    LET m == IF n > DayOfMonth(day) THEN MonthOf(day) ELSE MonthOf(day) + 1
    IN  IF n \in 1 .. MonthLength(m) THEN DateOf(m, n) ELSE NoDay

-----------------------------------------------------------------------------
(* What a phrase names.                                                     *)

\* A reading: what kind of time is named, and the number or weekday in it.
Names(kind, n) == [kind |-> kind, n |-> n]

\* The order in which the patterns are tried.
Order == <<"tomorrow", "month end", "in days", "in weeks", "fortnight", "weekend",
           "weekday", "next week", "this week", "ordinal">>

\* The patterns take numbers of two digits; of a weekday, 0 is Monday.
Readings == {r \in [kind: {Order[k] : k \in DOMAIN Order}, n: 0 .. 99] :
                r.kind = "weekday" => r.n \in Weekdays}

Rank(kind) == CHOOSE k \in DOMAIN Order : Order[k] = kind

\* Of several readings the first pattern wins, and of several weekdays the
\* earliest in the week; a phrase has one reading of any other kind, the first
\* in the text.
FirstReading(phrase) ==
    CHOOSE r \in phrase : \A q \in phrase :
        Rank(r.kind) < Rank(q.kind) \/ (Rank(r.kind) = Rank(q.kind) /\ r.n <= q.n)

DayNamed(r, today) ==
    CASE r.kind = "tomorrow" -> today + 1
      [] r.kind = "month end" -> EndOfMonth(today)
      [] r.kind = "in days" -> today + r.n
      [] r.kind = "in weeks" -> today + 7 * r.n
      [] r.kind = "fortnight" -> today + 14
      [] r.kind = "weekend" -> WeekdayFrom(today, Friday)
      [] r.kind = "weekday" -> NextWeekday(today, r.n)
      [] r.kind = "next week" -> SundayOfNextWeek(today)
      [] r.kind = "this week" -> WeekdayFrom(today, Sunday)
      [] r.kind = "ordinal" -> NextDayOfMonth(today, r.n)

\* resolve_promise_phrase: a phrase that names nothing has no deadline.
Deadline(phrase, t) ==
    IF phrase = {} THEN NoDeadline
    ELSE LET day == DayNamed(FirstReading(phrase), VirtualDate(t))
         IN  IF day = NoDay THEN NoDeadline ELSE LastTickOn(day)
=============================================================================
