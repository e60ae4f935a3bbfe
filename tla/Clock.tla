------------------------------- MODULE Clock --------------------------------
(***************************************************************************)
(* recoup.ledger.clock: virtual time.  A tick is six hours; tick 0 is 08:00 *)
(* on Monday 6 April 2026, so the ticks of a day fall at 02:00, 08:00,      *)
(* 14:00 and 20:00 and the grid is offset from midnight.  A virtual date is *)
(* the number of days since the epoch.                                      *)
(***************************************************************************)
EXTENDS Integers

HoursPerTick == 6
TicksPerDay == 24 \div HoursPerTick
EpochHour == 8
EpochDayOfMonth == 6      \* 2026-04-06, a Monday

HoursSinceEpoch(t) == EpochHour + HoursPerTick * t
VirtualDate(t) == HoursSinceEpoch(t) \div 24
HourOfDay(t) == HoursSinceEpoch(t) % 24
TicksForDays(d) == d * TicksPerDay

Weekday(day) == day % 7   \* Monday is 0

LastTickOn(day) == TicksPerDay * day + 2
=============================================================================
