---------------------------- MODULE MCPromiseClock ----------------------------
(* Phrases and windows for TLC: the run's own 112 ticks, the turn of a year  *)
(* and a leap February.                                                      *)
EXTENDS PromiseClock

One(kind, n) == {Names(kind, n)}
MCPhrases ==
    {One(kind, 0) : kind \in {"tomorrow", "month end", "fortnight", "weekend", "next week", "this week"}}
    \cup {One("weekday", n) : n \in Weekdays}
    \cup {One("ordinal", n) : n \in {0, 1, 15, 29, 30, 31, 32}}
    \cup {One("in days", 0), One("in days", 7), One("in weeks", 3)}
    \cup {{Names("weekday", Friday), Names("in days", 2)},
          {Names("ordinal", 25), Names("weekday", 1)},
          {Names("next week", 0), Names("weekday", 2), Names("weekday", 5)}, {}}

\* Tick 0; 22 December 2026; 20 February 2028.
MCStarts == {0, TicksForDays(260), TicksForDays(685)}
=============================================================================
