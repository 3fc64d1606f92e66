--------------------------------- MODULE Cron ---------------------------------
(***************************************************************************)
(* The cron calendar of the plan scheduler (cron.ts), in minutes since     *)
(* some midnight, UTC.  The lengths of hours, days, weeks and months are   *)
(* parameters, so that a small calendar has every kind of boundary.        *)
(***************************************************************************)
EXTENDS Integers, Sequences

CONSTANTS
  MinutesPerHour, HoursPerDay, DaysPerWeek, MonthsPerYear,
  MonthLengths,   \* days of month 1, 2, ... of as many years as are looked at
  SearchDays      \* how far a next run is looked for: 4 * 366 days

ASSUME CronAssumptions ==
  /\ {MinutesPerHour, HoursPerDay, DaysPerWeek, MonthsPerYear, SearchDays} \subseteq Nat \ {0}
  /\ MonthLengths \in Seq(Nat \ {0})

Never == -1

(* parseField: the values of the pieces of a field, each a range with a    *)
(* step; a star is the whole range, a literal a range of one.              *)
FieldValues(pieces) ==
  UNION {{v \in p.first..p.last : (v - p.first) % p.step = 0} : p \in pieces}

MinutesPerDay == MinutesPerHour * HoursPerDay

Day(t) == t \div MinutesPerDay

MonthStart[m \in 1..Len(MonthLengths) + 1] ==
  IF m = 1 THEN 0 ELSE MonthStart[m - 1] + MonthLengths[m - 1]

MonthIndex(t) ==
  CHOOSE m \in DOMAIN MonthLengths :
    MonthStart[m] <= Day(t) /\ Day(t) < MonthStart[m + 1]

(* The fields of a date.                                                   *)
Minute(t) == t % MinutesPerHour
Hour(t) == (t \div MinutesPerHour) % HoursPerDay
DayOfMonth(t) == Day(t) - MonthStart[MonthIndex(t)] + 1
Month(t) == ((MonthIndex(t) - 1) % MonthsPerYear) + 1
DayOfWeek(t) == Day(t) % DaysPerWeek

OnDay(t, cron) == DayOfMonth(t) \in cron.dayOfMonth /\ DayOfWeek(t) \in cron.dayOfWeek

Matches(t, cron) ==
  /\ Minute(t) \in cron.minute /\ Hour(t) \in cron.hour
  /\ OnDay(t, cron) /\ Month(t) \in cron.month

NextMonth(t) == MonthStart[MonthIndex(t) + 1] * MinutesPerDay
NextDay(t) == (Day(t) + 1) * MinutesPerDay
NextHour(t) == (t \div MinutesPerHour + 1) * MinutesPerHour

(* The next candidate after t, which does not match.                       *)
Later(t, cron) ==
  IF Month(t) \notin cron.month THEN NextMonth(t)
  ELSE IF ~OnDay(t, cron) THEN NextDay(t)
  ELSE IF Hour(t) \notin cron.hour THEN NextHour(t)
  ELSE t + 1

(* nextRunAfter: candidate by candidate from the next minute on.           *)
NextRunAfter(cron, from) ==
  LET end == from + SearchDays * MinutesPerDay
      Search[t \in Nat] ==
        IF t >= end THEN Never
        ELSE IF Matches(t, cron) THEN t ELSE Search[Later(t, cron)]
  IN Search[from + 1]

(* What it promises: "the next run time in UTC after from", or Never.      *)
FirstMatchAfter(cron, from) ==
  LET runs == {t \in from + 1..from + SearchDays * MinutesPerDay - 1 : Matches(t, cron)}
  IN IF runs = {} THEN Never ELSE CHOOSE t \in runs : \A u \in runs : t <= u
===============================================================================
