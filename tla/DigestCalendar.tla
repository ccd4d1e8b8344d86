--------------------------- MODULE DigestCalendar ---------------------------
(***************************************************************************)
(* When a digest schedule is due: the six _is_*_due tests of               *)
(* digest_scheduler.py over a clock that counts slots of an hour. Slot 0   *)
(* is a Monday at 00:00 UTC.                                               *)
(***************************************************************************)
EXTENDS DigestSchedules

CONSTANT SlotsPerHour   \* resolution of the clock: 12 is the five-minute check

ASSUME CalendarAssumption == SlotsPerHour \in Nat \ {0}

Never == -1     \* last_run has no such key

Hours(n)   == n * SlotsPerHour
HourNo(t)  == t \div SlotsPerHour
Hour(t)    == HourNo(t) % 24
Day(t)     == HourNo(t) \div 24
Weekday(t) == Day(t) % 7

\* now.minute < 5
FirstMinutes(t) == (t % SlotsPerHour) * 60 < 5 * SlotsPerHour

\* _get_schedule_window_hours: the hours of messages a digest looks back on,
\* which is also the time between two runs.
WindowHours(s) ==
    CASE s = "hourly"    -> 1
      [] s = "every_4h"  -> 4
      [] s = "every_6h"  -> 6
      [] s = "every_12h" -> 12
      [] s = "daily"     -> 24
      [] s = "weekly"    -> 168

\* A run at t and a run at u would serve the same slot of the schedule: the
\* same clock hour, the same block of hours, the same date.
SamePeriod(s, t, u) ==
    IF s = "weekly" THEN Day(t) - Day(u) \in -6..6
    ELSE HourNo(t) \div WindowHours(s) = HourNo(u) \div WindowHours(s)

HourlyDue(last, now) ==
    IF last = Never THEN FirstMinutes(now) ELSE now - last >= Hours(1)

\* every_4h, every_6h and every_12h differ in the hours of the day only.
EveryDue(n, last, now) ==
    /\ Hour(now) % n = 0
    /\ IF last = Never THEN FirstMinutes(now)
       ELSE now - last >= Hours(n) \/ Hour(now) # Hour(last)

DailyDue(last, now) ==
    IF last = Never THEN Hour(now) = DailyHour /\ FirstMinutes(now)
    ELSE \/ now - last >= Hours(24)
         \/ Day(now) > Day(last) /\ Hour(now) = DailyHour

\* Mutants of WeeklyDue: a new calendar week is enough, or the configured day
\* is always required.
WeeklyDueNewWeek(last, now) ==
    IF last = Never
    THEN Weekday(now) = WeeklyDay /\ Hour(now) = WeeklyHour /\ FirstMinutes(now)
    ELSE Day(now) \div 7 > Day(last) \div 7
WeeklyDueOnTheDay(last, now) ==
    /\ last = Never => FirstMinutes(now)
    /\ last # Never => Day(now) - Day(last) >= 7
    /\ Weekday(now) = WeeklyDay /\ Hour(now) = WeeklyHour

\* The second disjunct of the code repeats the first with the configured day
\* and hour added, and adds nothing to it.
WeeklyDue(last, now) ==
    IF last = Never
    THEN Weekday(now) = WeeklyDay /\ Hour(now) = WeeklyHour /\ FirstMinutes(now)
    ELSE \/ Day(now) - Day(last) >= 7
         \/ /\ Day(now) - Day(last) >= 7
            /\ Weekday(now) = WeeklyDay
            /\ Hour(now) = WeeklyHour

Due(s, last, now) ==
    CASE s = "hourly" -> HourlyDue(last, now)
      [] s \in {"every_4h", "every_6h", "every_12h"}
                      -> EveryDue(WindowHours(s), last, now)
      [] s = "daily"  -> DailyDue(last, now)
      [] s = "weekly" -> WeeklyDue(last, now)

=============================================================================
