---------------------------- MODULE ApprovalPeriods ----------------------------
(***************************************************************************)
(* getPeriodRange: the day, week or month of the workspace's time zone     *)
(* that an instant belongs to, on which every timesheet row, the lock of   *)
(* time entries and the reminders rest; and the two walks back over those  *)
(* periods, the one of a submission that looks for a rejected period and   *)
(* the one that lists a member's submissions.                              *)
(*                                                                         *)
(* An instant is a number of quarters of an hour since the epoch, in UTC;  *)
(* a calendar date is a number of days.  The end of a period is one tick   *)
(* before the next one (one millisecond in the code).                      *)
(***************************************************************************)
EXTENDS Integers, FiniteSets

CONSTANTS
    Zones,         \* time zones, each with at most one change of its offset
    MonthStarts,   \* the dates that are the first of a month
    Targets,       \* instants that are submitted for, listed from or looked at
    MaxSteps       \* periods a walk looks at: 520 and 104 in the code

Tick == 1
Day  == 96

\* A zone is "from" ticks ahead of UTC before "at" and "to" ticks after it, and
\* less than a day away from it (12 hours behind to 14 ahead).
ZoneType == [from: Int, to: Int, at: Int]

ASSUME ZonesAssumption ==
    /\ Zones \subseteq ZoneType
    /\ \A z \in Zones : \A offset \in {z.from, z.to} : -Day < offset /\ offset < Day
    /\ \A z \in Zones : z.from - z.to < Day /\ z.to - z.from < Day
ASSUME MonthsAssumption == MonthStarts \subseteq Int
ASSUME TargetsAssumption == Targets \subseteq Int
ASSUME StepsAssumption == MaxSteps \in Nat

-----------------------------------------------------------------------------
getTimezoneOffset(z, t) == IF t < z.at THEN z.from ELSE z.to

\* datePartsInTimezone: the local date of an instant.
LocalDay(z, t) == (t + getTimezoneOffset(z, t)) \div Day

\* The offset is the one of midnight in UTC.
LocalMidnight(z, d) == d * Day - getTimezoneOffset(z, d * Day)

endOfLocalDay(z, d) == LocalMidnight(z, d + 1) - Tick

\* 0 is Sunday; date 0 was a Thursday.
Weekday(d) == (d + 4) % 7

\* The weekday is asked of the instant of midnight.
localWeekday(z, d) == Weekday(LocalDay(z, LocalMidnight(z, d)))

\* Mutant: Sunday is the day before Monday.
MondayAfter(z, d, weekStart) ==
    LET day == localWeekday(z, d) IN
    IF weekStart = "sunday" THEN d - day ELSE d + 1 - day

WeekStart(z, d, weekStart) ==
    LET day == localWeekday(z, d) IN
    IF weekStart = "sunday" THEN d - day ELSE IF day = 0 THEN d - 6 ELSE d + 1 - day

MonthStart(d) == CHOOSE m \in MonthStarts :
    m <= d /\ \A n \in MonthStarts : n <= d => n <= m
NextMonth(d)  == CHOOSE m \in MonthStarts :
    m > d /\ \A n \in MonthStarts : n > d => n >= m

\* The first and the last date of the period of a date.
FirstDay(z, d, setting) ==
    CASE setting.grain = "daily"   -> d
      [] setting.grain = "monthly" -> MonthStart(d)
      [] OTHER                     -> WeekStart(z, d, setting.weekStart)
LastDay(z, d, setting) ==
    CASE setting.grain = "daily"   -> d
      [] setting.grain = "monthly" -> NextMonth(d) - 1
      [] OTHER                     -> WeekStart(z, d, setting.weekStart) + 6

getPeriodRange(t, setting) ==
    LET z == setting.zone
        d == LocalDay(z, t) IN
    [start |-> LocalMidnight(z, FirstDay(z, d, setting)),
     end   |-> endOfLocalDay(z, LastDay(z, d, setting))]
=============================================================================
