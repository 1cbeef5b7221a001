------------------------------ MODULE PeriodWalks ------------------------------
(***************************************************************************)
(* The two loops over the periods of ApprovalPeriods.  buildCascadePlan    *)
(* steps from the period before the one that is submitted to the one of    *)
(* the earliest entry and stops at a rejected row; enumeratePeriodAnchors  *)
(* steps from today to the start of the look-back and collects the periods *)
(* that "My submissions" shows.  One step is one turn of the loop.         *)
(*                                                                         *)
(* A member without entries is not blocked (the first loop does not run):  *)
(* that case is left out.                                                  *)
(***************************************************************************)
EXTENDS ApprovalPeriods

VARIABLES
    ask,      \* the walk, its setting and its bounds
    cursor,   \* the instant the loop is at
    steps,    \* turns of the loop so far
    seen,     \* starts of the periods it has seen
    outcome   \* how it ended

vars == <<ask, cursor, steps, seen, outcome>>

-----------------------------------------------------------------------------
Setting == [zone: Zones, grain: {"daily", "weekly", "monthly"},
            weekStart: {"monday", "sunday"}]
Ask     == [walk: {"cascade", "list"}, setting: Setting, target: Targets,
            earliest: Targets, rejected: SUBSET Int]

Start(t) == getPeriodRange(t, ask.setting).start

\* Mutant: the walk goes on one day before the period.
CascadeNextDay ==
    /\ ask.walk = "cascade" /\ outcome = "walking" /\ steps < MaxSteps
    /\ LET start == Start(cursor) IN
       /\ start < Start(ask.target) /\ start \notin seen /\ start \notin ask.rejected
       /\ steps' = steps + 1
       /\ seen' = seen \cup {start}
       /\ cursor' = start - Day
       /\ outcome' = IF start <= Start(ask.earliest) THEN "clear" ELSE "walking"
    /\ UNCHANGED ask

\* The period is in order and the walk goes on to the one before it.
CascadeNext ==
    /\ ask.walk = "cascade" /\ outcome = "walking" /\ steps < MaxSteps
    /\ LET start == Start(cursor) IN
       /\ start < Start(ask.target) /\ start \notin seen /\ start \notin ask.rejected
       /\ steps' = steps + 1
       /\ seen' = seen \cup {start}
       /\ cursor' = start - Tick
       /\ outcome' = IF start <= Start(ask.earliest) THEN "clear" ELSE "walking"
    /\ UNCHANGED ask

\* It was rejected, and blocks the submission.
CascadeBlocked ==
    /\ ask.walk = "cascade" /\ outcome = "walking" /\ steps < MaxSteps
    /\ LET start == Start(cursor) IN
       /\ start < Start(ask.target) /\ start \notin seen /\ start \in ask.rejected
       /\ seen' = seen \cup {start}
    /\ outcome' = "blocked"
    /\ UNCHANGED <<ask, cursor, steps>>

-----------------------------------------------------------------------------
\* Mutant: a month has thirty days.
StepBackThirty(t, grain) ==
    CASE grain = "daily"   -> t - Day
      [] grain = "monthly" -> t - 30 * Day
      [] OTHER             -> t - 7 * Day

\* setUTCDate and setUTCMonth: the same day of the month before, or as many
\* days after its end.
StepBack(t, grain) ==
    LET m == MonthStart(t \div Day) IN
    CASE grain = "daily"   -> t - Day
      [] grain = "monthly" -> t - (m - MonthStart(m - 1)) * Day
      [] OTHER             -> t - 7 * Day

\* Mutant: the bound of the loop is gone.
ListUnbounded ==
    /\ ask.walk = "list" /\ outcome = "walking"
    /\ Start(cursor) >= ask.earliest
    /\ steps' = steps + 1
    /\ seen' = seen \cup {Start(cursor)}
    /\ cursor' = StepBack(cursor, ask.setting.grain)
    /\ UNCHANGED <<ask, outcome>>

ListNext ==
    /\ ask.walk = "list" /\ outcome = "walking" /\ steps < MaxSteps
    /\ Start(cursor) >= ask.earliest
    /\ steps' = steps + 1
    /\ seen' = seen \cup {Start(cursor)}
    /\ cursor' = StepBack(cursor, ask.setting.grain)
    /\ UNCHANGED <<ask, outcome>>

ListEnds ==
    /\ ask.walk = "list" /\ outcome = "walking" /\ steps < MaxSteps
    /\ Start(cursor) < ask.earliest
    /\ outcome' = "clear"
    /\ UNCHANGED <<ask, cursor, steps, seen>>

-----------------------------------------------------------------------------
\* The bound of either loop; in the cascade also a period seen before, or one
\* that is not before the target.
GivesUp ==
    /\ outcome = "walking"
    /\ \/ steps = MaxSteps
       \/ ask.walk = "cascade" /\ (Start(cursor) >= Start(ask.target) \/ Start(cursor) \in seen)
    /\ outcome' = "stopped"
    /\ UNCHANGED <<ask, cursor, steps, seen>>

\* The row of a rejected period has the start its period has.
Init ==
    /\ \E walk \in {"cascade", "list"}, setting \in Setting, t, e \in Targets :
       \E rejected \in {{}} \cup {{getPeriodRange(u, setting).start} : u \in Targets} :
          /\ walk = "list" => rejected = {}
          /\ ask = [walk |-> walk, setting |-> setting, target |-> t, earliest |-> e,
                    rejected |-> rejected]
    /\ cursor = IF ask.walk = "cascade" THEN Start(ask.target) - Tick ELSE ask.target
    /\ steps = 0
    /\ seen = {}
    /\ outcome = "walking"

Next == CascadeNext \/ CascadeBlocked \/ ListNext \/ ListEnds \/ GivesUp

Spec == Init /\ [][Next]_vars
-----------------------------------------------------------------------------
\* No local midnight, by either offset, lies between the change of the offset
\* and the midnights of UTC on its two sides.  Kolkata, New York and Berlin
\* are calm; Sydney, Auckland and Cairo are not.
Calm(z) ==
    \/ z.from = z.to
    \/ LET d == (z.at - 1) \div Day IN
       \A offset \in {z.from, z.to} :
          d * Day - offset <= z.at /\ z.at <= (d + 1) * Day - offset

\* The local day, week or month of an instant, by the calendar alone.
CalendarUnit(t, setting) ==
    LET d == LocalDay(setting.zone, t) IN
    CASE setting.grain = "daily"   -> d
      [] setting.grain = "monthly" -> MonthStart(d)
      [] OTHER -> (IF setting.weekStart = "sunday" THEN d + 4 ELSE d + 3) \div 7

\* The range of an instant holds the instant and is its whole day, week or
\* month: it begins and ends where the unit does.
RangeIsUnit(t, setting) ==
    LET range == getPeriodRange(t, setting)
        unit(u) == CalendarUnit(u, setting) IN
    /\ range.start <= t /\ t <= range.end
    /\ unit(range.start) = unit(t) /\ unit(range.end) = unit(t)
    /\ unit(range.start - Tick) # unit(t) /\ unit(range.end + Tick) # unit(t)

-----------------------------------------------------------------------------
\* The walks have their types and stay within the bound of their loop.
TypeOK ==
    /\ ask \in Ask
    /\ cursor \in Int
    /\ steps \in 0 .. MaxSteps
    /\ seen \subseteq Int
    /\ outcome \in {"walking", "clear", "blocked", "stopped"}

\* In a calm zone the period of an instant is the local day, week or month,
\* so that two entries of one are locked by one row, on both sides of a
\* change of the clocks.
PeriodIsUnit == Calm(ask.setting.zone) => RangeIsUnit(cursor, ask.setting)

\* A submission that is not blocked leaves no rejected period behind it that
\* is as late as the earliest entry, unless the loop reached its bound.
ClearMeansNone ==
    ask.walk = "cascade" /\ outcome \in {"clear", "stopped"} /\ steps < MaxSteps
        /\ Calm(ask.setting.zone) =>
        \A r \in ask.rejected : Start(ask.earliest) <= r => Start(ask.target) <= r

\* Every period of the window up to the target that some instant is in.
WindowSeen ==
    \A t \in Targets :
        t <= ask.target /\ ask.earliest <= Start(t) => Start(t) \in seen

\* The steps back, which are days and months of UTC, are no longer than the
\* local periods: no clock loses an hour, and for months no local date is
\* ahead of the date of UTC.
StepsFit(setting) ==
    /\ Calm(setting.zone)
    /\ setting.zone.to <= setting.zone.from
    /\ setting.grain = "monthly" => setting.zone.from <= 0

\* "My submissions" looks at every period of the look-back, also across the
\* ends of months and the hour a day may have gained, where the steps fit.
\* (Where a clock has lost an hour, a step of 24 hours from the first hour of
\* a day passes over the day before; AnchorsCoverWindow is about the months.)
ListedAll ==
    ask.walk = "list" /\ outcome = "clear" /\ StepsFit(ask.setting) => WindowSeen

-----------------------------------------------------------------------------
\* docs/specs/submissions.md:47 "Period boundaries follow workspace timezone
\* [...] and week starts on setting": by noon of its first day, a week has
\* begun on the day that the setting names.
WeekStartsOn ==
    LET setting == ask.setting
        noon    == Start(cursor) + Day \div 2 IN
    setting.grain = "weekly" =>
        Weekday(LocalDay(setting.zone, noon)) = IF setting.weekStart = "sunday" THEN 0 ELSE 1

\* timesheet-approval-policy.util.ts:47 "yielding anchor dates whose period
\* ranges cover the lookback window".  East of UTC the first hours of a month
\* are on the last date of the month before: the step back from them is as
\* long as that month's predecessor, and may pass over the whole of it.
AnchorsCoverWindow ==
    ask.walk = "list" /\ outcome = "clear" => WindowSeen
=============================================================================
