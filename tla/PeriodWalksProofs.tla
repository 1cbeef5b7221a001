--------------------------- MODULE PeriodWalksProofs ---------------------------
(***************************************************************************)
(* In every calm time zone the period of an instant is its local day, week *)
(* or month, the walk of a submission misses no rejected period, and the   *)
(* list of submissions no period where its steps fit, for any calendar of  *)
(* months, any instants and any bound of the loops.                        *)
(***************************************************************************)
EXTENDS PeriodWalks, WellFoundedInduction, TLAPS

\* The calendar has a first of a month before and after every date.
Months == \A d \in Int : (\E m \in MonthStarts : m <= d) /\ (\E m \in MonthStarts : m > d)

-----------------------------------------------------------------------------
(* Midnights.                                                              *)

LEMMA ZoneTypes ==
    ASSUME NEW z \in Zones
    PROVE  /\ z.from \in Int /\ z.to \in Int /\ z.at \in Int
           /\ z.from - z.to < Day /\ z.to - z.from < Day
BY ZonesAssumption DEF ZoneType

LEMMA DayOf ==
    ASSUME NEW t \in Int, NEW d \in Int
    PROVE  t \div Day \in Int /\ (t \div Day >= d <=> t >= d * Day)
BY DEF Day

LEMMA MidnightType ==
    ASSUME NEW z \in Zones, NEW d \in Int
    PROVE  LocalMidnight(z, d) \in Int
BY ZoneTypes DEF LocalMidnight, getTimezoneOffset, Day

LEMMA DayType ==
    ASSUME NEW z \in Zones, NEW t \in Int
    PROVE  LocalDay(z, t) \in Int
BY ZoneTypes DEF LocalDay, getTimezoneOffset, Day

\* Later dates have later midnights.
LEMMA LaterMidnight ==
    ASSUME NEW z \in Zones, NEW c \in Int, NEW d \in Int, c < d
    PROVE  LocalMidnight(z, c) < LocalMidnight(z, d)
<1>1. d * Day - c * Day >= Day
  BY DEF Day
<1> QED
  BY <1>1, ZoneTypes DEF LocalMidnight, getTimezoneOffset, Day

\* In a calm zone an instant has reached a local date when it has reached the
\* instant that the code takes for the midnight of that date.
LEMMA Midnight ==
    ASSUME NEW z \in Zones, Calm(z), NEW d \in Int, NEW t \in Int
    PROVE  LocalDay(z, t) >= d <=> t >= LocalMidnight(z, d)
<1>1. LocalDay(z, t) >= d <=> t + getTimezoneOffset(z, t) >= d * Day
  BY DayOf, ZoneTypes DEF LocalDay, getTimezoneOffset
<1>2. CASE z.from = z.to
  BY <1>1, <1>2, ZoneTypes DEF LocalMidnight, getTimezoneOffset, Day
<1>3. CASE z.from # z.to
  <2> DEFINE c == (z.at - 1) \div Day
  <2>1. c \in Int /\ c * Day < z.at /\ z.at <= (c + 1) * Day
    BY ZoneTypes DEF Day
  <2>2. \A offset \in {z.from, z.to} :
           c * Day - offset <= z.at /\ z.at <= (c + 1) * Day - offset
    BY <1>3 DEF Calm
  <2>3. CASE d <= c
    <3>1. d * Day <= c * Day
      BY <2>1, <2>3 DEF Day
    <3>2. LocalMidnight(z, d) = d * Day - z.from
      BY <2>1, <3>1, ZoneTypes DEF LocalMidnight, getTimezoneOffset, Day
    <3> QED
      BY <1>1, <2>1, <2>2, <3>1, <3>2, ZoneTypes DEF getTimezoneOffset, Day
  <2>4. CASE d > c
    <3>1. d * Day >= (c + 1) * Day
      BY <2>1, <2>4 DEF Day
    <3>2. LocalMidnight(z, d) = d * Day - z.to
      BY <2>1, <3>1, ZoneTypes DEF LocalMidnight, getTimezoneOffset, Day
    <3> QED
      BY <1>1, <2>1, <2>2, <3>1, <3>2, ZoneTypes DEF getTimezoneOffset, Day
  <2> QED
    BY <2>1, <2>3, <2>4
<1> QED
  BY <1>2, <1>3

\* A date begins at its midnight and ends one tick before the next one.
LEMMA DayBounds ==
    ASSUME NEW z \in Zones, Calm(z), NEW d \in Int
    PROVE  /\ LocalDay(z, LocalMidnight(z, d)) = d
           /\ LocalDay(z, LocalMidnight(z, d) - Tick) = d - 1
<1> DEFINE m == LocalMidnight(z, d)
<1>1. m \in Int /\ m - Tick \in Int
  BY MidnightType DEF Tick
<1>2. LocalDay(z, m) \in Int /\ LocalDay(z, m - Tick) \in Int
  BY <1>1, DayType
<1>3. LocalMidnight(z, d - 1) \in Int /\ LocalMidnight(z, d + 1) \in Int
  BY MidnightType
<1>4. LocalMidnight(z, d - 1) < m /\ m < LocalMidnight(z, d + 1)
  BY LaterMidnight
<1>5. LocalDay(z, m) >= d /\ ~(LocalDay(z, m) >= d + 1)
  BY <1>1, <1>3, <1>4, Midnight
<1>6. LocalDay(z, m - Tick) >= d - 1 /\ ~(LocalDay(z, m - Tick) >= d)
  BY <1>1, <1>3, <1>4, Midnight DEF Tick
<1> QED
  BY <1>2, <1>5, <1>6
-----------------------------------------------------------------------------
(* Weeks and months.                                                       *)

\* The weekday that the code reads from the instant of midnight is the date's.
LEMMA WeekdayOfDate ==
    ASSUME NEW z \in Zones, Calm(z), NEW d \in Int
    PROVE  localWeekday(z, d) = Weekday(d)
BY DayBounds DEF localWeekday

\* The week the code finds is the seven dates that share the week's number.
LEMMA Week ==
    ASSUME NEW z \in Zones, Calm(z), NEW d \in Int, NEW pref \in {"monday", "sunday"}
    PROVE  LET w == WeekStart(z, d, pref)
               number(e) == (IF pref = "sunday" THEN e + 4 ELSE e + 3) \div 7 IN
           /\ w \in Int /\ w <= d /\ d <= w + 6
           /\ number(w) = number(d) /\ number(w + 6) = number(d)
           /\ number(w - 1) # number(d) /\ number(w + 7) # number(d)
<1> DEFINE k == IF pref = "sunday" THEN 4 ELSE 3
           q == (d + k) \div 7
           w == WeekStart(z, d, pref)
<1>1. q \in Int /\ 7 * q <= d + k /\ d + k <= 7 * q + 6
  OBVIOUS
<1>2. w = 7 * q - k
  <2>1. localWeekday(z, d) = (d + 4) % 7
    BY WeekdayOfDate DEF Weekday
  <2>2. (d + 4) % 7 = d + 4 - 7 * ((d + 4) \div 7) /\ (d + 4) % 7 \in 0 .. 6
    OBVIOUS
  <2>3. CASE pref = "sunday"
    <3>1. w = d - localWeekday(z, d)
      BY <2>3 DEF WeekStart
    <3> QED
      BY <2>1, <2>2, <2>3, <3>1
  <2>4. CASE pref = "monday"
    <3>1. w = IF localWeekday(z, d) = 0 THEN d - 6 ELSE d + 1 - localWeekday(z, d)
      BY <2>4 DEF WeekStart
    <3>2. q = IF (d + 4) % 7 = 0 THEN (d + 4) \div 7 - 1 ELSE (d + 4) \div 7
      BY <2>2, <2>4
    <3> QED
      BY <2>1, <2>2, <2>4, <3>1, <3>2
  <2> QED
    BY <2>3, <2>4
<1>3. \A e \in Int : (IF pref = "sunday" THEN e + 4 ELSE e + 3) = e + k
  OBVIOUS
<1> HIDE DEF w, q
<1>4. k \in Int
  OBVIOUS
<1> HIDE DEF k
<1>5. w \in Int /\ w <= d /\ d <= w + 6
  BY <1>1, <1>2, <1>4
<1>6. /\ (d + k) \div 7 = q /\ (w + k) \div 7 = q /\ (w + 6 + k) \div 7 = q
      /\ (w - 1 + k) \div 7 # q /\ (w + 7 + k) \div 7 # q
  BY <1>1, <1>2, <1>4
<1> QED
  BY <1>3, <1>5, <1>6 DEF w

\* A set of integers with a member below d has a last one below d.
LEMMA Latest ==
    ASSUME NEW S \in SUBSET Int, NEW d \in Int, \E m \in S : m <= d
    PROVE  \E m \in S : m <= d /\ \A n \in S : n <= d => n <= m
<1> DEFINE R == OpToRel(<, Nat)
           D == {k \in Nat : d - k \in S}
<1>1. IsWellFoundedOn(R, Nat)
  BY NatLessThanWellFounded
<1>2. \A m \in S : m <= d => d - m \in D
  <2>1. \A m \in Int : m <= d => d - m \in Nat /\ d - (d - m) = m
    OBVIOUS
  <2> QED
    BY <2>1
<1>3. D \subseteq Nat /\ D # {}
  BY <1>2
<1>4. PICK x \in D : \A y \in D : ~(<<y, x>> \in R)
  <2> HIDE DEF R, D
  <2> QED BY <1>1, <1>3, WFMin
<1>5. \A y \in D : ~(y < x)
  BY <1>3, <1>4 DEF OpToRel
<1>6. x \in Nat /\ d - x \in S /\ d - x <= d
  <2>1. x \in Nat /\ d - x \in S
    BY <1>4
  <2> QED
    BY <2>1
<1>7. \A n \in S : n <= d => n <= d - x
  <2> SUFFICES ASSUME NEW n \in S, n <= d
               PROVE  n <= d - x
    OBVIOUS
  <2>1. n \in Int /\ ~(d - n < x)
    BY <1>2, <1>5
  <2> QED
    BY <1>6, <2>1
<1> QED
  BY <1>6, <1>7

\* And one with a member above d has a first one above d.
LEMMA Earliest ==
    ASSUME NEW S \in SUBSET Int, NEW d \in Int, \E m \in S : m > d
    PROVE  \E m \in S : m > d /\ \A n \in S : n > d => n >= m
<1> DEFINE R == OpToRel(<, Nat)
           D == {k \in Nat : d + 1 + k \in S}
<1>1. IsWellFoundedOn(R, Nat)
  BY NatLessThanWellFounded
<1>2. \A m \in S : m > d => m - d - 1 \in D
  <2>1. \A m \in Int : m > d => m - d - 1 \in Nat /\ d + 1 + (m - d - 1) = m
    OBVIOUS
  <2> QED
    BY <2>1
<1>3. D \subseteq Nat /\ D # {}
  BY <1>2
<1>4. PICK x \in D : \A y \in D : ~(<<y, x>> \in R)
  <2> HIDE DEF R, D
  <2> QED BY <1>1, <1>3, WFMin
<1>5. \A y \in D : ~(y < x)
  BY <1>3, <1>4 DEF OpToRel
<1>6. x \in Nat /\ d + 1 + x \in S /\ d + 1 + x > d
  <2>1. x \in Nat /\ d + 1 + x \in S
    BY <1>4
  <2> QED
    BY <2>1
<1>7. \A n \in S : n > d => n >= d + 1 + x
  <2> SUFFICES ASSUME NEW n \in S, n > d
               PROVE  n >= d + 1 + x
    OBVIOUS
  <2>1. n \in Int /\ ~(n - d - 1 < x)
    BY <1>2, <1>5
  <2> QED
    BY <1>6, <2>1
<1> QED
  BY <1>6, <1>7

LEMMA MonthStarting ==
    ASSUME Months, NEW d \in Int
    PROVE  /\ MonthStart(d) \in MonthStarts /\ MonthStart(d) \in Int
           /\ MonthStart(d) <= d
           /\ \A n \in MonthStarts : n <= d => n <= MonthStart(d)
<1>1. \E m \in MonthStarts : m <= d /\ \A n \in MonthStarts : n <= d => n <= m
  BY MonthsAssumption, Latest DEF Months
<1> QED
  BY <1>1, MonthsAssumption DEF MonthStart

LEMMA MonthEnding ==
    ASSUME Months, NEW d \in Int
    PROVE  /\ NextMonth(d) \in MonthStarts /\ NextMonth(d) \in Int
           /\ NextMonth(d) > d
           /\ \A n \in MonthStarts : n > d => n >= NextMonth(d)
<1>1. \E m \in MonthStarts : m > d /\ \A n \in MonthStarts : n > d => n >= m
  BY MonthsAssumption, Earliest DEF Months
<1> QED
  BY <1>1, MonthsAssumption DEF NextMonth

\* The dates from the first of the month to the day before the next month are
\* the ones of the month.
LEMMA Month ==
    ASSUME Months, NEW d \in Int
    PROVE  LET m == MonthStart(d)
               n == NextMonth(d) IN
           /\ m \in Int /\ n \in Int /\ m <= d /\ d <= n - 1
           /\ MonthStart(m) = m /\ MonthStart(n - 1) = m
           /\ MonthStart(m - 1) # m /\ MonthStart(n) # m
<1> DEFINE m == MonthStart(d)
           n == NextMonth(d)
<1>1. /\ m \in MonthStarts /\ m \in Int /\ m <= d
      /\ \A o \in MonthStarts : o <= d => o <= m
  BY MonthStarting
<1>2. /\ n \in MonthStarts /\ n \in Int /\ n > d
      /\ \A o \in MonthStarts : o > d => o >= n
  BY MonthEnding
<1>3. \A e \in Int : /\ MonthStart(e) \in MonthStarts /\ MonthStart(e) \in Int
                     /\ MonthStart(e) <= e
                     /\ \A o \in MonthStarts : o <= e => o <= MonthStart(e)
  BY MonthStarting
<1> HIDE DEF m, n
<1>4. m - 1 \in Int /\ n - 1 \in Int
  BY <1>1, <1>2
<1>5. MonthStart(m) = m
  <2>1. MonthStart(m) <= m /\ m <= MonthStart(m) /\ MonthStart(m) \in Int
    BY <1>1, <1>3
  <2> QED BY <1>1, <2>1
<1>6. MonthStart(n - 1) = m
  <2> DEFINE o == MonthStart(n - 1)
  <2>1. o \in MonthStarts /\ o \in Int /\ o <= n - 1 /\ (m <= n - 1 => m <= o)
    BY <1>1, <1>3, <1>4
  <2>2. o <= d => o <= m
    BY <1>1, <2>1
  <2>3. o > d => o >= n
    BY <1>2, <2>1
  <2> QED BY <1>1, <1>2, <2>1, <2>2, <2>3
<1>7. MonthStart(m - 1) # m
  BY <1>1, <1>3, <1>4
<1>8. MonthStart(n) # m
  <2>1. n <= MonthStart(n) /\ MonthStart(n) \in Int
    BY <1>2, <1>3
  <2> QED BY <1>1, <1>2, <2>1
<1> QED
  BY <1>1, <1>2, <1>5, <1>6, <1>7, <1>8 DEF m, n
-----------------------------------------------------------------------------
(* The period of an instant.                                               *)

FirstOf(t, s) == FirstDay(s.zone, LocalDay(s.zone, t), s)
LastOf(t, s)  == LastDay(s.zone, LocalDay(s.zone, t), s)

\* The number of the unit of a date, as CalendarUnit takes it.
UnitOf(d, s) ==
    CASE s.grain = "daily"   -> d
      [] s.grain = "monthly" -> MonthStart(d)
      [] OTHER -> (IF s.weekStart = "sunday" THEN d + 4 ELSE d + 3) \div 7

\* The first and the last date of a period are in its unit, the dates next to
\* them are not.
LEMMA Dates ==
    ASSUME Months, NEW s \in Setting, Calm(s.zone), NEW t \in Int
    PROVE  LET d == LocalDay(s.zone, t)
               a == FirstOf(t, s)
               b == LastOf(t, s) IN
           /\ d \in Int /\ a \in Int /\ b \in Int /\ a <= d /\ d <= b
           /\ UnitOf(a, s) = UnitOf(d, s) /\ UnitOf(b, s) = UnitOf(d, s)
           /\ UnitOf(a - 1, s) # UnitOf(d, s) /\ UnitOf(b + 1, s) # UnitOf(d, s)
<1> DEFINE d == LocalDay(s.zone, t)
<1>1. s.zone \in Zones /\ s.grain \in {"daily", "weekly", "monthly"}
      /\ s.weekStart \in {"monday", "sunday"}
  BY DEF Setting
<1>2. d \in Int
  BY <1>1, DayType
<1> HIDE DEF d
<1>3. CASE s.grain = "daily"
  <2>1. FirstDay(s.zone, d, s) = d /\ LastDay(s.zone, d, s) = d
    BY <1>3 DEF FirstDay, LastDay
  <2>2. \A e \in Int : UnitOf(e, s) = e
    BY <1>3 DEF UnitOf
  <2>3. d - 1 # d /\ d + 1 # d /\ d - 1 \in Int /\ d + 1 \in Int /\ d <= d
    BY <1>2
  <2> QED
    BY <1>2, <2>1, <2>2, <2>3 DEF d, FirstOf, LastOf
<1>4. CASE s.grain = "monthly"
  <2>1. FirstDay(s.zone, d, s) = MonthStart(d) /\ LastDay(s.zone, d, s) = NextMonth(d) - 1
    BY <1>4 DEF FirstDay, LastDay
  <2>2. \A e : UnitOf(e, s) = MonthStart(e)
    BY <1>4 DEF UnitOf
  <2>3. /\ MonthStart(d) \in Int /\ NextMonth(d) \in Int
        /\ MonthStart(d) <= d /\ d <= NextMonth(d) - 1
        /\ MonthStart(MonthStart(d)) = MonthStart(d)
        /\ MonthStart(NextMonth(d) - 1) = MonthStart(d)
        /\ MonthStart(MonthStart(d) - 1) # MonthStart(d)
        /\ MonthStart(NextMonth(d)) # MonthStart(d)
    BY <1>2, Month
  <2>4. NextMonth(d) - 1 + 1 = NextMonth(d) /\ NextMonth(d) - 1 \in Int
    BY <2>3
  <2> QED
    BY <1>2, <2>1, <2>2, <2>3, <2>4 DEF d, FirstOf, LastOf
<1>5. CASE s.grain = "weekly"
  <2> DEFINE w == WeekStart(s.zone, d, s.weekStart)
             number(e) == (IF s.weekStart = "sunday" THEN e + 4 ELSE e + 3) \div 7
  <2>1. FirstDay(s.zone, d, s) = w /\ LastDay(s.zone, d, s) = w + 6
    BY <1>5 DEF FirstDay, LastDay
  <2>2. \A e : UnitOf(e, s) = number(e)
    BY <1>5 DEF UnitOf
  <2>3. /\ w \in Int /\ w <= d /\ d <= w + 6
        /\ number(w) = number(d) /\ number(w + 6) = number(d)
        /\ number(w - 1) # number(d) /\ number(w + 7) # number(d)
    BY <1>1, <1>2, Week
  <2>4. w + 6 + 1 = w + 7 /\ w + 6 \in Int
    BY <2>3
  <2> HIDE DEF w, number
  <2> QED
    BY <1>2, <2>1, <2>2, <2>3, <2>4 DEF d, FirstOf, LastOf
<1> QED
  BY <1>1, <1>3, <1>4, <1>5

\* The period of an instant is its local day, week or month.
LEMMA RangeOfUnit ==
    ASSUME Months, NEW s \in Setting, Calm(s.zone), NEW t \in Int
    PROVE  RangeIsUnit(t, s)
<1> DEFINE z == s.zone
           d == LocalDay(z, t)
           a == FirstOf(t, s)
           b == LastOf(t, s)
           start == LocalMidnight(z, a)
           next  == LocalMidnight(z, b + 1)
<1>1. z \in Zones
  BY DEF Setting
<1>2. /\ d \in Int /\ a \in Int /\ b \in Int /\ a <= d /\ d <= b
      /\ UnitOf(a, s) = UnitOf(d, s) /\ UnitOf(b, s) = UnitOf(d, s)
      /\ UnitOf(a - 1, s) # UnitOf(d, s) /\ UnitOf(b + 1, s) # UnitOf(d, s)
  BY Dates
<1>3. getPeriodRange(t, s) = [start |-> start, end |-> next - Tick]
  BY DEF getPeriodRange, endOfLocalDay, FirstOf, LastOf
<1>4. \A u : CalendarUnit(u, s) = UnitOf(LocalDay(z, u), s)
  BY DEF CalendarUnit, UnitOf
<1> HIDE DEF a, b, z, d
<1>5. start \in Int /\ next \in Int /\ b + 1 \in Int
  BY <1>1, <1>2, MidnightType
<1>6. /\ LocalDay(z, start) = a /\ LocalDay(z, start - Tick) = a - 1
  BY <1>1, <1>2, DayBounds DEF z
<1>7. /\ LocalDay(z, next) = b + 1 /\ LocalDay(z, next - Tick) = b
  <2> DEFINE n == b + 1
  <2>1. n \in Int /\ n - 1 = b
    BY <1>2
  <2> HIDE DEF n
  <2>2. LocalDay(z, LocalMidnight(z, n)) = n /\ LocalDay(z, LocalMidnight(z, n) - Tick) = n - 1
    BY <1>1, <2>1, DayBounds DEF z
  <2> QED
    BY <2>1, <2>2 DEF n
<1>8. start <= t /\ t < next
  <2>1. LocalDay(z, t) >= a /\ ~(LocalDay(z, t) >= b + 1)
    BY <1>2 DEF d
  <2> QED
    BY <1>1, <1>2, <1>5, <2>1, Midnight DEF z
<1> HIDE DEF start, next
<1>9. next - Tick + Tick = next /\ start <= t /\ t <= next - Tick
  BY <1>5, <1>8 DEF Tick
<1> QED
  BY <1>2, <1>3, <1>4, <1>6, <1>7, <1>9 DEF RangeIsUnit, d
\* The starts and the ends are integers, in any zone.
LEMMA StartType ==
    ASSUME Months, NEW s \in Setting, NEW t \in Int
    PROVE  getPeriodRange(t, s).start \in Int
<1> DEFINE d == LocalDay(s.zone, t)
<1>1. s.zone \in Zones /\ s.grain \in {"daily", "weekly", "monthly"}
  BY DEF Setting
<1>2. d \in Int
  BY <1>1, DayType
<1>3. localWeekday(s.zone, d) \in 0 .. 6
  <2>1. LocalDay(s.zone, LocalMidnight(s.zone, d)) \in Int
    BY <1>1, <1>2, DayType, MidnightType
  <2> QED
    BY <2>1 DEF localWeekday, Weekday
<1>4. MonthStart(d) \in Int
  BY <1>2, MonthStarting
<1> HIDE DEF d
<1>5. FirstDay(s.zone, d, s) \in Int
  <2>1. WeekStart(s.zone, d, s.weekStart) \in Int
    BY <1>2, <1>3 DEF WeekStart
  <2> QED
    BY <1>2, <1>4, <2>1 DEF FirstDay
<1> QED
  BY <1>1, <1>5, MidnightType DEF getPeriodRange, d

\* Later instants are of later dates, and later dates of later units.
LEMMA LaterUnit ==
    ASSUME Months, NEW s \in Setting, Calm(s.zone), NEW t \in Int, NEW u \in Int, t <= u
    PROVE  /\ CalendarUnit(t, s) \in Int /\ CalendarUnit(u, s) \in Int
           /\ CalendarUnit(t, s) <= CalendarUnit(u, s)
<1> DEFINE c == LocalDay(s.zone, t)
           d == LocalDay(s.zone, u)
<1>1. s.zone \in Zones /\ s.grain \in {"daily", "weekly", "monthly"}
  BY DEF Setting
<1>2. c \in Int /\ d \in Int
  BY <1>1, DayType
<1>3. c <= d
  <2>1. LocalMidnight(s.zone, c) \in Int /\ t >= LocalMidnight(s.zone, c)
    BY <1>1, <1>2, MidnightType, Midnight
  <2>2. u >= LocalMidnight(s.zone, c)
    BY <2>1
  <2> QED
    BY <1>1, <1>2, <2>2, Midnight
<1>4. CalendarUnit(t, s) = UnitOf(c, s) /\ CalendarUnit(u, s) = UnitOf(d, s)
  BY DEF CalendarUnit, UnitOf
<1> HIDE DEF c, d
<1>5. CASE s.grain = "daily"
  BY <1>2, <1>3, <1>4, <1>5 DEF UnitOf
<1>6. CASE s.grain = "monthly"
  <2>1. MonthStart(c) \in Int /\ MonthStart(d) \in Int /\ MonthStart(c) <= MonthStart(d)
    <3>1. /\ MonthStart(c) \in MonthStarts /\ MonthStart(c) \in Int /\ MonthStart(c) <= c
          /\ MonthStart(d) \in Int
          /\ \A n \in MonthStarts : n <= d => n <= MonthStart(d)
      BY <1>2, MonthStarting
    <3> QED
      BY <1>2, <1>3, <3>1
  <2> QED
    BY <1>4, <1>6, <2>1 DEF UnitOf
<1>7. CASE s.grain = "weekly"
  <2>1. \A k \in Int : (c + k) \div 7 \in Int /\ (d + k) \div 7 \in Int
                       /\ (c + k) \div 7 <= (d + k) \div 7
    BY <1>2, <1>3
  <2>2. (c + 4) \div 7 <= (d + 4) \div 7 /\ (c + 3) \div 7 <= (d + 3) \div 7
    BY <1>2, <1>3
  <2> QED
    BY <1>2, <1>4, <1>7, <2>2 DEF UnitOf
<1> QED
  BY <1>1, <1>5, <1>6, <1>7

\* No period begins between the start of the period of t and t.
LEMMA NoStartBetween ==
    ASSUME Months, NEW s \in Setting, Calm(s.zone), NEW t \in Int, NEW u \in Int,
           getPeriodRange(t, s).start <= getPeriodRange(u, s).start,
           getPeriodRange(u, s).start <= t
    PROVE  getPeriodRange(u, s).start = getPeriodRange(t, s).start
<1> DEFINE a == getPeriodRange(t, s).start
           v == getPeriodRange(u, s).start
<1>1. a \in Int /\ v \in Int
  BY StartType
<1>2. CalendarUnit(a, s) = CalendarUnit(t, s)
  BY RangeOfUnit DEF RangeIsUnit
<1>3. CalendarUnit(v, s) = CalendarUnit(u, s) /\ CalendarUnit(v - Tick, s) # CalendarUnit(u, s)
  BY RangeOfUnit DEF RangeIsUnit
<1> HIDE DEF a, v
<1>4. SUFFICES ASSUME a < v, v <= t
               PROVE  FALSE
  BY <1>1 DEF a, v
<1>5. v - Tick \in Int /\ a <= v - Tick /\ v - Tick <= v
  BY <1>1, <1>4 DEF Tick
<1>6. CalendarUnit(a, s) <= CalendarUnit(v - Tick, s)
  BY <1>1, <1>5, LaterUnit
<1>7. CalendarUnit(v - Tick, s) <= CalendarUnit(v, s)
  BY <1>1, <1>5, LaterUnit
<1>8. CalendarUnit(v, s) <= CalendarUnit(t, s)
  BY <1>1, <1>4, LaterUnit
<1>9. CalendarUnit(v, s) \in Int /\ CalendarUnit(v - Tick, s) \in Int
      /\ CalendarUnit(a, s) \in Int
  BY <1>1, <1>4, <1>5, LaterUnit
<1> QED
  BY <1>2, <1>3, <1>6, <1>7, <1>8, <1>9
-----------------------------------------------------------------------------
(* The steps back of the list.                                             *)

\* Where no clock loses an hour, k days of 24 hours before a midnight are not
\* before the midnight of k dates earlier.
LEMMA MidnightBack ==
    ASSUME NEW z \in Zones, z.to <= z.from, NEW d \in Int, NEW k \in Nat
    PROVE  LocalMidnight(z, d) - k * Day >= LocalMidnight(z, d - k)
<1> DEFINE e == d - k
<1>1. e \in Int /\ e * Day = d * Day - k * Day /\ e * Day <= d * Day
  BY DEF Day
<1>2. d * Day \in Int /\ e * Day \in Int /\ k * Day \in Int
  BY <1>1 DEF Day
<1>3. LocalMidnight(z, e) = e * Day - getTimezoneOffset(z, e * Day)
      /\ LocalMidnight(z, d) = d * Day - getTimezoneOffset(z, d * Day)
  BY DEF LocalMidnight
<1> HIDE DEF e
<1>4. getTimezoneOffset(z, d * Day) <= getTimezoneOffset(z, e * Day)
      /\ getTimezoneOffset(z, d * Day) \in Int /\ getTimezoneOffset(z, e * Day) \in Int
  BY <1>1, <1>2, ZoneTypes DEF getTimezoneOffset
<1>5. LocalMidnight(z, d) - k * Day >= LocalMidnight(z, e)
  <2> DEFINE x == d * Day  y == e * Day  w == k * Day
             o == getTimezoneOffset(z, d * Day)
             q == getTimezoneOffset(z, e * Day)
  <2>1. x \in Int /\ y \in Int /\ w \in Int /\ o \in Int /\ q \in Int /\ o <= q /\ y = x - w
    BY <1>1, <1>2, <1>4
  <2>2. LocalMidnight(z, d) = x - o /\ LocalMidnight(z, e) = y - q
    BY <1>3
  <2> HIDE DEF x, y, w, o, q
  <2>3. x - o - w >= y - q
    BY <2>1
  <2> QED
    BY <2>2, <2>3 DEF w
<1> QED
  BY <1>5 DEF e

\* West of UTC the local date is the date of UTC or the one before it.
LEMMA DateOfUTC ==
    ASSUME NEW z \in Zones, z.to <= z.from, z.from <= 0, NEW t \in Int
    PROVE  t \div Day \in Int /\ LocalDay(z, t) \in {t \div Day, t \div Day - 1}
<1> DEFINE o == getTimezoneOffset(z, t)
<1>1. o \in Int /\ -Day < o /\ o <= 0
  <2>1. -Day < z.from /\ -Day < z.to
    BY ZonesAssumption
  <2> QED
    BY <2>1, ZoneTypes DEF getTimezoneOffset, Day
<1>2. LocalDay(z, t) = (t + o) \div Day
  BY DEF LocalDay
<1> HIDE DEF o
<1> QED
  BY <1>1, <1>2 DEF Day

\* A step back of the walk is a number of whole days, and no more than take
\* the local date back to the last period f that began before this one.
LEMMA StepFits ==
    ASSUME Months, NEW s \in Setting, StepsFit(s), NEW t \in Int, NEW u \in Int,
           FirstOf(u, s) < FirstOf(t, s)
    PROVE  \E k \in Nat : /\ StepBack(t, s.grain) = t - k * Day
                          /\ FirstOf(u, s) <= LocalDay(s.zone, t) - k
<1> DEFINE z == s.zone
           d == LocalDay(z, t)
           e == LocalDay(z, u)
           a == FirstOf(t, s)
           f == FirstOf(u, s)
<1>1. z \in Zones /\ z.to <= z.from /\ Calm(z)
      /\ s.grain \in {"daily", "weekly", "monthly"} /\ s.weekStart \in {"monday", "sunday"}
      /\ (s.grain = "monthly" => z.from <= 0)
  BY DEF Setting, StepsFit
<1>2. d \in Int /\ a \in Int /\ a <= d /\ e \in Int /\ f \in Int /\ f <= e
  BY <1>1, Dates
<1>3. f < a
  OBVIOUS
<1>4. a = FirstDay(z, d, s) /\ f = FirstDay(z, e, s)
  BY DEF FirstOf
<1>5. CASE s.grain = "daily"
  <2>1. a = d
    BY <1>4, <1>5 DEF FirstDay
  <2>2. StepBack(t, s.grain) = t - 1 * Day
    BY <1>5 DEF StepBack, Day
  <2> HIDE DEF d, a, f
  <2>3. f <= d - 1
    BY <1>2, <1>3, <2>1
  <2> QED
    BY <2>2, <2>3 DEF d, f
<1>6. CASE s.grain = "weekly"
  <2>1. a = WeekStart(z, d, s.weekStart) /\ f = WeekStart(z, e, s.weekStart)
    BY <1>4, <1>6 DEF FirstDay
  <2>2. StepBack(t, s.grain) = t - 7 * Day
    BY <1>6 DEF StepBack
  <2> DEFINE n == IF s.weekStart = "sunday" THEN 4 ELSE 3
  <2>3. n \in Int /\ \A x \in Int : (IF s.weekStart = "sunday" THEN x + 4 ELSE x + 3) = x + n
    OBVIOUS
  <2>4. (a + n) \div 7 # (a - 1 + n) \div 7 /\ (f + n) \div 7 # (f - 1 + n) \div 7
    <3>1. ASSUME NEW x \in Int
          PROVE  LET w == WeekStart(z, x, s.weekStart) IN
                 w \in Int /\ (w + n) \div 7 # (w - 1 + n) \div 7
      <4> DEFINE w == WeekStart(z, x, s.weekStart)
                 number(y) == (IF s.weekStart = "sunday" THEN y + 4 ELSE y + 3) \div 7
      <4>1. w \in Int /\ number(w) = number(x) /\ number(w - 1) # number(x)
        BY <1>1, Week
      <4> HIDE DEF w
      <4>2. w - 1 \in Int
        BY <4>1
      <4>3. number(w) = (w + n) \div 7 /\ number(w - 1) = (w - 1 + n) \div 7
        BY <2>3, <4>1, <4>2
      <4> HIDE DEF number, n
      <4> QED
        BY <4>1, <4>3 DEF w
    <3> QED
      BY <1>2, <2>1, <3>1
  <2> HIDE DEF d, a, f, e, n, z
  <2>5. f <= a - 7
    BY <1>2, <1>3, <2>3, <2>4
  <2>6. f <= d - 7
    BY <1>2, <2>5
  <2> QED
    BY <2>2, <2>6 DEF d, f, z
<1>7. CASE s.grain = "monthly"
  <2>1. a = MonthStart(d) /\ f = MonthStart(e)
    BY <1>4, <1>7 DEF FirstDay
  <2> DEFINE c == t \div Day
             m == MonthStart(c)
             p == MonthStart(m - 1)
             b == MonthStart(a - 1)
  <2>2. c \in Int /\ d \in {c, c - 1}
    BY <1>1, <1>7, DateOfUTC
  <2>3. StepBack(t, s.grain) = t - (m - p) * Day
    BY <1>7 DEF StepBack
  <2> HIDE DEF c, d, e, z, a, f
  <2>4. /\ a \in MonthStarts /\ a \in Int /\ a <= d /\ f \in MonthStarts
        /\ \A o \in MonthStarts : o <= d => o <= a
    BY <1>2, <2>1, MonthStarting
  <2>5. /\ m \in MonthStarts /\ m \in Int /\ m <= c
        /\ \A o \in MonthStarts : o <= c => o <= m
    BY <2>2, MonthStarting
  <2>6. /\ b \in Int /\ b <= a - 1 /\ \A o \in MonthStarts : o <= a - 1 => o <= b
    <3>1. a - 1 \in Int
      BY <2>4
    <3> QED
      BY <3>1, MonthStarting
  <2>7. f <= b
    BY <1>2, <1>3, <2>4, <2>6
  <2> HIDE DEF m, b
  <2>8. a <= m
    BY <1>2, <2>2, <2>4, <2>5
\* The date of UTC is in the same month as the local date.
  <2>9. CASE m = a
    <3>1. p = b
      BY <2>9 DEF b
    <3>2. m - p \in Nat /\ f <= d - (m - p)
      BY <1>2, <2>4, <2>5, <2>6, <2>7, <2>9, <3>1
    <3> QED
      BY <2>3, <3>2 DEF d, z, f
\* Or it is the first of the next month.
  <2>10. CASE m # a
    <3>1. m = d + 1
      BY <1>2, <2>2, <2>4, <2>5, <2>8, <2>10
    <3>2. p = a
      <4>1. m - 1 = d
        BY <1>2, <3>1
      <4> QED
        BY <2>1, <4>1
    <3>3. m - p \in Nat /\ f <= d - (m - p)
      BY <1>2, <2>4, <2>6, <2>7, <3>1, <3>2
    <3> QED
      BY <2>3, <3>3 DEF d, z, f
  <2> QED
    BY <2>9, <2>10
<1> QED
  BY <1>1, <1>5, <1>6, <1>7

\* So no period begins between a step back and the start of the period that
\* it leaves.
LEMMA NoneSkipped ==
    ASSUME Months, NEW s \in Setting, StepsFit(s), NEW t \in Int, NEW u \in Int,
           getPeriodRange(u, s).start < getPeriodRange(t, s).start
    PROVE  getPeriodRange(u, s).start <= StepBack(t, s.grain)
<1> DEFINE z == s.zone
           d == LocalDay(z, t)
           a == FirstOf(t, s)
           f == FirstOf(u, s)
<1>1. z \in Zones /\ z.to <= z.from /\ Calm(z)
  BY DEF Setting, StepsFit
<1>2. d \in Int /\ a \in Int /\ f \in Int
  BY <1>1, Dates
<1>3. getPeriodRange(u, s).start = LocalMidnight(z, f)
      /\ getPeriodRange(t, s).start = LocalMidnight(z, a)
  BY DEF getPeriodRange, FirstOf
<1>4. LocalMidnight(z, f) \in Int /\ LocalMidnight(z, a) \in Int /\ LocalMidnight(z, d) \in Int
  BY <1>1, <1>2, MidnightType
<1> HIDE DEF z, d, a, f
<1>5. f < a
  <2>1. CASE a < f
    BY <1>1, <1>2, <1>3, <1>4, <2>1, LaterMidnight
  <2>2. a # f
    BY <1>3, <1>4
  <2> QED
    BY <1>2, <1>4, <2>1, <2>2
<1>6. PICK k \in Nat : StepBack(t, s.grain) = t - k * Day /\ f <= d - k
  BY <1>5, StepFits DEF a, d, f, z
<1>7. LocalMidnight(z, d) <= t
  <2>1. LocalDay(z, t) >= d
    BY <1>2 DEF d
  <2> QED
    BY <1>1, <1>2, <2>1, Midnight
<1>8. LocalMidnight(z, d) - k * Day >= LocalMidnight(z, d - k)
  BY <1>1, <1>2, MidnightBack
<1>9. d - k \in Int /\ LocalMidnight(z, d - k) \in Int
  BY <1>1, <1>2, MidnightType
<1>10. LocalMidnight(z, f) <= LocalMidnight(z, d - k)
  <2> DEFINE g == d - k
  <2>1. g \in Int /\ f <= g
    BY <1>6, <1>9
  <2> HIDE DEF g
  <2>2. CASE f = g
    BY <1>4, <2>2 DEF g
  <2>3. CASE f < g
    BY <1>1, <1>2, <1>4, <1>9, <2>1, <2>3, LaterMidnight DEF g
  <2> QED
    BY <1>2, <2>1, <2>2, <2>3
<1>11. k * Day \in Int
  BY DEF Day
<1>12. LocalMidnight(z, f) <= t - k * Day
  <2> DEFINE x == LocalMidnight(z, f)  y == LocalMidnight(z, d)
             w == LocalMidnight(z, d - k)  v == k * Day
  <2>1. x \in Int /\ y \in Int /\ w \in Int /\ v \in Int
        /\ x <= w /\ y - v >= w /\ y <= t
    BY <1>4, <1>7, <1>8, <1>9, <1>10, <1>11
  <2> HIDE DEF x, y, w, v
  <2>2. x <= t - v
    BY <2>1
  <2> QED
    BY <2>2 DEF x, v
<1> QED
  BY <1>3, <1>6, <1>12
-----------------------------------------------------------------------------
(* The walks.                                                              *)

AskOK == /\ ask \in Ask
         /\ \A r \in ask.rejected : \E u \in Targets : r = Start(u)

\* What the walk of a submission knows: everything between the instant it is
\* at and the period that is submitted has been looked at.
Behind ==
    ask.walk = "cascade" /\ Calm(ask.setting.zone) =>
        /\ cursor < Start(ask.target)
        /\ outcome = "walking" => \A x \in seen : cursor < x
        /\ \A r \in ask.rejected : cursor < r => Start(ask.target) <= r
        /\ outcome = "clear" => cursor < Start(ask.earliest)
        /\ outcome = "stopped" => steps = MaxSteps

\* What the list knows: a period it has not seen begins no later than the
\* instant it is at; and it ends only before the window.
Listing ==
    ask.walk = "list" /\ StepsFit(ask.setting) =>
        /\ \A t \in Targets : t <= ask.target => Start(t) \in seen \/ Start(t) <= cursor
        /\ outcome = "clear" => Start(cursor) < ask.earliest

IInv == TypeOK /\ AskOK /\ Behind /\ Listing

LEMMA AskTypes ==
    ASSUME AskOK
    PROVE  /\ ask.setting \in Setting
           /\ ask.target \in Int /\ ask.earliest \in Int
           /\ ask.rejected \subseteq Int
           /\ ask.walk \in {"cascade", "list"}
BY TargetsAssumption DEF AskOK, Ask

LEMMA Starts ==
    ASSUME Months, AskOK, NEW t \in Int
    PROVE  Start(t) \in Int
BY AskTypes, StartType DEF Start

LEMMA InitIInv == ASSUME Months, Init PROVE IInv
<1>1. PICK walk \in {"cascade", "list"}, setting \in Setting, t \in Targets, e \in Targets :
         \E rejected \in {{}} \cup {{getPeriodRange(u, setting).start} : u \in Targets} :
            ask = [walk |-> walk, setting |-> setting, target |-> t, earliest |-> e,
                   rejected |-> rejected]
  BY DEF Init
<1>2. PICK rejected \in {{}} \cup {{getPeriodRange(u, setting).start} : u \in Targets} :
         ask = [walk |-> walk, setting |-> setting, target |-> t, earliest |-> e,
                rejected |-> rejected]
  BY <1>1
<1>3. \A u \in Targets : getPeriodRange(u, setting).start \in Int
  BY TargetsAssumption, StartType
<1>4. AskOK
  <2>1. ask \in Ask
    BY <1>2, <1>3 DEF Ask
  <2>2. \A r \in ask.rejected : \E u \in Targets : r = Start(u)
    BY <1>2 DEF Start
  <2> QED
    BY <2>1, <2>2 DEF AskOK
<1>5. Start(ask.target) \in Int /\ ask.target \in Int
  BY <1>4, AskTypes, Starts
<1>6. TypeOK
  BY <1>4, <1>5, StepsAssumption DEF Init, TypeOK, AskOK, Tick
<1>7. Behind
  <2> SUFFICES ASSUME ask.walk = "cascade"
               PROVE  /\ cursor < Start(ask.target)
                      /\ outcome = "walking" => \A x \in seen : cursor < x
                      /\ \A r \in ask.rejected : cursor < r => Start(ask.target) <= r
                      /\ outcome = "clear" => cursor < Start(ask.earliest)
                      /\ outcome = "stopped" => steps = MaxSteps
    BY DEF Behind
  <2>1. cursor = Start(ask.target) - Tick /\ seen = {} /\ outcome = "walking"
    BY DEF Init
  <2>2. \A r \in ask.rejected : r \in Int
    BY <1>4, AskTypes
  <2> QED
    BY <1>5, <2>1, <2>2 DEF Tick
<1>8. Listing
  <2> SUFFICES ASSUME ask.walk = "list", StepsFit(ask.setting)
               PROVE  /\ \A u \in Targets : u <= ask.target =>
                            Start(u) \in seen \/ Start(u) <= cursor
                      /\ outcome # "clear"
    BY DEF Listing
  <2>1. cursor = ask.target /\ outcome = "walking"
    BY DEF Init
  <2>2. ASSUME NEW u \in Targets, u <= ask.target PROVE Start(u) <= cursor
    <3>1. u \in Int /\ ask.setting \in Setting /\ Calm(ask.setting.zone)
      BY <1>4, AskTypes, TargetsAssumption DEF StepsFit
    <3>2. Start(u) <= u /\ Start(u) \in Int
      BY <1>4, <3>1, RangeOfUnit, Starts DEF RangeIsUnit, Start
    <3> QED
      BY <1>5, <2>1, <2>2, <3>1, <3>2
  <2> QED
    BY <2>1, <2>2
<1> QED
  BY <1>4, <1>6, <1>7, <1>8 DEF IInv

\* The period a step looks at begins before the target's, has not been seen
\* and, unless it is rejected, no rejected one lies between it and the target.
LEMMA Looking ==
    ASSUME Months, IInv, ask.walk = "cascade", Calm(ask.setting.zone), outcome = "walking"
    PROVE  /\ Start(cursor) \in Int /\ Start(cursor) <= cursor
           /\ Start(cursor) < Start(ask.target) /\ Start(cursor) \notin seen
           /\ \A r \in ask.rejected : Start(cursor) < r => Start(ask.target) <= r
<1> DEFINE a == Start(cursor)
<1>1. AskOK /\ cursor \in Int /\ ask.setting \in Setting /\ seen \subseteq Int
  BY AskTypes DEF IInv, TypeOK
<1>2. a \in Int /\ a <= cursor
  BY <1>1, RangeOfUnit, Starts DEF RangeIsUnit, Start
<1>3. /\ cursor < Start(ask.target) /\ \A x \in seen : cursor < x
      /\ \A r \in ask.rejected : cursor < r => Start(ask.target) <= r
  BY DEF IInv, Behind
<1>4. Start(ask.target) \in Int
  BY <1>1, AskTypes, Starts
<1>5. ASSUME NEW r \in ask.rejected, a < r PROVE cursor < r
  <2>1. PICK u \in Targets : r = Start(u)
    BY <1>1 DEF AskOK
  <2>2. u \in Int /\ r \in Int
    BY <1>1, <2>1, TargetsAssumption, AskTypes
  <2>3. r <= cursor => r = a
    BY <1>1, <1>2, <1>5, <2>1, <2>2, NoStartBetween DEF Start
  <2> QED
    BY <1>1, <1>2, <1>5, <2>2, <2>3
<1> HIDE DEF a
<1>6. a \notin seen
  BY <1>1, <1>2, <1>3
<1>7. a < Start(ask.target)
  BY <1>1, <1>2, <1>3, <1>4
<1> QED
  BY <1>2, <1>3, <1>5, <1>6, <1>7 DEF a

LEMMA StepCascadeNext == ASSUME Months, IInv, CascadeNext PROVE IInv'
<1>1. /\ ask' = ask /\ steps' = steps + 1 /\ seen' = seen \cup {Start(cursor)}
      /\ cursor' = Start(cursor) - Tick /\ outcome' \in {"clear", "walking"}
      /\ outcome' = "clear" => Start(cursor) <= Start(ask.earliest)
      /\ ask.walk = "cascade" /\ outcome = "walking" /\ steps < MaxSteps
      /\ Start(cursor) \notin ask.rejected
  BY DEF CascadeNext
<1>2. AskOK /\ cursor \in Int /\ steps \in 0 .. MaxSteps /\ seen \subseteq Int
  BY DEF IInv, TypeOK
<1>3. Start(cursor) \in Int /\ Start(ask.target) \in Int /\ Start(ask.earliest) \in Int
  BY <1>2, AskTypes, Starts
<1>4. \A t : Start(t)' = getPeriodRange(t, ask.setting).start
  BY <1>1 DEF Start
<1>5. AskOK'
  BY <1>1, <1>2 DEF AskOK, Start
<1>6. TypeOK'
  <2>1. steps' \in 0 .. MaxSteps
    BY <1>1, <1>2, StepsAssumption
  <2>2. cursor' \in Int
    BY <1>1, <1>3 DEF Tick
  <2> QED
    BY <1>1, <1>2, <1>3, <1>5, <2>1, <2>2 DEF TypeOK, AskOK
<1>7. Behind'
  <2> SUFFICES ASSUME Calm(ask.setting.zone)
               PROVE  /\ cursor' < Start(ask.target)
                      /\ \A x \in seen' : cursor' < x
                      /\ \A r \in ask.rejected : cursor' < r => Start(ask.target) <= r
                      /\ outcome' = "clear" => cursor' < Start(ask.earliest)
                      /\ outcome' # "stopped"
    BY <1>1 DEF Behind, Start
  <2>1. /\ Start(cursor) <= cursor /\ Start(cursor) < Start(ask.target)
        /\ \A r \in ask.rejected : Start(cursor) < r => Start(ask.target) <= r
    BY <1>1, Looking
  <2>2. \A x \in seen : cursor < x
    BY <1>1 DEF IInv, Behind
  <2>3. \A r \in ask.rejected : r \in Int /\ r # Start(cursor)
    BY <1>1, <1>2, AskTypes
  <2>4. \A r \in ask.rejected : cursor' < r => Start(cursor) < r
    BY <1>1, <1>3, <2>3 DEF Tick
  <2>5. cursor' < Start(cursor) /\ cursor' \in Int
    BY <1>1, <1>3 DEF Tick
  <2>6. \A x \in seen' : cursor' < x
    BY <1>1, <1>2, <1>3, <2>1, <2>2, <2>5
  <2>7. outcome' = "clear" => cursor' < Start(ask.earliest)
    <3> DEFINE a == Start(cursor)
               e == Start(ask.earliest)
    <3>1. a \in Int /\ e \in Int /\ cursor' < a /\ (outcome' = "clear" => a <= e)
      BY <1>1, <1>3, <2>5
    <3> HIDE DEF a, e
    <3>2. outcome' = "clear" => cursor' < e
      BY <2>5, <3>1
    <3> QED
      BY <3>2 DEF e
  <2>8. cursor' < Start(ask.target)
    <3> DEFINE a == Start(cursor)
               b == Start(ask.target)
    <3>1. a \in Int /\ b \in Int /\ cursor' < a /\ a < b
      BY <1>3, <2>1, <2>5
    <3> HIDE DEF a, b
    <3>2. cursor' < b
      BY <2>5, <3>1
    <3> QED
      BY <3>2 DEF b
  <2> QED
    BY <1>1, <2>1, <2>4, <2>6, <2>7, <2>8
<1>8. Listing'
  BY <1>1 DEF Listing
<1> QED
  BY <1>5, <1>6, <1>7, <1>8 DEF IInv

LEMMA StepCascadeBlocked == ASSUME Months, IInv, CascadeBlocked PROVE IInv'
<1>1. /\ UNCHANGED <<ask, cursor, steps>> /\ outcome' = "blocked"
      /\ seen' = seen \cup {Start(cursor)}
  BY DEF CascadeBlocked
<1>2. Start(cursor) \in Int
  BY Starts DEF IInv, TypeOK
<1>3. AskOK' /\ TypeOK'
  BY <1>1, <1>2 DEF IInv, AskOK, TypeOK, Start
<1>4. Behind' /\ Listing'
  BY <1>1 DEF IInv, Behind, Listing, Start, CascadeBlocked
<1> QED
  BY <1>3, <1>4 DEF IInv

LEMMA StepList == ASSUME Months, IInv, ListNext \/ ListEnds PROVE IInv'
<1>1. /\ ask' = ask /\ ask.walk = "list" /\ outcome' \in {"walking", "clear"}
      /\ \/ /\ steps < MaxSteps /\ steps' = steps + 1
            /\ seen' = seen \cup {Start(cursor)}
            /\ cursor' = StepBack(cursor, ask.setting.grain)
         \/ UNCHANGED <<cursor, steps, seen>>
  BY DEF ListNext, ListEnds, IInv, TypeOK
<1>2. AskOK /\ cursor \in Int /\ steps \in 0 .. MaxSteps
  BY DEF IInv, TypeOK
<1>3. Start(cursor) \in Int
  BY <1>2, Starts
<1>4. StepBack(cursor, ask.setting.grain) \in Int
  <2>1. cursor \div Day \in Int
    BY <1>2 DEF Day
  <2>2. MonthStart(cursor \div Day) \in Int
    BY <2>1, MonthStarting
  <2>3. MonthStart(MonthStart(cursor \div Day) - 1) \in Int
    BY <2>2, MonthStarting
  <2> QED
    BY <1>2, <2>2, <2>3 DEF StepBack, Day
<1>5. AskOK'
  BY <1>1, <1>2 DEF AskOK, Start
<1>6. TypeOK'
  <2>1. steps' \in 0 .. MaxSteps
    BY <1>1, <1>2, StepsAssumption
  <2>2. seen' \subseteq Int
    BY <1>1, <1>3 DEF IInv, TypeOK
  <2>3. cursor' \in Int
    BY <1>1, <1>2, <1>4
  <2> QED
    BY <1>1, <1>5, <2>1, <2>2, <2>3 DEF TypeOK, AskOK
<1>7. Behind'
  BY <1>1 DEF Behind
<1>8. Listing'
  <2> SUFFICES ASSUME StepsFit(ask.setting)
               PROVE  /\ \A u \in Targets : u <= ask.target =>
                            Start(u) \in seen' \/ Start(u) <= cursor'
                      /\ outcome' = "clear" => Start(cursor') < ask.earliest
    BY <1>1 DEF Listing, Start
  <2>0. ask.setting \in Setting /\ ask.target \in Int /\ ask.earliest \in Int
        /\ Calm(ask.setting.zone)
    BY <1>2, AskTypes DEF StepsFit
  <2>1. \A u \in Targets : u <= ask.target => Start(u) \in seen \/ Start(u) <= cursor
    BY <1>1 DEF IInv, Listing
  <2>2. CASE ListEnds
    <3>1. cursor' = cursor /\ seen' = seen /\ Start(cursor) < ask.earliest
      BY <2>2 DEF ListEnds
    <3> QED
      BY <2>1, <3>1
  <2>3. CASE ListNext
    <3>1. /\ outcome' = "walking" /\ seen' = seen \cup {Start(cursor)}
          /\ cursor' = StepBack(cursor, ask.setting.grain)
      BY <2>3 DEF ListNext
    <3>2. ASSUME NEW u \in Targets, Start(u) <= cursor
          PROVE  Start(u) = Start(cursor) \/ Start(u) <= cursor'
      <4> DEFINE a == Start(cursor)
                 b == Start(u)
      <4>1. u \in Int /\ a \in Int /\ b \in Int /\ b <= cursor
        BY <1>2, <1>3, <3>2, Starts, TargetsAssumption
      <4>2. a <= b => a = b
        BY <1>2, <2>0, <4>1, NoStartBetween DEF Start
      <4>3. b < a => b <= cursor'
        BY <1>2, <2>0, <3>1, <4>1, NoneSkipped DEF Start
      <4> HIDE DEF a, b
      <4>4. b = a \/ b <= cursor'
        BY <4>1, <4>2, <4>3
      <4> QED
        BY <4>4 DEF a, b
    <3> QED
      BY <2>1, <3>1, <3>2
  <2> QED
    BY <2>2, <2>3
<1> QED
  BY <1>5, <1>6, <1>7, <1>8 DEF IInv

LEMMA StepGivesUp == ASSUME Months, IInv, GivesUp PROVE IInv'
<1>1. /\ UNCHANGED <<ask, cursor, steps, seen>> /\ outcome = "walking" /\ outcome' = "stopped"
      /\ \/ steps = MaxSteps
         \/ ask.walk = "cascade"
            /\ (Start(cursor) >= Start(ask.target) \/ Start(cursor) \in seen)
  BY DEF GivesUp
<1>2. AskOK' /\ TypeOK'
  BY <1>1 DEF IInv, AskOK, TypeOK, Start
<1>3. ASSUME ask.walk = "cascade", Calm(ask.setting.zone) PROVE steps = MaxSteps
  <2> DEFINE a == Start(cursor)
             b == Start(ask.target)
  <2>1. a \in Int /\ a < b /\ a \notin seen
    BY <1>1, <1>3, Looking
  <2>2. b \in Int
    BY AskTypes, Starts DEF IInv
  <2>3. steps = MaxSteps \/ a >= b \/ a \in seen
    BY <1>1
  <2> HIDE DEF a, b
  <2> QED
    BY <2>1, <2>2, <2>3
<1>4. Behind' /\ Listing'
  BY <1>1, <1>3 DEF IInv, Behind, Listing, Start
<1> QED
  BY <1>2, <1>4 DEF IInv

-----------------------------------------------------------------------------
(* The theorems.                                                           *)

\* The strengthening holds in every state of the walks.
THEOREM Invariance == ASSUME Months PROVE Spec => []IInv
<1>1. Init => IInv
  BY InitIInv
<1>2. IInv /\ [Next]_vars => IInv'
  <2> SUFFICES ASSUME IInv, [Next]_vars PROVE IInv'
    OBVIOUS
  <2>1. CASE CascadeNext
    BY <2>1, StepCascadeNext
  <2>2. CASE CascadeBlocked
    BY <2>2, StepCascadeBlocked
  <2>3. CASE ListNext \/ ListEnds
    BY <2>3, StepList
  <2>4. CASE GivesUp
    BY <2>4, StepGivesUp
  <2>5. CASE UNCHANGED vars
    BY <2>5 DEF vars, IInv, TypeOK, AskOK, Behind, Listing, Start
  <2> QED
    BY <2>1, <2>2, <2>3, <2>4, <2>5 DEF Next
<1> QED
  BY <1>1, <1>2, PTL DEF Spec

\* The walks have their types.
THEOREM TypeCorrect == ASSUME Months PROVE Spec => []TypeOK
<1>1. IInv => TypeOK
  BY DEF IInv
<1> QED
  BY <1>1, Invariance, PTL

\* In a calm zone getPeriodRange yields the local day, week or month of any
\* instant a walk passes, for any calendar, offset and change of the offset.
THEOREM PeriodsAreUnits == ASSUME Months PROVE Spec => []PeriodIsUnit
<1>1. IInv => PeriodIsUnit
  <2> SUFFICES ASSUME IInv, Calm(ask.setting.zone)
               PROVE  RangeIsUnit(cursor, ask.setting)
    BY DEF PeriodIsUnit
  <2> QED
    BY AskTypes, RangeOfUnit DEF IInv, TypeOK
<1> QED
  BY <1>1, Invariance, PTL

\* A submission that buildCascadePlan lets pass in a calm zone has no rejected
\* period before it back to the earliest entry, unless the bound was reached.
THEOREM NoneRejected == ASSUME Months PROVE Spec => []ClearMeansNone
<1>1. IInv => ClearMeansNone
  <2> SUFFICES ASSUME IInv, ask.walk = "cascade", outcome \in {"clear", "stopped"},
                      steps < MaxSteps, Calm(ask.setting.zone),
                      NEW r \in ask.rejected, Start(ask.earliest) <= r
               PROVE  Start(ask.target) <= r
    BY DEF ClearMeansNone
  <2> DEFINE e == Start(ask.earliest)
  <2>1. steps # MaxSteps
    <3>1. steps \in Int /\ MaxSteps \in Int
      BY StepsAssumption DEF IInv, TypeOK
    <3> QED
      BY <3>1
  <2>2. cursor < e /\ (cursor < r => Start(ask.target) <= r)
    BY <2>1 DEF IInv, Behind
  <2>3. cursor \in Int /\ r \in Int /\ e \in Int /\ e <= r
    BY AskTypes, Starts DEF IInv, TypeOK
  <2> HIDE DEF e
  <2>4. cursor < r
    BY <2>2, <2>3
  <2> QED
    BY <2>2, <2>4
<1> QED
  BY <1>1, Invariance, PTL

\* "My submissions" misses no period of its window, for any calendar and any
\* instants, where the steps back are no longer than the local periods.
THEOREM NoneMissed == ASSUME Months PROVE Spec => []ListedAll
<1>1. IInv => ListedAll
  <2> SUFFICES ASSUME IInv, ask.walk = "list", outcome = "clear", StepsFit(ask.setting),
                      NEW t \in Targets, t <= ask.target, ask.earliest <= Start(t)
               PROVE  Start(t) \in seen
    BY DEF ListedAll, WindowSeen
  <2> DEFINE a == Start(cursor)
             b == Start(t)
  <2>1. a < ask.earliest /\ (b \in seen \/ b <= cursor)
    BY DEF IInv, Listing
  <2>2. ask.setting \in Setting /\ Calm(ask.setting.zone) /\ ask.earliest \in Int
        /\ cursor \in Int /\ t \in Int
    BY AskTypes, TargetsAssumption DEF IInv, TypeOK, StepsFit
  <2>3. a \in Int /\ b \in Int /\ ask.earliest <= b
    BY <2>2, Starts DEF IInv
  <2>4. b <= cursor /\ a <= b => a = b
    BY <2>2, NoStartBetween DEF Start
  <2> HIDE DEF a, b
  <2>5. b \in seen
    BY <2>1, <2>2, <2>3, <2>4
  <2> QED
    BY <2>5 DEF b
<1> QED
  BY <1>1, Invariance, PTL
=============================================================================
