---------------------------- MODULE MCPeriodWalks ----------------------------
(***************************************************************************)
(* Instances of PeriodWalks around 1 March 1970, a Sunday, on which the    *)
(* zones change their clocks.                                              *)
(***************************************************************************)
EXTENDS PeriodWalks

March1 == 59
Hour   == 4
Zone(from, to, at) == [from |-> from, to |-> to, at |-> March1 * Day + at]

UTC         == Zone(0, 0, 0)
Colombo     == Zone(22, 22, 0)
NewYork     == Zone(-5 * Hour, -4 * Hour, 7 * Hour)
NewYorkBack == Zone(-4 * Hour, -5 * Hour, 6 * Hour)
BerlinBack  == Zone(2 * Hour, Hour, Hour)
Sydney      == Zone(10 * Hour, 11 * Hour, -8 * Hour)
SydneyBack  == Zone(11 * Hour, 10 * Hour, -8 * Hour)
Cairo       == Zone(2 * Hour, 3 * Hour, -2 * Hour)

AllZones == {UTC, Colombo, NewYork, NewYorkBack, BerlinBack, Sydney, SydneyBack, Cairo}

FirstDays == {-92, -61, -31, 0, 31, 59, 90, 120}

\* Dates around the change and the ends of the months, at UTC times of day on
\* both sides of the local midnights.
Instants == {d * Day + h : d \in {27, 31, 58, 59, 60, 65, 89}, h \in {1, 20 * Hour}}
=============================================================================
