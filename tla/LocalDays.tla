------------------------------- MODULE LocalDays -------------------------------
(***************************************************************************)
(* Calendar days of the tenant's time zone as ranges of instants, and the   *)
(* days and weekdays counted back from instants (toDateRange, parseDateInput, *)
(* countWeekdaysInclusive, dayDiff of src/domains/intelligence/helpers.ts).  *)
(* Instants and wall clocks are ticks since the epoch, a Thursday.           *)
(***************************************************************************)
EXTENDS Integers, FiniteSets

CONSTANTS Day,      \* ticks of a day, DAY_MS; the tick stands for the millisecond of "- 1"
          Zones,    \* [before, after, at]: the offset changes at one instant
          LastDay   \* bound of the model: days asked for are 0 .. LastDay

ASSUME DayAssumption == Day \in Nat \ {0} /\ LastDay \in Nat
ASSUME ZonesAssumption == Zones \subseteq [before : Int, after : Int, at : Int]

VARIABLE asked   \* the ranges of days the tools were asked for, with the zone of the call

\* Intl.DateTimeFormat knows the wall clock of an instant.
Offset(zone, instant) == IF instant < zone.at THEN zone.before ELSE zone.after
LocalDate(zone, instant) == (instant + Offset(zone, instant)) \div Day

Weekday(d) == (d + 4) % 7
IsWeekday(d) == Weekday(d) \notin {0, 6}

-----------------------------------------------------------------------------
\* Midnight by the wall clock as an instant: the first estimate of the offset can be
\* from the other side of the change, so that it is taken again where it leads.
MidnightByOneEstimate(zone, d) == LET wallClock == d * Day IN wallClock - Offset(zone, wallClock)
Midnight(zone, d) ==
  LET wallClock == d * Day
      first     == wallClock - Offset(zone, wallClock)
  IN wallClock - Offset(zone, first)

ParseDateInput(zone, d, endOfDay) == IF endOfDay THEN Midnight(zone, d + 1) - 1 ELSE Midnight(zone, d)

WeekdaysByLength(zone, start, end) ==
  Cardinality({d \in (start \div Day) .. (end \div Day) : IsWeekday(d)})
CountWeekdaysInclusive(zone, start, end) ==
  IF end < start THEN 0
  ELSE Cardinality({d \in LocalDate(zone, start) .. LocalDate(zone, end) : IsWeekday(d)})

DayDiff(zone, from, to) ==
  LET between == LocalDate(zone, to) - LocalDate(zone, from) IN IF between < 0 THEN 0 ELSE between

-----------------------------------------------------------------------------
Failed == [start |-> 0, end |-> -1]

\* A range that ends before it starts is an error; toSingleDayRange is the case
\* from = to.
ToDateRange(zone, from, to) ==
  LET start == ParseDateInput(zone, from, FALSE)
      end   == ParseDateInput(zone, to, TRUE)
  IN IF end < start THEN Failed ELSE [start |-> start, end |-> end]

DaysInit == asked = {}

\* A tool computes its range and keeps nothing: one question stands for all.
AskForDays ==
  /\ asked = {}
  /\ \E zone \in Zones, from, to \in 0 .. LastDay : asked' = {[zone |-> zone, from |-> from, to |-> to]}

DaysSpec == DaysInit /\ [][AskForDays]_asked

-----------------------------------------------------------------------------
\* A day that the change of the clock skips or repeats has no midnight, or two.
Midnights(zone, d) == {i \in {d * Day - zone.before, d * Day - zone.after} : i + Offset(zone, i) = d * Day}
HasMidnights(zone) == \A d \in 0 .. LastDay + 1 : \E i \in Midnights(zone, d) : Midnights(zone, d) = {i}

Instants == (-2 * Day) .. ((LastDay + 3) * Day)

\* INVARIANT. Whatever the zone and its daylight saving do, the range asked for has
\* exactly the instants whose local date is one of its days, so that no hour of data
\* is lost between two days or counted in both; and days in the wrong order are
\* refused. (In zones where every day has its midnight, once; toDateRange 364-387,
\* parseDateInput 423-451.)
RangeHoldsItsDays ==
  \A q \in asked : HasMidnights(q.zone) =>
    LET range == ToDateRange(q.zone, q.from, q.to)
    IN \A i \in Instants : i \in range.start .. range.end <=> LocalDate(q.zone, i) \in q.from .. q.to

\* INVARIANT. The days and weekdays a tool divides by are those of the days asked for
\* (countWeekdaysInclusive 574-594, dayDiff 596-602).
CountsAsAsked ==
  \A q \in asked : HasMidnights(q.zone) /\ q.from <= q.to =>
    LET range == ToDateRange(q.zone, q.from, q.to)
    IN /\ CountWeekdaysInclusive(q.zone, range.start, range.end)
            = Cardinality({d \in q.from .. q.to : IsWeekday(d)})
       /\ DayDiff(q.zone, range.start, range.end) = q.to - q.from
=============================================================================
