--------------------------- MODULE BillingPeriods ---------------------------
(****************************************************************************)
(* The monthly periods of a subscription, counted from its activation:      *)
(* billingPeriod, and meterWindow, which moves a period to whole minutes.   *)
(* A calendar is a sequence of months with their days; time is counted in   *)
(* ticks from its beginning.  Months are shorter and a minute is fewer      *)
(* ticks than in the world; what matters is that months differ in length    *)
(* and that an anniversary need not fall on a whole minute, nor on a whole  *)
(* second: DataVault keeps its milliseconds, Stripe does not.               *)
(****************************************************************************)
EXTENDS Integers, Sequences

CONSTANTS
  MonthDays,  \* days of each month of the calendar
  DayTicks,   \* ticks of a day
  Minute,     \* ticks of a minute
  Second,     \* ticks of a second
  AnchorDay,  \* day of the month of the activation, which is in month 1
  AnchorTime  \* its tick of the day

ASSUME CalendarAssumption ==
  /\ MonthDays \in Seq(Nat \ {0}) /\ Len(MonthDays) >= 2
  /\ {DayTicks, Minute, Second} \subseteq Nat \ {0}
  /\ Second <= Minute /\ Minute % Second = 0
  /\ AnchorDay \in 1..MonthDays[1] /\ AnchorTime \in 0..(DayTicks - 1)

Months == 1..Len(MonthDays)

DaysBefore[m \in 1..(Len(MonthDays) + 1)] ==
  IF m = 1 THEN 0 ELSE DaysBefore[m - 1] + MonthDays[m - 1]

MonthOf(t) ==
  CHOOSE m \in Months : /\ DaysBefore[m] * DayTicks <= t
                        /\ t < DaysBefore[m + 1] * DayTicks

Smaller(a, b) == IF a < b THEN a ELSE b
Larger(a, b) == IF a < b THEN b ELSE a

\* Wrong: the short month's day is kept for the months after it.
BoundaryDrifting(m) ==
  (DaysBefore[m] + Smaller(AnchorDay, Smaller(MonthDays[m],
      IF m = 1 THEN AnchorDay ELSE MonthDays[m - 1])) - 1) * DayTicks + AnchorTime

\* The anniversary in a month: the original day, or the last one there is.
Boundary(m) ==
  (DaysBefore[m] + Smaller(AnchorDay, MonthDays[m]) - 1) * DayTicks + AnchorTime

Activation == Boundary(1)

\* The month whose anniversary begins the period of t.
PeriodOf(t) == IF Boundary(MonthOf(t)) > t THEN MonthOf(t) - 1 ELSE MonthOf(t)
StartsAt(m) == Boundary(m)
EndsAt(m) == Boundary(m + 1)

CeilMinute(t) == ((t + Minute - 1) \div Minute) * Minute
FloorMinute(t) == (t \div Minute) * Minute
FloorSecond(t) == (t \div Second) * Second

\* meterWindow
WindowStart(m) == CeilMinute(StartsAt(m))
WindowEnd(m) == CeilMinute(EndsAt(m))

\* Stripe's period runs between the same anniversaries in whole seconds, which is
\* what an invoice line says of itself; the server moves it to whole minutes too.
RemoteEnd(m) == FloorSecond(EndsAt(m))
LineStart(m) == CeilMinute(FloorSecond(StartsAt(m)))
LineEnd(m) == CeilMinute(RemoteEnd(m))
=============================================================================
