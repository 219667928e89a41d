-------------------------- MODULE StripeUsageProofs --------------------------
(****************************************************************************)
(* The outbox of charged uploads, for every calendar, number of callers and *)
(* of uploads, and the periods the rows are charged to.                     *)
(****************************************************************************)
EXTENDS StripeUsage, NaturalSets, FiniteSetTheorems, TLAPS

------------------------------------------------------------------------------
(* The calendar.                                                             *)

\* The days before a month are the sum of the months before it.
SumsUpTo(f, n) ==
  f = [m \in 1..n |-> IF m = 1 THEN 0 ELSE f[m - 1] + MonthDays[m - 1]]

LEMMA SumsExist == \A n \in Nat : \E f : SumsUpTo(f, n)
<1> DEFINE K == {n \in Nat : \E f : SumsUpTo(f, n)}
<1>1. 0 \in K
  <2> DEFINE f == [m \in 1..0 |-> 0]
  <2>1. SumsUpTo(f, 0)
    BY DEF SumsUpTo
  <2> QED BY <2>1
<1>2. ASSUME NEW n \in K PROVE n + 1 \in K
  <2>1. PICK f : SumsUpTo(f, n)
    OBVIOUS
  <2> DEFINE g == [m \in 1..(n + 1) |->
                     IF m = 1 THEN 0 ELSE f[m - 1] + MonthDays[m - 1]]
  <2>2. \A m \in 1..n : g[m] = f[m]
    BY <2>1 DEF SumsUpTo
  <2>3. \A m \in 1..(n + 1) : m = 1 \/ g[m - 1] = f[m - 1]
    <3>1. \A m \in 1..(n + 1) : m = 1 \/ m - 1 \in 1..n
      OBVIOUS
    <3> QED BY <2>2, <3>1
  <2>4. g = [m \in 1..(n + 1) |-> IF m = 1 THEN 0 ELSE g[m - 1] + MonthDays[m - 1]]
    <3> HIDE DEF g
    <3>1. g = [m \in 1..(n + 1) |-> IF m = 1 THEN 0 ELSE f[m - 1] + MonthDays[m - 1]]
      BY DEF g
    <3> QED BY <2>3, <3>1
  <2>5. SumsUpTo(g, n + 1)
    BY <2>4 DEF SumsUpTo
  <2> QED BY <2>5
<1> HIDE DEF K
<1>3. Nat \subseteq K
  BY <1>1, <1>2, NatSetInduction
<1> QED BY <1>3 DEF K

LEMMA DaysBeforeIsSum ==
  /\ DaysBefore[1] = 0
  /\ \A m \in Months : DaysBefore[m + 1] = DaysBefore[m] + MonthDays[m]
<1>1. Len(MonthDays) \in Nat
  BY CalendarAssumption
<1>2. \E f : SumsUpTo(f, Len(MonthDays) + 1)
  BY <1>1, SumsExist
<1>3. DaysBefore = CHOOSE f :
        f = [m \in 1..(Len(MonthDays) + 1) |-> IF m = 1 THEN 0 ELSE f[m - 1] + MonthDays[m - 1]]
  BY DEF DaysBefore
<1>4. SumsUpTo(DaysBefore, Len(MonthDays) + 1)
  BY <1>2, <1>3 DEF SumsUpTo
<1>5. \A m \in 1..(Len(MonthDays) + 1) :
        DaysBefore[m] = IF m = 1 THEN 0 ELSE DaysBefore[m - 1] + MonthDays[m - 1]
  BY <1>4 DEF SumsUpTo
<1>6. DaysBefore[1] = 0
  BY <1>1, <1>5
<1>7. ASSUME NEW m \in Months PROVE DaysBefore[m + 1] = DaysBefore[m] + MonthDays[m]
  <2>1. m + 1 \in 1..(Len(MonthDays) + 1) /\ m + 1 # 1 /\ (m + 1) - 1 = m
    BY <1>1 DEF Months
  <2> QED BY <2>1, <1>5
<1> QED BY <1>6, <1>7

\* Whole days, in ticks.
MonthBegins(m) == DaysBefore[m] * DayTicks

LEMMA TimesGrows ==
  ASSUME NEW a \in Int, NEW b \in Int, NEW d \in Nat, a <= b PROVE a * d <= b * d
<1>1. b - a \in Nat
  OBVIOUS
<1>2. \A e \in Nat : e * d \in Nat
  OBVIOUS
<1>3. (b - a) * d \in Nat /\ b * d = a * d + (b - a) * d /\ a * d \in Int
  BY <1>1, <1>2
<1> QED BY <1>3

LEMMA CalendarTypes ==
  /\ Len(MonthDays) \in Nat /\ Len(MonthDays) >= 2
  /\ DayTicks \in Nat /\ DayTicks >= 1 /\ Minute \in Nat /\ Minute >= 1
  /\ Second \in Nat /\ Second >= 1 /\ Second <= Minute
  /\ AnchorDay \in Nat /\ AnchorDay >= 1
  /\ AnchorTime \in Nat /\ AnchorTime < DayTicks
  /\ \A m \in Months : MonthDays[m] \in Nat /\ MonthDays[m] >= 1
  /\ AnchorDay <= MonthDays[1]
<1>1. Len(MonthDays) \in Nat /\ Len(MonthDays) >= 2 /\ 1 \in Months
  BY CalendarAssumption DEF Months
<1>2. \A m \in Months : MonthDays[m] \in Nat \ {0}
  BY CalendarAssumption DEF Months
<1>3. /\ DayTicks \in Nat \ {0} /\ Minute \in Nat \ {0}
      /\ Second \in Nat \ {0} /\ Second <= Minute
  BY CalendarAssumption
<1>4. AnchorDay \in 1..MonthDays[1] /\ AnchorTime \in 0..(DayTicks - 1)
  BY CalendarAssumption
<1> QED BY <1>1, <1>2, <1>3, <1>4

LEMMA DaysAreNatural == \A m \in 1..(Len(MonthDays) + 1) : DaysBefore[m] \in Nat
<1> DEFINE K == {n \in Nat : n \in Months => DaysBefore[n + 1] \in Nat}
<1>1. 0 \in K
  BY DEF Months
<1>2. ASSUME NEW n \in Nat, n \in K PROVE n + 1 \in K
  <2> SUFFICES ASSUME n + 1 \in Months PROVE DaysBefore[(n + 1) + 1] \in Nat
    OBVIOUS
  <2>1. DaysBefore[n + 1] \in Nat
    <3>1. CASE n = 0
      BY <3>1, DaysBeforeIsSum
    <3>2. CASE n # 0
      BY <1>2, <3>2, CalendarTypes DEF Months
    <3> QED BY <3>1, <3>2
  <2> QED BY <2>1, DaysBeforeIsSum, CalendarTypes
<1> HIDE DEF K
<1>3. Nat \subseteq K
  BY <1>1, <1>2, NatSetInduction
<1>4. ASSUME NEW m \in 1..(Len(MonthDays) + 1) PROVE DaysBefore[m] \in Nat
  <2>1. CASE m = 1
    BY <2>1, DaysBeforeIsSum
  <2>2. CASE m # 1
    <3>1. m - 1 \in Months /\ m - 1 \in Nat /\ (m - 1) + 1 = m
      BY <2>2, CalendarTypes DEF Months
    <3> QED BY <3>1, <1>3 DEF K
  <2> QED BY <2>1, <2>2
<1> QED BY <1>4

\* Each month begins when the one before it ends, and is not empty.
LEMMA MonthsFollow ==
  /\ MonthBegins(1) = 0
  /\ \A m \in 1..(Len(MonthDays) + 1) : MonthBegins(m) \in Nat
  /\ \A m \in Months : /\ MonthBegins(m + 1) = MonthBegins(m) + MonthDays[m] * DayTicks
                       /\ MonthBegins(m) < MonthBegins(m + 1)
<1>1. MonthBegins(1) = 0
  BY DaysBeforeIsSum, CalendarTypes DEF MonthBegins
<1>2. ASSUME NEW m \in 1..(Len(MonthDays) + 1) PROVE MonthBegins(m) \in Nat
  BY DaysAreNatural, CalendarTypes DEF MonthBegins
<1>3. ASSUME NEW m \in Months
      PROVE  /\ MonthBegins(m + 1) = MonthBegins(m) + MonthDays[m] * DayTicks
             /\ MonthBegins(m) < MonthBegins(m + 1)
  <2>1. m \in 1..(Len(MonthDays) + 1)
    BY CalendarTypes DEF Months
  <2>2. DaysBefore[m] \in Nat /\ MonthDays[m] \in Nat /\ MonthDays[m] >= 1
    BY <2>1, DaysAreNatural, CalendarTypes
  <2>3. DaysBefore[m + 1] * DayTicks = DaysBefore[m] * DayTicks + MonthDays[m] * DayTicks
    BY <2>2, DaysBeforeIsSum, CalendarTypes
  <2>4. 1 * DayTicks <= MonthDays[m] * DayTicks
    BY <2>2, TimesGrows, CalendarTypes
  <2>5. DaysBefore[m] * DayTicks \in Nat /\ MonthDays[m] * DayTicks \in Nat
    BY <2>2, CalendarTypes
  <2> QED BY <2>3, <2>4, <2>5, CalendarTypes DEF MonthBegins
<1> QED BY <1>1, <1>2, <1>3

\* A month ends before any later one begins.
LEMMA LaterMonthsBeginLater ==
  ASSUME NEW i \in Months
  PROVE  \A j \in 1..(Len(MonthDays) + 1) : i < j => MonthBegins(i + 1) <= MonthBegins(j)
<1> DEFINE K == {n \in Nat : (i + 1) + n \in 1..(Len(MonthDays) + 1) =>
                             MonthBegins(i + 1) <= MonthBegins((i + 1) + n)}
<1>1. i \in Nat /\ i + 1 \in 1..(Len(MonthDays) + 1)
  BY CalendarTypes DEF Months
<1>2. 0 \in K
  <2>1. MonthBegins(i + 1) \in Nat /\ (i + 1) + 0 = i + 1
    BY <1>1, MonthsFollow
  <2> QED BY <2>1
<1>3. ASSUME NEW n \in Nat, n \in K PROVE n + 1 \in K
  <2> DEFINE m == (i + 1) + n
  <2> SUFFICES ASSUME (i + 1) + (n + 1) \in 1..(Len(MonthDays) + 1)
               PROVE  MonthBegins(i + 1) <= MonthBegins((i + 1) + (n + 1))
    OBVIOUS
  <2>1. m \in Months /\ m \in 1..(Len(MonthDays) + 1) /\ (i + 1) + (n + 1) = m + 1
    BY <1>1, CalendarTypes DEF Months
  <2>2. MonthBegins(i + 1) <= MonthBegins(m)
    BY <1>3, <2>1
  <2>3. /\ MonthBegins(i + 1) \in Nat /\ MonthBegins(m) \in Nat /\ MonthBegins(m + 1) \in Nat
        /\ MonthBegins(m) < MonthBegins(m + 1)
    <3>1. m + 1 \in 1..(Len(MonthDays) + 1)
      BY <2>1
    <3> HIDE DEF m
    <3> QED BY <1>1, <2>1, <3>1, MonthsFollow
  <2> HIDE DEF m
  <2> QED BY <2>1, <2>2, <2>3
<1> HIDE DEF K
<1>4. Nat \subseteq K
  BY <1>2, <1>3, NatSetInduction
<1>5. ASSUME NEW j \in 1..(Len(MonthDays) + 1), i < j
      PROVE  MonthBegins(i + 1) <= MonthBegins(j)
  <2>1. j - (i + 1) \in Nat /\ (i + 1) + (j - (i + 1)) = j
    BY <1>1, <1>5
  <2>2. j - (i + 1) \in K
    BY <1>4, <2>1
  <2> QED BY <2>1, <2>2 DEF K
<1> QED BY <1>5

\* Each moment of the calendar lies in one month.
LEMMA MonthOfIs ==
  ASSUME NEW t \in Nat, NEW m \in Months, MonthBegins(m) <= t, t < MonthBegins(m + 1)
  PROVE  MonthOf(t) = m
<1> DEFINE In(n) == DaysBefore[n] * DayTicks <= t /\ t < DaysBefore[n + 1] * DayTicks
<1>1. In(m)
  BY DEF MonthBegins
<1>2. ASSUME NEW n \in Months, In(n) PROVE n = m
  <2>1. MonthBegins(n) <= t /\ t < MonthBegins(n + 1)
    BY <1>2 DEF MonthBegins
  <2>2. /\ n \in Nat /\ m \in Nat
        /\ {n, m, n + 1, m + 1} \subseteq 1..(Len(MonthDays) + 1)
    BY CalendarTypes DEF Months
  <2>3. /\ MonthBegins(n) \in Nat /\ MonthBegins(m) \in Nat
        /\ MonthBegins(n + 1) \in Nat /\ MonthBegins(m + 1) \in Nat
    BY <2>2, MonthsFollow
  <2>4. ~ (n < m)
    <3>1. n < m => MonthBegins(n + 1) <= MonthBegins(m)
      BY <2>2, LaterMonthsBeginLater
    <3> QED BY <2>1, <2>3, <3>1
  <2>5. ~ (m < n)
    <3>1. m < n => MonthBegins(m + 1) <= MonthBegins(n)
      BY <2>2, LaterMonthsBeginLater
    <3> QED BY <2>1, <2>3, <3>1
  <2> QED BY <2>2, <2>4, <2>5
<1>3. MonthOf(t) = CHOOSE n \in Months : In(n)
  BY DEF MonthOf
<1> HIDE DEF In
<1> QED BY <1>1, <1>2, <1>3

LEMMA EachMomentHasItsMonth ==
  ASSUME NEW t \in Nat, t < MonthBegins(Len(MonthDays) + 1)
  PROVE  \E m \in Months : MonthBegins(m) <= t /\ t < MonthBegins(m + 1)
<1> DEFINE K == {k \in Nat : k \in 1..(Len(MonthDays) + 1) /\ t < MonthBegins(k)}
<1>1. Len(MonthDays) + 1 \in K
  BY CalendarTypes
<1> HIDE DEF K
<1>2. K \in SUBSET Nat
  BY DEF K
<1>3. PICK k \in K : \A j \in K : k <= j
  BY <1>1, <1>2, LeastElement
<1>4. k \in Nat /\ k \in 1..(Len(MonthDays) + 1) /\ t < MonthBegins(k)
  BY <1>3 DEF K
<1>5. k # 1
  BY <1>4, MonthsFollow
<1>6. /\ k - 1 \in Months /\ k - 1 \in Nat /\ (k - 1) + 1 = k
      /\ k - 1 \in 1..(Len(MonthDays) + 1)
  BY <1>4, <1>5, CalendarTypes DEF Months
<1>7. k - 1 \notin K
  BY <1>3, <1>6
<1>8. MonthBegins(k - 1) \in Nat
  BY <1>6, MonthsFollow
<1>9. MonthBegins(k - 1) <= t
  BY <1>6, <1>7, <1>8 DEF K
<1> QED BY <1>4, <1>6, <1>9

\* The anniversary of a month lies in it: on the original day, or the last one.
LEMMA AnniversaryInItsMonth ==
  ASSUME NEW m \in Months
  PROVE  /\ Boundary(m) \in Nat
         /\ MonthBegins(m) <= Boundary(m) /\ Boundary(m) < MonthBegins(m + 1)
<1> DEFINE day == Smaller(AnchorDay, MonthDays[m])
<1>1. day \in Nat /\ 1 <= day /\ day <= MonthDays[m] /\ MonthDays[m] \in Nat
  BY CalendarTypes DEF Smaller
<1>2. /\ DaysBefore[m] \in Nat /\ MonthBegins(m) \in Nat
      /\ MonthBegins(m + 1) = MonthBegins(m) + MonthDays[m] * DayTicks
  <2>1. m \in 1..(Len(MonthDays) + 1)
    BY CalendarTypes DEF Months
  <2> QED BY <2>1, DaysAreNatural, MonthsFollow
<1>3. Boundary(m) = (DaysBefore[m] + (day - 1)) * DayTicks + AnchorTime
  BY DEF Boundary
<1> HIDE DEF day
<1>4. PICK n \in Nat : n = day - 1
  BY <1>1
<1>5. (DaysBefore[m] + (day - 1)) * DayTicks = MonthBegins(m) + n * DayTicks
  <2>1. (DaysBefore[m] + n) * DayTicks = DaysBefore[m] * DayTicks + n * DayTicks
    BY <1>2, CalendarTypes
  <2> QED BY <1>4, <2>1 DEF MonthBegins
<1>6. n * DayTicks + DayTicks <= MonthDays[m] * DayTicks
  <2>1. (n + 1) * DayTicks <= MonthDays[m] * DayTicks
    BY <1>1, <1>4, TimesGrows, CalendarTypes
  <2>2. (n + 1) * DayTicks = n * DayTicks + DayTicks
    BY CalendarTypes
  <2> QED BY <2>1, <2>2
<1>7. n * DayTicks \in Nat /\ MonthDays[m] * DayTicks \in Nat
  BY <1>1, CalendarTypes
<1>8. Boundary(m) = (MonthBegins(m) + n * DayTicks) + AnchorTime
  BY <1>3, <1>5
<1>9. PICK a \in Nat, b \in Nat : a = n * DayTicks /\ b = MonthDays[m] * DayTicks
  BY <1>7
<1>10. /\ a + DayTicks <= b /\ Boundary(m) = (MonthBegins(m) + a) + AnchorTime
       /\ MonthBegins(m + 1) = MonthBegins(m) + b
  BY <1>2, <1>6, <1>8, <1>9
<1>11. PICK k \in Nat : k = MonthBegins(m)
  BY <1>2
<1>12. /\ DayTicks \in Nat /\ AnchorTime \in Nat /\ AnchorTime < DayTicks
       /\ a + DayTicks <= b /\ Boundary(m) = (k + a) + AnchorTime
       /\ MonthBegins(m) = k /\ MonthBegins(m + 1) = k + b
  BY <1>10, <1>11, CalendarTypes
<1> QED BY <1>12

\* From the activation to the last anniversary, each moment lies in one period, and
\* the next one begins where it ends (billingPeriod).
LEMMA PeriodHoldsItsMoments ==
  ASSUME NEW t \in Nat, Activation <= t, t < Boundary(Len(MonthDays))
  PROVE  LET m == PeriodOf(t) IN
         /\ m \in Months /\ m + 1 \in Months
         /\ StartsAt(m) <= t /\ t < EndsAt(m) /\ PeriodOf(EndsAt(m)) = m + 1
<1>1. /\ Len(MonthDays) \in Months /\ 1 \in Months
      /\ Len(MonthDays) + 1 \in 1..(Len(MonthDays) + 1)
  BY CalendarTypes DEF Months
<1>2. t < MonthBegins(Len(MonthDays) + 1)
  BY <1>1, AnniversaryInItsMonth, MonthsFollow
<1>3. PICK h \in Months : MonthBegins(h) <= t /\ t < MonthBegins(h + 1)
  BY <1>2, EachMomentHasItsMonth
<1>4. MonthOf(t) = h
  BY <1>3, MonthOfIs
<1>5. h \in Nat /\ h \in 1..(Len(MonthDays) + 1) /\ h + 1 \in 1..(Len(MonthDays) + 1)
  BY CalendarTypes DEF Months
<1>6. ASSUME NEW n \in Months, PeriodOf(t) = n, n + 1 \in Months,
             Boundary(n) <= t, t < Boundary(n + 1)
      PROVE  LET m == PeriodOf(t) IN
             /\ m \in Months /\ m + 1 \in Months
             /\ StartsAt(m) <= t /\ t < EndsAt(m) /\ PeriodOf(EndsAt(m)) = m + 1
  <2>1. MonthOf(Boundary(n + 1)) = n + 1
    BY <1>6, AnniversaryInItsMonth, MonthOfIs
  <2>2. ~ (Boundary(n + 1) > Boundary(n + 1))
    BY <1>6, AnniversaryInItsMonth
  <2>3. PeriodOf(Boundary(n + 1)) = n + 1
    BY <2>1, <2>2 DEF PeriodOf
  <2> QED BY <1>6, <2>3 DEF StartsAt, EndsAt
<1>7. CASE Boundary(h) > t
  <2>1. h # 1
    BY <1>1, <1>7, AnniversaryInItsMonth DEF Activation
  <2>2. h - 1 \in Months /\ (h - 1) + 1 = h
    BY <1>5, <2>1, CalendarTypes DEF Months
  <2>3. PeriodOf(t) = h - 1
    BY <1>4, <1>7 DEF PeriodOf
  <2>4. Boundary(h - 1) \in Nat /\ Boundary(h - 1) < MonthBegins(h) /\ MonthBegins(h) \in Nat
    BY <1>5, <2>2, AnniversaryInItsMonth, MonthsFollow
  <2>5. Boundary(h - 1) <= t /\ t < Boundary((h - 1) + 1)
    BY <1>3, <1>7, <2>2, <2>4, AnniversaryInItsMonth
  <2> QED BY <2>2, <2>3, <2>5, <1>6
<1>8. CASE ~ (Boundary(h) > t)
  <2>1. PeriodOf(t) = h /\ Boundary(h) <= t
    BY <1>4, <1>8, AnniversaryInItsMonth DEF PeriodOf
  <2>2. h # Len(MonthDays)
    BY <1>1, <2>1, AnniversaryInItsMonth
  <2>3. h + 1 \in Months
    BY <1>5, <2>2, CalendarTypes DEF Months
  <2>4. Boundary(h + 1) \in Nat /\ MonthBegins(h + 1) <= Boundary(h + 1)
        /\ MonthBegins(h + 1) \in Nat
    BY <1>5, <2>3, AnniversaryInItsMonth, MonthsFollow
  <2> QED BY <1>3, <1>6, <2>1, <2>3, <2>4
<1> QED BY <1>7, <1>8

LEMMA TimeIsInCalendar ==
  ASSUME NEW t \in Activation..MaxTime
  PROVE  t \in Nat /\ Activation \in Nat /\ Activation <= t /\ t < Boundary(Len(MonthDays))
<1>1. Activation \in Nat /\ Boundary(Len(MonthDays)) \in Nat
  <2>1. 1 \in Months /\ Len(MonthDays) \in Months
    BY CalendarTypes DEF Months
  <2> QED BY <2>1, AnniversaryInItsMonth DEF Activation
<1>2. MaxTime \in Nat
  BY UsageBounds
<1> QED BY <1>1, <1>2, CalendarIsLongEnough

\* Rounding down to whole steps, by less than a step.
LEMMA Rounding ==
  ASSUME NEW t \in Int, NEW d \in Nat, d >= 1
  PROVE  /\ (t \div d) * d \in Int
         /\ (t \div d) * d <= t /\ t < (t \div d) * d + d
<1>1. PICK k \in Int, l \in Int : k = t \div d /\ l = t % d
  OBVIOUS
<1>2. t = d * k + l /\ 0 <= l /\ l < d
  BY <1>1
<1>3. d * k = k * d /\ k * d \in Int
  BY SMT
<1> QED BY <1>1, <1>2, <1>3

LEMMA RoundingDown ==
  ASSUME NEW t \in Int
  PROVE  /\ FloorMinute(t) \in Int /\ FloorMinute(t) <= t
         /\ FloorSecond(t) \in Int /\ FloorSecond(t) <= t /\ t < FloorSecond(t) + Second
  BY Rounding, CalendarTypes DEF FloorMinute, FloorSecond

LEMMA RoundingUp ==
  ASSUME NEW t \in Int
  PROVE  CeilMinute(t) \in Int /\ t <= CeilMinute(t) /\ CeilMinute(t) < t + Minute
<1>1. PICK a \in Int : a = t + Minute - 1
  BY CalendarTypes
<1>2. PICK b \in Int : b = (a \div Minute) * Minute /\ b <= a /\ a < b + Minute
  BY Rounding, CalendarTypes
<1>3. CeilMinute(t) = b
  BY <1>1, <1>2 DEF CeilMinute
<1> QED BY <1>1, <1>2, <1>3, CalendarTypes

\* A moment on a whole minute.
OnMinute(t) == \E k \in Int : t = k * Minute

LEMMA RoundedIsOnMinute ==
  ASSUME NEW t \in Int PROVE OnMinute(CeilMinute(t)) /\ OnMinute(FloorMinute(t))
<1>1. t \div Minute \in Int /\ (t + Minute - 1) \div Minute \in Int
  BY CalendarTypes
<1> QED BY <1>1 DEF OnMinute, CeilMinute, FloorMinute

\* Two whole minutes less than a minute apart are the same.
LEMMA NextMinuteIsFar ==
  ASSUME NEW a \in Int, NEW b \in Int, OnMinute(a), OnMinute(b), a <= b, b < a + Minute
  PROVE  a = b
<1>1. PICK i \in Int, j \in Int : a = i * Minute /\ b = j * Minute
  BY DEF OnMinute
<1>2. ~ (i + 1 <= j)
  <2> SUFFICES ASSUME i + 1 <= j PROVE FALSE
    OBVIOUS
  <2>1. (i + 1) * Minute <= j * Minute
    BY TimesGrows, CalendarTypes
  <2>2. (i + 1) * Minute = i * Minute + Minute
    BY CalendarTypes
  <2> QED BY <1>1, <2>1, <2>2, CalendarTypes
<1>3. ~ (j + 1 <= i)
  <2> SUFFICES ASSUME j + 1 <= i PROVE FALSE
    OBVIOUS
  <2>1. (j + 1) * Minute <= i * Minute
    BY TimesGrows, CalendarTypes
  <2>2. (j + 1) * Minute = j * Minute + Minute
    BY CalendarTypes
  <2> QED BY <1>1, <2>1, <2>2, CalendarTypes
<1> QED BY <1>1, <1>2, <1>3

\* Stripe's line begins no later than DataVault's window and ends at most a minute
\* before it, and each is longer than a minute.
LEMMA LineAndWindow ==
  ASSUME NEW m \in Months, m + 1 \in Months
  PROVE  /\ {WindowStart(m), WindowEnd(m), LineStart(m), LineEnd(m), RemoteEnd(m)} \subseteq Int
         /\ OnMinute(WindowStart(m)) /\ OnMinute(WindowEnd(m)) /\ OnMinute(LineEnd(m))
         /\ LineStart(m) <= WindowStart(m) /\ WindowStart(m) < LineEnd(m)
         /\ RemoteEnd(m) <= LineEnd(m) /\ WindowEnd(m) <= LineEnd(m) + Minute
<1>1. PICK a \in Int, b \in Int : a = StartsAt(m) /\ b = EndsAt(m) /\ b - a >= 2 * Minute
  BY AnniversaryInItsMonth, CalendarIsLongEnough DEF StartsAt, EndsAt
<1>2. PICK c \in Int, d \in Int :
        /\ c = FloorSecond(a) /\ d = FloorSecond(b)
        /\ c <= a /\ a < c + Second /\ d <= b /\ b < d + Second
  BY RoundingDown
<1>3. /\ WindowStart(m) = CeilMinute(a) /\ WindowEnd(m) = CeilMinute(b)
      /\ LineStart(m) = CeilMinute(c) /\ LineEnd(m) = CeilMinute(d) /\ RemoteEnd(m) = d
  BY <1>1, <1>2 DEF WindowStart, WindowEnd, LineStart, LineEnd, RemoteEnd
<1>4. /\ CeilMinute(a) \in Int /\ a <= CeilMinute(a) /\ CeilMinute(a) < a + Minute
      /\ CeilMinute(b) \in Int /\ b <= CeilMinute(b) /\ CeilMinute(b) < b + Minute
      /\ CeilMinute(c) \in Int /\ c <= CeilMinute(c) /\ CeilMinute(c) < c + Minute
      /\ CeilMinute(d) \in Int /\ d <= CeilMinute(d) /\ CeilMinute(d) < d + Minute
  BY RoundingUp
<1>5. /\ OnMinute(CeilMinute(a)) /\ OnMinute(CeilMinute(b))
      /\ OnMinute(CeilMinute(c)) /\ OnMinute(CeilMinute(d))
  BY RoundedIsOnMinute
<1>6. /\ Minute \in Nat /\ Minute >= 1 /\ Second \in Nat /\ Second <= Minute
  BY CalendarTypes
<1>7. CeilMinute(c) <= CeilMinute(a)
  <2>1. CeilMinute(a) <= CeilMinute(c) => CeilMinute(a) = CeilMinute(c)
    <3>1. CeilMinute(c) < CeilMinute(a) + Minute
      BY <1>2, <1>4, <1>6
    <3> QED BY <1>4, <1>5, <3>1, NextMinuteIsFar
  <2> QED BY <1>4, <2>1
<1>8. CeilMinute(a) < CeilMinute(d)
  BY <1>1, <1>2, <1>4, <1>6
<1>9. CeilMinute(b) <= CeilMinute(d) + Minute
  <2>1. PICK e \in Int : e = CeilMinute(d) + Minute
    BY <1>4, <1>6
  <2>2. OnMinute(e)
    <3>1. PICK k \in Int : CeilMinute(d) = k * Minute
      BY <1>5 DEF OnMinute
    <3>2. (k + 1) * Minute = k * Minute + Minute
      BY <1>6
    <3> QED BY <2>1, <3>1, <3>2 DEF OnMinute
  <2>3. CeilMinute(b) < e + Minute
    BY <1>2, <1>4, <1>6, <2>1
  <2>4. e <= CeilMinute(b) => e = CeilMinute(b)
    BY <1>4, <1>5, <2>2, <2>3, NextMinuteIsFar
  <2> QED BY <1>4, <2>1, <2>4
<1> QED BY <1>2, <1>3, <1>4, <1>5, <1>7, <1>8, <1>9

\* The meter event of an upload is timed within the line of its period, or in the
\* first minute after it if the upload or the meter began there.
LEMMA TimestampIsInLine ==
  ASSUME NEW at \in Activation..MaxTime, meterFrom \in Int,
         NEW m, m = PeriodOf(at), Timestamp(at) < WindowEnd(m)
  PROVE  /\ m \in Months /\ Timestamp(at) \in Int
         /\ LineStart(m) <= Timestamp(at)
         /\ \/ Timestamp(at) < LineEnd(m)
            \/ /\ Timestamp(at) = LineEnd(m)
               /\ at >= RemoteEnd(m) \/ CeilMinute(meterFrom) >= LineEnd(m)
<1>1. m \in Months /\ m + 1 \in Months /\ at \in Nat
  BY TimeIsInCalendar, PeriodHoldsItsMoments
<1>2. PICK s, e, ls, le, re \in Int :
        /\ s = WindowStart(m) /\ e = WindowEnd(m) /\ ls = LineStart(m) /\ le = LineEnd(m)
        /\ re = RemoteEnd(m) /\ OnMinute(s) /\ OnMinute(e) /\ OnMinute(le)
        /\ ls <= s /\ s < le /\ re <= le /\ e <= le + Minute
  BY <1>1, LineAndWindow
<1>3. PICK f, c \in Int :
        /\ f = FloorMinute(at) /\ f <= at /\ OnMinute(f)
        /\ c = CeilMinute(meterFrom) /\ OnMinute(c)
  BY <1>1, RoundingDown, RoundingUp, RoundedIsOnMinute
<1>4. PICK g \in Int : g = e - Minute /\ OnMinute(g)
  <2>1. PICK k \in Int : e = k * Minute
    BY <1>2 DEF OnMinute
  <2>2. (k - 1) * Minute = k * Minute - Minute /\ (k - 1) * Minute \in Int
    BY CalendarTypes
  <2> QED BY <2>1, <2>2 DEF OnMinute
<1>5. Timestamp(at) = Larger(s, Larger(c, Smaller(f, g)))
  BY <1>2, <1>3, <1>4 DEF Timestamp
<1>6. PICK x \in Int : /\ x = Timestamp(at) /\ s <= x
                       /\ x \in {s, c} \/ (x = f \/ (x = g /\ g <= f))
  BY <1>5 DEF Larger, Smaller
<1>7. OnMinute(x)
  BY <1>2, <1>3, <1>4, <1>6
<1>8. le <= x => x = le
  <2>1. x < le + Minute
    BY <1>2, <1>6, CalendarTypes
  <2> QED BY <1>2, <1>7, <2>1, NextMinuteIsFar
<1>9. le <= x => at >= re \/ c >= le
  <2>1. le <= x => x # s
    BY <1>2
  <2>2. le <= x /\ x # c => x <= f
    BY <1>6, <2>1
  <2> QED BY <1>1, <1>2, <1>3, <1>6, <2>2
<1> QED BY <1>1, <1>2, <1>3, <1>6, <1>8, <1>9

LEMMA ClockTiles ==
  ASSUME OutboxTypes PROVE PeriodsTile
<1>1. clock \in Activation..MaxTime
  BY DEF OutboxTypes
<1>2. PICK t \in Nat : t = clock /\ Activation <= t /\ t < Boundary(Len(MonthDays))
  BY <1>1, TimeIsInCalendar
<1>3. LET m == PeriodOf(t) IN
      /\ m \in Months /\ m + 1 \in Months
      /\ StartsAt(m) <= t /\ t < EndsAt(m) /\ PeriodOf(EndsAt(m)) = m + 1
  BY <1>2, PeriodHoldsItsMoments
<1>4. ASSUME NEW n \in Months, MonthDays[n] >= AnchorDay
      PROVE  StartsAt(n) = (DaysBefore[n] + AnchorDay - 1) * DayTicks + AnchorTime
  <2>1. Smaller(AnchorDay, MonthDays[n]) = AnchorDay
    BY <1>4, CalendarTypes DEF Smaller
  <2> QED BY <2>1 DEF StartsAt, Boundary
<1> QED BY <1>2, <1>3, <1>4 DEF PeriodsTile

------------------------------------------------------------------------------
(* The outbox.                                                               *)

\* What one call may rely on: the parts of SendsAreSound.
SoundCall(c) ==
  /\ c.at # "idle" => c.todo \subseteq Rows
  /\ c.at \in {"send", "sent"} => c.row \in Rows
  /\ c.at = "send" => c.row \notin aged /\ usages[c.row].tried
  /\ c.at = "sent" => accepted[c.row] = 1

LEMMA CallsAreSound ==
  SendsAreSound <=> \A p \in Procs : SoundCall(calls[p])
  BY DEF SendsAreSound, SoundCall, At

LEMMA CallFields ==
  ASSUME OutboxTypes, NEW p \in Procs, calls[p].at # "idle"
  PROVE  calls[p] \in Call
  BY DEF OutboxTypes, Idle

LEMMA RowFields ==
  ASSUME OutboxTypes
  PROVE  /\ Rows = 1..Len(usages) /\ Len(usages) \in Nat
         /\ \A u \in Rows : usages[u] \in UsageRow /\ accepted[u] \in Nat
         /\ DOMAIN accepted = Rows
  BY DEF OutboxTypes, Rows

\* What TimestampInLine says of one row.
BilledInLine(r) ==
  \/ LineStart(r.period) <= r.timestamp /\ r.timestamp < LineEnd(r.period)
  \/ /\ r.timestamp = LineEnd(r.period)
     /\ r.at >= RemoteEnd(r.period) \/ CeilMinute(meterFrom) >= LineEnd(r.period)

LEMMA LinesAreKept == TimestampInLine <=> \A u \in Rows : BilledInLine(usages[u])
  BY DEF TimestampInLine, InLine, BilledInLine

LEMMA MeterFromIsWhole == \A b \in Begins : b \in Int
<1>1. Activation \in Int /\ MaxTime \in Int
  <2>1. 1 \in Months
    BY CalendarTypes DEF Months
  <2> QED BY <2>1, AnniversaryInItsMonth, UsageBounds DEF Activation
<1>2. FloorSecond(Activation) \in Int
  BY <1>1, RoundingDown
<1> QED BY <1>1, <1>2, UsageBounds

\* A step keeps each row's period and timestamp, forgets no attempt, and marks only
\* what the meter has taken.
RowsKept ==
  /\ usages' \in Seq(UsageRow) /\ Len(usages') = Len(usages)
  /\ \A u \in Rows : /\ usages'[u].period = usages[u].period
                     /\ usages'[u].timestamp = usages[u].timestamp
                     /\ usages'[u].at = usages[u].at
                     /\ usages[u].tried => usages'[u].tried
                     /\ usages'[u].state = "submitted" => accepted[u] = 1

LEMMA RowsStay ==
  ASSUME OutboxInv, UNCHANGED usages PROVE RowsKept
  BY DEF OutboxInv, OutboxTypes, MeteredExactlyOnce, RowsKept

\* A step that keeps the rows and what Stripe has taken.
LEMMA RowStep ==
  ASSUME OutboxInv, RowsKept, UNCHANGED <<meterFrom, accepted, aged, keys>>,
         clock' \in Activation..MaxTime, calls' \in [Procs -> Call \cup {Idle}],
         \A p \in Procs : SoundCall(calls[p])' \/ UNCHANGED calls[p]
  PROVE  OutboxInv'
<1> USE DEF OutboxInv
<1>1. Rows' = Rows
  BY RowFields DEF RowsKept, Rows
<1>2. OutboxTypes'
  BY <1>1 DEF OutboxTypes, RowsKept
<1>3. TimestampInLine'
  BY <1>1, LinesAreKept DEF TimestampInLine, InLine, BilledInLine, RowsKept
<1>4. MeteredExactlyOnce'
  BY <1>1 DEF MeteredExactlyOnce, RowsKept
<1>5. MeterRemembers'
  BY <1>1 DEF MeterRemembers
<1>6. SendsAreSound'
  <2>1. ASSUME NEW p \in Procs PROVE SoundCall(calls[p])'
    <3>1. SoundCall(calls[p])
      BY CallsAreSound
    <3>2. CASE UNCHANGED calls[p]
      BY <1>1, <3>1, <3>2 DEF SoundCall, RowsKept
    <3> QED BY <3>2
  <2> QED BY <2>1 DEF SendsAreSound, SoundCall, At
<1> QED BY <1>2, <1>3, <1>4, <1>5, <1>6

\* ... and moves one call.
LEMMA CallStep ==
  ASSUME OutboxInv, RowsKept, UNCHANGED <<clock, meterFrom, accepted, aged, keys>>,
         NEW p \in Procs, NEW c \in Call \cup {Idle}, calls' = [calls EXCEPT ![p] = c],
         SoundCall(c)'
  PROVE  OutboxInv'
<1>1. calls' \in [Procs -> Call \cup {Idle}] /\ clock' \in Activation..MaxTime
  BY DEF OutboxInv, OutboxTypes
<1>2. ASSUME NEW q \in Procs PROVE SoundCall(calls[q])' \/ UNCHANGED calls[q]
  <2>1. CASE q = p
    <3>1. calls'[q] = c
      BY <2>1 DEF OutboxInv, OutboxTypes
    <3> QED BY <3>1 DEF SoundCall
  <2>2. CASE q # p
    BY <2>2 DEF OutboxInv, OutboxTypes
  <2> QED BY <2>1, <2>2
<1> QED BY <1>1, <1>2, RowStep

\* ... and ends one.
LEMMA CallEnds ==
  ASSUME OutboxInv, RowsKept, UNCHANGED <<clock, meterFrom, accepted, aged, keys>>,
         NEW p \in Procs, Quit(p) \/ Drop(p)
  PROVE  OutboxInv'
<1>1. calls' = [calls EXCEPT ![p] = Idle]
  BY DEF Quit, Drop, Finish
<1>2. SoundCall(Idle)'
  BY DEF SoundCall, Idle
<1> QED BY <1>1, <1>2, CallStep

\* ... or is none of a call.
LEMMA CallsStay ==
  ASSUME OutboxInv, UNCHANGED <<meterFrom, usages, accepted, aged, keys, calls>>,
         clock' \in Activation..MaxTime
  PROVE  OutboxInv'
<1>1. calls' \in [Procs -> Call \cup {Idle}]
  BY DEF OutboxInv, OutboxTypes
<1> QED BY <1>1, RowsStay, RowStep

LEMMA RowWritten ==
  ASSUME OutboxInv, NEW u \in Rows, NEW r \in UsageRow, usages' = [usages EXCEPT ![u] = r],
         r.period = usages[u].period, r.timestamp = usages[u].timestamp, r.at = usages[u].at,
         usages[u].tried => r.tried, r.state = "submitted" => accepted[u] = 1
  PROVE  RowsKept
<1> USE DEF OutboxInv
<1>1. usages \in Seq(UsageRow) /\ Rows = 1..Len(usages)
  BY RowFields DEF OutboxTypes
<1>2. usages' \in Seq(UsageRow) /\ Len(usages') = Len(usages)
  BY <1>1
<1>3. ASSUME NEW v \in Rows
      PROVE  /\ usages'[v].period = usages[v].period
             /\ usages'[v].timestamp = usages[v].timestamp
             /\ usages'[v].at = usages[v].at
             /\ usages[v].tried => usages'[v].tried
             /\ usages'[v].state = "submitted" => accepted[v] = 1
  <2>1. CASE v = u
    BY <1>1, <2>1
  <2>2. CASE v # u
    BY <1>1, <2>2 DEF MeteredExactlyOnce
  <2> QED BY <2>1, <2>2
<1> QED BY <1>2, <1>3 DEF RowsKept

LEMMA UsedIsNatural == ASSUME OutboxTypes, NEW m PROVE Used(m) \in Nat
<1>1. IsFiniteSet(Rows)
  BY RowFields, FS_Interval
<1>2. InLine(m) \subseteq Rows
  BY DEF InLine
<1>3. IsFiniteSet(InLine(m))
  BY <1>1, <1>2, FS_Subset
<1> QED BY <1>3, FS_CardinalityType DEF Used

LEMMA MonthsAreNatural == Months \subseteq Nat
  BY DEF Months

\* Reading the outbox, and everything about the drafts, moves a call only.
LEMMA LocalSteps ==
  ASSUME OutboxInv, NEW p \in Procs,
         \/ SynchronizeBegins(p) \/ RequestCarriedOut(p) \/ RequestRefused(p)
         \/ RequestTooOld(p) \/ NoSubscription(p) \/ ReadPending(p) \/ NothingPending(p)
         \/ (\E m \in Months : HoldDraft(p, m)) \/ CompareDraft(p) \/ AdvanceDraft(p)
         \/ VerifyLatest(p) \/ ApplyIssue(p) \/ CallFails(p) \/ CallStops(p)
  PROVE  OutboxInv'
<1> USE DEF quiet, meter
<1>t. OutboxTypes
  BY DEF OutboxInv
<1>r. SoundCall(calls[p])
  BY CallsAreSound DEF OutboxInv
<1>a. UNCHANGED <<clock, meterFrom, usages, accepted, aged, keys>>
  BY DEF SynchronizeBegins, RequestCarriedOut, RequestRefused, RequestTooOld, NoSubscription,
     ReadPending, NothingPending, HoldDraft, CompareDraft, AdvanceDraft,
     VerifyLatest, ApplyIssue, CallFails, CallStops
<1>b. RowsKept
  BY <1>a, RowsStay
<1>c. Rows' = Rows
  BY <1>a DEF Rows
<1>d. ASSUME NEW c \in Call \cup {Idle}, calls' = [calls EXCEPT ![p] = c],
             c.at \notin {"send", "sent"}, c.at # "idle" => c.todo \subseteq Rows
      PROVE  OutboxInv'
  <2>1. SoundCall(c)'
    BY <1>c, <1>d DEF SoundCall
  <2> QED BY <1>a, <1>b, <1>d, <2>1, CallStep
<1>e. ASSUME Quit(p) \/ Drop(p) PROVE OutboxInv'
  BY <1>a, <1>b, <1>e, CallEnds
<1>f. calls[p] \in Call \/ calls[p].at = "idle"
  BY <1>t, CallFields
<1>1. CASE SynchronizeBegins(p)
  <2> DEFINE c == [at |-> IF p = Worker THEN "request" ELSE "read", todo |-> {}, row |-> 0, sum |-> 0, held |-> FALSE, done |-> {}]
  <2>1. c \in Call /\ c.at \in {"request", "read"} /\ c.todo = {}
    BY DEF Call, Stages
  <2>2. calls' = [calls EXCEPT ![p] = c]
    BY <1>1 DEF SynchronizeBegins, Begin
  <2> HIDE DEF c
  <2> QED BY <1>d, <2>1, <2>2
<1>2. CASE ReadPending(p)
  <2>1. calls[p] \in Call
    BY <1>2, <1>f DEF ReadPending, At
  <2>2. PICK c : c = [calls[p] EXCEPT !.at = "submit", !.todo = Pending]
    OBVIOUS
  <2>3. Pending \subseteq Rows /\ Pending \subseteq Nat
    BY <1>t, RowFields DEF Pending
  <2>4. c \in Call /\ c.at = "submit" /\ c.todo = Pending
    BY <2>1, <2>2, <2>3 DEF Call, Stages
  <2>5. calls' = [calls EXCEPT ![p] = c]
    BY <1>2, <2>2 DEF ReadPending
  <2> QED BY <1>d, <2>3, <2>4, <2>5
<1>3. CASE NothingPending(p)
  <2>1. calls[p] \in Call /\ calls[p].todo = {}
    BY <1>3, <1>f DEF NothingPending, At
  <2>2. PICK c : c = [calls[p] EXCEPT !.at = "drafts"]
    OBVIOUS
  <2>3. c \in Call /\ c.at = "drafts" /\ c.todo = {}
    BY <2>1, <2>2 DEF Call, Stages
  <2>4. calls' = [calls EXCEPT ![p] = c]
    BY <1>3, <2>2 DEF NothingPending, Goto
  <2> QED BY <1>d, <2>3, <2>4
<1>4. ASSUME NEW m \in Months, HoldDraft(p, m) PROVE OutboxInv'
  <2>1. calls[p] \in Call /\ calls[p].todo \subseteq Rows
    BY <1>4, <1>f, <1>r DEF HoldDraft, At, SoundCall
  <2>2. PICK c : c = [calls[p] EXCEPT !.at = "compare", !.row = m, !.done = @ \cup {m}]
    OBVIOUS
  <2>3. c \in Call /\ c.at = "compare" /\ c.todo = calls[p].todo
    BY <2>1, <2>2, MonthsAreNatural DEF Call, Stages
  <2>4. calls' = [calls EXCEPT ![p] = c] \/ Quit(p)
    BY <1>4, <2>2 DEF HoldDraft
  <2> QED BY <1>d, <1>e, <2>1, <2>3, <2>4
<1>5. CASE CompareDraft(p)
  <2>1. calls[p] \in Call /\ calls[p].todo \subseteq Rows
    BY <1>5, <1>f, <1>r DEF CompareDraft, At, SoundCall
  <2>2. PICK c : c = calls'[p]
    OBVIOUS
  <2>3. Used(calls[p].row) \in Nat
    BY <1>t, UsedIsNatural
  <2>4. /\ \/ c = [calls[p] EXCEPT !.at = "advance", !.sum = Used(calls[p].row)]
           \/ c = [calls[p] EXCEPT !.at = "drafts", !.row = 0, !.held = TRUE]
        /\ calls' = [calls EXCEPT ![p] = c]
    BY <1>5, <1>t, <2>2 DEF CompareDraft, OutboxTypes
  <2>5. c \in Call /\ c.at \in {"advance", "drafts"} /\ c.todo = calls[p].todo
    <3>1. CASE c = [calls[p] EXCEPT !.at = "advance", !.sum = Used(calls[p].row)]
      BY <2>1, <2>3, <3>1 DEF Call, Stages
    <3>2. CASE c = [calls[p] EXCEPT !.at = "drafts", !.row = 0, !.held = TRUE]
      BY <2>1, <3>2 DEF Call, Stages
    <3> QED BY <2>4, <3>1, <3>2
  <2> QED BY <1>d, <2>1, <2>4, <2>5
<1>6. CASE AdvanceDraft(p)
  <2>1. calls[p] \in Call /\ calls[p].todo \subseteq Rows
    BY <1>6, <1>f, <1>r DEF AdvanceDraft, At, SoundCall
  <2>2. PICK c : c = [calls[p] EXCEPT !.at = "drafts", !.row = 0, !.sum = 0]
    OBVIOUS
  <2>3. c \in Call /\ c.at = "drafts" /\ c.todo = calls[p].todo
    BY <2>1, <2>2 DEF Call, Stages
  <2>4. calls' = [calls EXCEPT ![p] = c] \/ Quit(p)
    BY <1>6, <2>2 DEF AdvanceDraft
  <2> QED BY <1>d, <1>e, <2>1, <2>3, <2>4
<1>7. CASE VerifyLatest(p)
  <2>1. calls[p] \in Call /\ calls[p].todo \subseteq Rows
    BY <1>7, <1>f, <1>r DEF VerifyLatest, At, SoundCall
  <2>2. PICK held \in BOOLEAN :
          held = (calls[p].held \/ \E m \in Months : Latest(m) /\ ~Verified(m))
    OBVIOUS
  <2>3. PICK c : c = [calls[p] EXCEPT !.at = "apply", !.done = {},
                        !.held = calls[p].held \/ \E m \in Months : Latest(m) /\ ~Verified(m)]
    OBVIOUS
  <2>4. calls' = [calls EXCEPT ![p] = c]
    BY <1>7, <2>3 DEF VerifyLatest
  <2>5. c \in Call /\ c.at = "apply" /\ c.todo = calls[p].todo
    <3>1. c = [calls[p] EXCEPT !.at = "apply", !.done = {}, !.held = held]
      BY <2>2, <2>3, Zenon
    <3> QED BY <2>1, <3>1 DEF Call, Stages
  <2> QED BY <1>d, <2>1, <2>4, <2>5
<1>8. CASE \/ ApplyIssue(p) \/ CallFails(p) \/ CallStops(p)
           \/ RequestRefused(p) \/ RequestTooOld(p) \/ NoSubscription(p)
  BY <1>8, <1>e DEF ApplyIssue, CallFails, CallStops, RequestRefused, RequestTooOld, NoSubscription
<1>9. CASE RequestCarriedOut(p)
  <2>1. calls[p] \in Call /\ calls[p].todo \subseteq Rows
    BY <1>9, <1>f, <1>r DEF RequestCarriedOut, At, SoundCall
  <2>2. PICK c : c = [calls[p] EXCEPT !.at = "read"]
    OBVIOUS
  <2>3. c \in Call /\ c.at = "read" /\ c.todo = calls[p].todo
    BY <2>1, <2>2 DEF Call, Stages
  <2>4. calls' = [calls EXCEPT ![p] = c]
    BY <1>9, <2>2 DEF RequestCarriedOut, Goto
  <2> QED BY <1>d, <2>1, <2>3, <2>4
<1> QED BY <1>1, <1>2, <1>3, <1>4, <1>5, <1>6, <1>7, <1>8, <1>9

\* Giving a row up, trying it and marking it write one row each.
LEMMA RowSteps ==
  ASSUME OutboxInv, NEW p \in Procs,
         (\E u \in Rows : GiveUpRow(p, u) \/ TryRow(p, u)) \/ MarkSubmitted(p)
  PROVE  OutboxInv'
<1> USE DEF meter
<1>t. OutboxTypes
  BY DEF OutboxInv
<1>r. SoundCall(calls[p])
  BY CallsAreSound DEF OutboxInv
<1>a. UNCHANGED <<clock, meterFrom, accepted, aged, keys>>
  BY DEF GiveUpRow, TryRow, MarkSubmitted
<1>1. ASSUME NEW u \in Rows, GiveUpRow(p, u) PROVE OutboxInv'
  <2>1. calls[p] \in Call /\ calls[p].todo \subseteq Rows /\ calls[p].at = "submit"
    BY <1>1, <1>t, <1>r, CallFields DEF GiveUpRow, At, SoundCall
  <2>2. usages[u] \in UsageRow
    BY <1>t, RowFields
  <2>3. PICK r : r = [usages[u] EXCEPT !.state = "reconciliation"]
    OBVIOUS
  <2>4. /\ r \in UsageRow /\ r.period = usages[u].period /\ r.timestamp = usages[u].timestamp
        /\ r.at = usages[u].at /\ (r.tried <=> usages[u].tried)
        /\ r.state = "reconciliation"
    BY <2>2, <2>3 DEF UsageRow
  <2>5. usages' = [usages EXCEPT ![u] = r]
    BY <1>1, <2>3 DEF GiveUpRow
  <2>6. RowsKept
    BY <2>4, <2>5, RowWritten
  <2>7. PICK c : c = [calls[p] EXCEPT !.todo = @ \ {u}]
    OBVIOUS
  <2>8. c \in Call /\ c.at = "submit" /\ c.todo \subseteq Rows
    BY <2>1, <2>7 DEF Call
  <2>9. calls' = [calls EXCEPT ![p] = c] \/ Quit(p)
    BY <1>1, <2>7 DEF GiveUpRow
  <2>10. Rows' = Rows
    BY <1>t, <2>6, RowFields DEF RowsKept, Rows
  <2>11. SoundCall(c)'
    BY <2>8, <2>10 DEF SoundCall
  <2> QED BY <1>a, <2>6, <2>8, <2>9, <2>11, CallStep, CallEnds
<1>2. ASSUME NEW u \in Rows, TryRow(p, u) PROVE OutboxInv'
  <2>1. calls[p] \in Call /\ calls[p].todo \subseteq Rows /\ calls[p].at = "submit"
    BY <1>2, <1>t, <1>r, CallFields DEF TryRow, At, SoundCall
  <2>2. usages[u] \in UsageRow /\ u \in Nat
    BY <1>t, RowFields
  <2>3. PICK r : r = [usages[u] EXCEPT !.tried = TRUE]
    OBVIOUS
  <2>4. /\ r \in UsageRow /\ r.period = usages[u].period /\ r.timestamp = usages[u].timestamp
        /\ r.at = usages[u].at /\ r.tried /\ r.state = usages[u].state
    BY <2>2, <2>3 DEF UsageRow
  <2>5. usages' = [usages EXCEPT ![u] = r]
    BY <1>2, <2>3 DEF TryRow
  <2>6. RowsKept
    BY <2>4, <2>5, RowWritten DEF OutboxInv, MeteredExactlyOnce
  <2>7. PICK c : c = [calls[p] EXCEPT !.at = "send", !.row = u, !.todo = @ \ {u}]
    OBVIOUS
  <2>8. c \in Call /\ c.at = "send" /\ c.row = u /\ c.todo \subseteq Rows
    BY <2>1, <2>2, <2>7 DEF Call, Stages
  <2>9. calls' = [calls EXCEPT ![p] = c] \/ Quit(p)
    BY <1>2, <2>7 DEF TryRow
  <2>10. Rows' = Rows /\ usages'[u].tried
    BY <1>t, <2>4, <2>5, <2>6, RowFields DEF RowsKept, Rows
  <2>11. u \notin aged
    BY <1>2 DEF TryRow, TooOld
  <2>12. SoundCall(c)'
    BY <1>a, <2>8, <2>10, <2>11 DEF SoundCall
  <2> QED BY <1>a, <2>6, <2>8, <2>9, <2>12, CallStep, CallEnds
<1>3. CASE MarkSubmitted(p)
  <2>1. /\ calls[p] \in Call /\ calls[p].todo \subseteq Rows /\ calls[p].at = "sent"
        /\ calls[p].row \in Rows /\ accepted[calls[p].row] = 1
    BY <1>3, <1>t, <1>r, CallFields DEF MarkSubmitted, At, SoundCall
  <2>2. PICK u \in Rows : u = calls[p].row
    BY <2>1
  <2>3. PICK r : r = [usages[u] EXCEPT !.state = "submitted"]
    OBVIOUS
  <2>4. usages[u] \in UsageRow
    BY <1>t, RowFields
  <2>5. /\ r \in UsageRow /\ r.period = usages[u].period /\ r.timestamp = usages[u].timestamp
        /\ r.at = usages[u].at /\ (r.tried <=> usages[u].tried)
    BY <2>3, <2>4 DEF UsageRow
  <2>6. usages' = [usages EXCEPT ![u] = r]
    BY <1>3, <2>2, <2>3 DEF MarkSubmitted
  <2>7. RowsKept
    BY <2>1, <2>2, <2>5, <2>6, RowWritten
  <2>8. PICK c : c = [calls[p] EXCEPT !.at = "submit", !.row = 0]
    OBVIOUS
  <2>9. c \in Call /\ c.at = "submit" /\ c.todo \subseteq Rows
    BY <2>1, <2>8 DEF Call, Stages
  <2>10. calls' = [calls EXCEPT ![p] = c]
    BY <1>3, <2>8 DEF MarkSubmitted
  <2>11. Rows' = Rows
    BY <1>t, <2>7, RowFields DEF RowsKept, Rows
  <2>12. SoundCall(c)'
    BY <2>9, <2>11 DEF SoundCall
  <2> QED BY <1>a, <2>7, <2>9, <2>10, <2>12, CallStep
<1> QED BY <1>1, <1>2, <1>3

\* A row sent twice is taken once: what Stripe has forgotten is too old to be sent,
\* and what it remembers it does not take again.
LEMMA SendIsSafe ==
  ASSUME OutboxInv, NEW p \in Procs, SendRow(p)
  PROVE  OutboxInv'
<1> USE DEF OutboxInv
<1>r. SoundCall(calls[p])
  BY CallsAreSound
<1>1. /\ calls[p] \in Call /\ calls[p].at = "send" /\ calls[p].todo \subseteq Rows
      /\ calls[p].row \in Rows /\ calls[p].row \notin aged /\ usages[calls[p].row].tried
  BY <1>r, CallFields DEF SendRow, At, SoundCall
<1>2. PICK u \in Rows : u = calls[p].row
  BY <1>1
<1>3. /\ UNCHANGED <<clock, meterFrom, usages, aged>>
      /\ keys' = keys \cup {u}
      /\ accepted' = IF u \in keys THEN accepted ELSE [accepted EXCEPT ![u] = @ + 1]
  BY <1>2 DEF SendRow
<1>4. u \notin keys => accepted[u] = 0
  BY <1>1, <1>2 DEF MeterRemembers
<1>5. /\ accepted' \in Seq(Nat) /\ Len(accepted') = Len(accepted)
      /\ accepted'[u] = 1
      /\ \A v \in Rows : v # u => accepted'[v] = accepted[v]
  <2>1. accepted \in Seq(Nat) /\ u \in 1..Len(accepted)
    BY RowFields DEF OutboxTypes
  <2>2. CASE u \in keys
    BY <1>3, <2>1, <2>2 DEF MeterRemembers
  <2>3. CASE u \notin keys
    BY <1>3, <1>4, <2>1, <2>3, RowFields
  <2> QED BY <2>2, <2>3
<1>6. PICK c : c = [calls[p] EXCEPT !.at = "sent"]
  OBVIOUS
<1>7. c \in Call /\ c.at = "sent" /\ c.row = u /\ c.todo \subseteq Rows
  BY <1>1, <1>2, <1>6 DEF Call, Stages
<1>8. calls' = [calls EXCEPT ![p] = c]
  BY <1>6 DEF SendRow, Goto
<1>9. Rows' = Rows
  BY <1>3 DEF Rows
<1>10. OutboxTypes'
  BY <1>3, <1>5, <1>7, <1>8, <1>9 DEF OutboxTypes
<1>11. TimestampInLine'
  BY <1>3, <1>9 DEF TimestampInLine, InLine
<1>12. MeteredExactlyOnce'
  BY <1>1, <1>2, <1>3, <1>5, <1>9 DEF MeteredExactlyOnce
<1>13. MeterRemembers'
  BY <1>3, <1>5, <1>9 DEF MeterRemembers, OutboxTypes
<1>14. SendsAreSound'
  <2>1. ASSUME NEW q \in Procs PROVE SoundCall(calls[q])'
    <3>1. CASE q = p
      <4>1. calls'[q] = c
        BY <1>8, <3>1 DEF OutboxTypes
      <4> QED BY <1>5, <1>7, <1>9, <4>1 DEF SoundCall
    <3>2. CASE q # p
      <4>1. calls'[q] = calls[q] /\ SoundCall(calls[q])
        BY <1>8, <3>2, CallsAreSound DEF OutboxTypes
      <4> QED BY <1>3, <1>5, <1>9, <4>1 DEF SoundCall
    <3> QED BY <3>1, <3>2
  <2> QED BY <2>1 DEF SendsAreSound, SoundCall, At
<1> QED BY <1>10, <1>11, <1>12, <1>13, <1>14

\* An upload of a period that has just ended is timed in that period, or refused.
LEMMA UploadIsSafe ==
  ASSUME OutboxInv, NEW at \in Activation..MaxTime, Upload(at)
  PROVE  OutboxInv'
<1> USE DEF OutboxInv
<1>1. PICK r : r = [period |-> PeriodOf(at), timestamp |-> Timestamp(at), at |-> at,
                    state |-> "pending", tried |-> FALSE]
  OBVIOUS
<1>2. /\ usages' = Append(usages, r) /\ accepted' = Append(accepted, 0)
      /\ UNCHANGED <<clock, meterFrom, aged, keys, calls>>
      /\ Timestamp(at) < WindowEnd(PeriodOf(at))
  BY <1>1 DEF Upload
<1>3. meterFrom \in Int
  BY MeterFromIsWhole DEF OutboxTypes
<1>4. /\ r.period \in Months /\ r.timestamp \in Int /\ r.state = "pending" /\ ~r.tried
      /\ BilledInLine(r)
  BY <1>1, <1>2, <1>3, TimestampIsInLine DEF BilledInLine
<1>5. r \in UsageRow
  <2>1. PeriodOf(at) \in Months /\ Timestamp(at) \in Int /\ at \in Int
    BY <1>1, <1>4, TimeIsInCalendar
  <2> QED BY <1>1, <2>1 DEF UsageRow
<1>6. PICK n \in Nat : n = Len(usages) + 1
  BY RowFields
<1>7. Rows = 1..Len(usages) /\ Len(usages) \in Nat /\ Len(accepted) = Len(usages)
  BY RowFields DEF OutboxTypes
<1>8. /\ usages' \in Seq(UsageRow) /\ Len(usages') = n /\ usages'[n] = r
      /\ \A u \in Rows : usages'[u] = usages[u]
  BY <1>2, <1>5, <1>6, <1>7 DEF OutboxTypes
<1>9. /\ accepted' \in Seq(Nat) /\ Len(accepted') = n /\ accepted'[n] = 0
      /\ \A u \in Rows : accepted'[u] = accepted[u]
  BY <1>2, <1>6, <1>7 DEF OutboxTypes
<1>10. Rows' = Rows \cup {n} /\ n \notin Rows
  <2>1. Rows' = 1..n
    BY <1>8 DEF Rows
  <2> QED BY <1>6, <1>7, <2>1
<1>11. OutboxTypes'
  BY <1>2, <1>8, <1>9, <1>10 DEF OutboxTypes
<1>12. TimestampInLine'
  <2>1. ASSUME NEW u \in Rows' PROVE BilledInLine(usages'[u])
    <3>1. CASE u \in Rows
      BY <1>8, <3>1, LinesAreKept
    <3>2. CASE u = n
      BY <1>4, <1>8, <3>2
    <3> QED BY <1>10, <3>1, <3>2
  <2> QED BY <1>2, <2>1 DEF TimestampInLine, InLine, BilledInLine
<1>13. MeteredExactlyOnce'
  BY <1>4, <1>8, <1>9, <1>10 DEF MeteredExactlyOnce
<1>14. MeterRemembers'
  BY <1>2, <1>9, <1>10 DEF MeterRemembers, OutboxTypes
<1>15. SendsAreSound'
  <2>1. ASSUME NEW p \in Procs PROVE SoundCall(calls[p])'
    <3>1. SoundCall(calls[p])
      BY CallsAreSound
    <3> QED BY <1>2, <1>8, <1>9, <1>10, <3>1 DEF SoundCall
  <2> QED BY <2>1 DEF SendsAreSound, SoundCall, At
<1> QED BY <1>11, <1>12, <1>13, <1>14, <1>15

\* The retry window of a row closes under no call that is about to send it, and
\* Stripe forgets no row before.
LEMMA ForgettingIsSafe ==
  ASSUME OutboxInv, NEW u \in Rows, WindowPasses(u) \/ IdentifierForgotten(u)
  PROVE  OutboxInv'
<1> USE DEF OutboxInv, meter
<1>1. /\ UNCHANGED <<clock, meterFrom, usages, accepted, calls>>
      /\ Rows' = Rows
      /\ aged \subseteq aged' /\ aged' \subseteq Rows /\ keys' \subseteq keys
      /\ \A v \in Rows \ keys' : v \in keys => v \in aged'
      /\ aged' = aged \/ \A p \in Procs : calls[p].at # "send"
  BY DEF WindowPasses, IdentifierForgotten, Rows, At, OutboxTypes
<1>2. OutboxTypes'
  BY <1>1 DEF OutboxTypes
<1>3. TimestampInLine'
  BY <1>1 DEF TimestampInLine, InLine
<1>4. MeteredExactlyOnce'
  BY <1>1 DEF MeteredExactlyOnce
<1>5. MeterRemembers'
  BY <1>1 DEF MeterRemembers
<1>6. SendsAreSound'
  BY <1>1 DEF SendsAreSound, At
<1> QED BY <1>2, <1>3, <1>4, <1>5, <1>6

LEMMA OutboxStarts == Init => OutboxInv
<1> SUFFICES ASSUME Init PROVE OutboxInv
  OBVIOUS
<1>1. Rows = {} /\ calls = [p \in Procs |-> Idle] /\ Idle.at = "idle"
  BY DEF Init, LeaseInit, Rows, Idle
<1>2. clock \in Activation..MaxTime
  <2>1. /\ meterFrom \in Int /\ meterFrom <= MaxTime
        /\ Activation \in Int /\ MaxTime \in Int /\ Activation <= MaxTime
    <3>1. 1 \in Months
      BY CalendarTypes DEF Months
    <3>2. Activation \in Int /\ FloorSecond(Activation) \in Int
      BY <3>1, AnniversaryInItsMonth, RoundingDown DEF Activation
    <3> QED BY <3>2, UsageBounds DEF Init
  <2> QED BY <2>1 DEF Init, Larger
<1>3. OutboxTypes
  BY <1>1, <1>2 DEF Init, OutboxTypes
<1> QED BY <1>1, <1>3 DEF Init, OutboxInv, TimestampInLine, MeteredExactlyOnce,
        MeterRemembers, SendsAreSound, At

LEMMA OutboxStep == OutboxInv /\ [Next]_vars => OutboxInv'
<1> SUFFICES ASSUME OutboxInv, [Next]_vars PROVE OutboxInv'
  OBVIOUS
<1>t. clock \in Activation..MaxTime
  BY DEF OutboxInv, OutboxTypes
<1>1. ASSUME NEW p \in Procs,
             SynchronizeBegins(p) \/ Step(p) \/ CallFails(p) \/ CallStops(p)
      PROVE  OutboxInv'
  BY <1>1, LocalSteps, RowSteps, SendIsSafe DEF Step
<1>2. ASSUME NEW at \in Activation..MaxTime, Upload(at) PROVE OutboxInv'
  BY <1>2, UploadIsSafe
<1>3. ASSUME NEW u \in Rows, MeterCounts(u) PROVE OutboxInv'
  BY <1>3, <1>t, CallsStay DEF MeterCounts
<1>4. ASSUME NEW u \in Rows, WindowPasses(u) \/ IdentifierForgotten(u) PROVE OutboxInv'
  BY <1>4, ForgettingIsSafe
<1>5. ASSUME NEW m \in Months, Finalize(m) PROVE OutboxInv'
  BY <1>5, <1>t, CallsStay DEF Finalize, meter
<1>6. CASE Tick
  <2>1. Activation \in Int /\ MaxTime \in Int /\ clock \in Int
    BY <1>t, UsageBounds, TimeIsInCalendar
  <2>2. clock' \in Activation..MaxTime
    BY <1>6, <1>t, <2>1 DEF Tick
  <2> QED BY <1>6, <2>2, CallsStay DEF Tick, meter
<1>7. CASE LeaseExpires \/ HolderTooSlow \/ RequestAges
  BY <1>7, <1>t, CallsStay DEF LeaseExpires, HolderTooSlow, RequestAges, Expire, quiet, meter
<1>9. CASE RequestMade \/ RequestTakenBack \/ SubscriptionForgotten
  BY <1>9, <1>t, CallsStay DEF RequestMade, RequestTakenBack, SubscriptionForgotten, OwnerWrites,
     meter
<1>8. CASE UNCHANGED vars
  BY <1>8, <1>t, CallsStay DEF vars, quiet, meter
<1> QED BY <1>1, <1>2, <1>3, <1>4, <1>5, <1>6, <1>7, <1>8, <1>9 DEF Next

\* However callers of synchronize interleave, fail, stop and lose their leases, and
\* whenever Stripe forgets an identifier, what each of them relies on holds.
THEOREM OutboxIsSound == Spec => []OutboxInv
  BY OutboxStarts, OutboxStep, PTL DEF Spec

\* Stripe takes each charged upload at most once, and exactly once if its row is
\* marked: the first attempt is written down before the request, the identifier is
\* remembered as long as it may be repeated (submitUsage).
THEOREM UploadsAreMeteredOnce == Spec => []MeteredExactlyOnce
<1>1. OutboxInv => MeteredExactlyOnce
  BY DEF OutboxInv
<1> QED BY OutboxIsSound, <1>1, PTL

\* Whatever the fraction of a second and of a minute at which the company was
\* activated: a charged upload is in the line of its own period, or, if it came after
\* Stripe's end of the period or in the first minute of the meter, in the first
\* minute of the next (enqueueOverage, reconcileDraft).
THEOREM UploadsAreBilledInOneLine == Spec => []TimestampInLine
<1>1. OutboxInv => TimestampInLine
  BY DEF OutboxInv
<1> QED BY OutboxIsSound, <1>1, PTL

\* Whatever the months, the anniversary and the clock: the periods leave no gap and
\* do not overlap, and the day of the activation comes back (billingPeriod).
THEOREM PeriodsLeaveNoGap == Spec => []PeriodsTile
<1>1. OutboxInv => PeriodsTile
  BY ClockTiles DEF OutboxInv
<1> QED BY OutboxIsSound, <1>1, PTL
==============================================================================
