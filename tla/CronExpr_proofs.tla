-------------------------- MODULE CronExpr_proofs --------------------------
(***************************************************************************)
(* Proofs about CronExpr, for any calendar, any expressions and any times  *)
(* the search begins at: what it returns is the first match.               *)
(***************************************************************************)
EXTENDS CronExpr, FiniteSetTheorems, WellFoundedInduction, NaturalsInduction, TLAPS

(* Integer division.                                                       *)
LEMMA Division ==
  ASSUME NEW a \in Int, NEW b \in Nat \ {0}
  PROVE  /\ a \div b \in Int /\ a % b \in 0 .. b - 1
         /\ a = b * (a \div b) + (a % b)
         /\ a \in Nat => a \div b \in Nat
OBVIOUS

(* One quotient more is a whole divisor more.                              *)
LEMMA Less ==
  ASSUME NEW q \in Int, NEW p \in Int, NEW b \in Nat, q < p
  PROVE  b * q + b <= b * p
<1>1. p - q >= 1
  OBVIOUS
<1>2. b * (p - q) >= b
  BY <1>1
<1> QED
  BY <1>2

(* A quotient and a remainder are the only ones.                           *)
LEMMA Quotient ==
  ASSUME NEW a \in Int, NEW b \in Nat \ {0}, NEW q \in Int, NEW r \in 0 .. b - 1, a = b * q + r
  PROVE  a \div b = q /\ a % b = r
<1> DEFINE p == a \div b
           s == a % b
<1>1. p \in Int /\ s \in 0 .. b - 1 /\ b * p + s = b * q + r
  BY Division
<1> HIDE DEF p, s
<1>2. b * p \in Int /\ b * q \in Int
  BY <1>1
<1>3. ~(p < q)
  <2> SUFFICES ASSUME p < q PROVE FALSE
    OBVIOUS
  <2>1. b * p + b <= b * q
    BY <1>1, Less
  <2> QED
    BY <1>1, <1>2, <2>1
<1>4. ~(q < p)
  <2> SUFFICES ASSUME q < p PROVE FALSE
    OBVIOUS
  <2>1. b * q + b <= b * p
    BY <1>1, Less
  <2> QED
    BY <1>1, <1>2, <2>1
<1>5. p = q
  BY <1>1, <1>3, <1>4
<1>6. s = r
  BY <1>1, <1>2, <1>5
<1> QED
  BY <1>5, <1>6 DEF p, s

(* What is less than the modulus is its own remainder.                     *)
LEMMA SmallRemainder ==
  ASSUME NEW b \in Nat \ {0}, NEW r \in 0 .. b - 1
  PROVE  r % b = r
<1>1. r = b * 0 + r
  OBVIOUS
<1> QED
  BY <1>1, Quotient

-----------------------------------------------------------------------------
(* The calendar.                                                           *)

(* The constants and what is made of them.                                 *)
LEMMA CalendarTypes ==
  /\ MinutesPerHour \in Nat \ {0} /\ HoursPerDay \in Nat \ {0} /\ MinutesPerDay \in Nat \ {0}
  /\ MaxDay \in Nat \ {0} /\ MonthsPerYear \in Nat \ {0} /\ WeekLength \in Nat \ {0}
  /\ Len(MonthStart) \in Nat /\ Len(MonthStart) > 1
  /\ DOMAIN MonthStart = 1 .. Len(MonthStart)
  /\ \A m \in 1 .. Len(MonthStart) : MonthStart[m] \in Nat
  /\ Days \in Nat \ {0} /\ Cycle \in Nat \ {0} /\ Cycle = Days * MinutesPerDay
<1>1. /\ MinutesPerHour \in Nat \ {0} /\ HoursPerDay \in Nat \ {0}
      /\ MaxDay \in Nat \ {0} /\ MonthsPerYear \in Nat \ {0} /\ WeekLength \in Nat \ {0}
      /\ MonthStart \in Seq(Nat) /\ Len(MonthStart) > 1
  BY CalendarOK
<1>2. MinutesPerDay \in Nat \ {0}
  BY <1>1 DEF MinutesPerDay
<1>3. /\ Len(MonthStart) \in Nat /\ DOMAIN MonthStart = 1 .. Len(MonthStart)
      /\ \A m \in 1 .. Len(MonthStart) : MonthStart[m] \in Nat
  BY <1>1
<1>4. MonthStart[1] < MonthStart[Len(MonthStart)]
  BY <1>1, <1>3, CalendarOK
<1>5. Days \in Nat \ {0}
  BY <1>1, <1>3, <1>4 DEF Days
<1>6. Cycle = Days * MinutesPerDay
  BY DEF Cycle
<1>7. Cycle \in Nat \ {0}
  BY <1>2, <1>5, <1>6
<1> QED
  BY <1>1, <1>2, <1>3, <1>5, <1>6, <1>7

(* The constants that something is divided by.                             *)
LEMMA Positive ==
  MinutesPerHour \in Nat \ {0} /\ HoursPerDay \in Nat \ {0} /\ MinutesPerDay \in Nat \ {0}
  /\ WeekLength \in Nat \ {0} /\ Cycle \in Nat \ {0}
BY CalendarTypes

(* A month does not begin before an earlier one.                           *)
LEMMA MonthStartsGrow ==
  ASSUME NEW m \in 1 .. Len(MonthStart), NEW n \in 1 .. Len(MonthStart), m <= n
  PROVE  MonthStart[m] <= MonthStart[n]
BY CalendarOK, CalendarTypes, SMTT(30)

Precedes == {ij \in Nat \X Nat : ij[1] < ij[2]}

(* A set of numbers has a least one.                                       *)
LEMMA Least ==
  ASSUME NEW T, T \subseteq Nat, T # {}
  PROVE  \E i \in T : \A j \in T : i <= j
<1>1. IsWellFoundedOn(Precedes, Nat)
  <2>1. Precedes = OpToRel(<, Nat)
    BY DEF Precedes, OpToRel
  <2>2. QED
    BY <2>1, NatLessThanWellFounded
<1>2. PICK i \in T : \A j \in T : <<j, i>> \notin Precedes
  BY <1>1, WFMin
<1>3. \A j \in T : ~(j < i)
  BY <1>2 DEF Precedes
<1>4. QED
  BY <1>3

(* The month of a time, and that there is no other.                        *)
LEMMA DayInMonth ==
  ASSUME NEW d \in 0 .. Days - 1
  PROVE  \E m \in Months : MonthStart[m] <= d /\ d < MonthStart[m + 1]
<1> DEFINE after == {n \in 1 .. Len(MonthStart) : d < MonthStart[n]}
<1>1. Len(MonthStart) \in after /\ after \subseteq Nat
  BY CalendarTypes DEF Days
<1>2. PICK n \in after : \A j \in after : n <= j
  BY <1>1, Least
<1>3. n # 1
  BY <1>2, CalendarOK
<1>4. n - 1 \in Months /\ ~(d < MonthStart[n - 1]) /\ d < MonthStart[n]
  BY <1>2, <1>3, CalendarTypes DEF Months
<1>5. MonthStart[n - 1] <= d
  BY <1>4, CalendarTypes DEF Months
<1>6. n = (n - 1) + 1
  BY <1>2
<1> QED
  BY <1>4, <1>5, <1>6

(* A day is in one month only.                                             *)
LEMMA OneMonth ==
  ASSUME NEW m \in Months, NEW n \in Months, NEW d \in Nat,
         MonthStart[m] <= d, d < MonthStart[m + 1], MonthStart[n] <= d, d < MonthStart[n + 1]
  PROVE  m = n
<1>1. ~(m < n)
  <2> SUFFICES ASSUME m < n PROVE FALSE
    OBVIOUS
  <2>1. MonthStart[m + 1] <= MonthStart[n]
    BY MonthStartsGrow, CalendarTypes DEF Months
  <2> QED
    BY <2>1, CalendarTypes DEF Months
<1>2. ~(n < m)
  <2> SUFFICES ASSUME n < m PROVE FALSE
    OBVIOUS
  <2>1. MonthStart[n + 1] <= MonthStart[m]
    BY MonthStartsGrow, CalendarTypes DEF Months
  <2> QED
    BY <2>1, CalendarTypes DEF Months
<1> QED
  BY <1>1, <1>2 DEF Months

(* A time is on a day of the cycle, and in the month of that day.          *)
LEMMA DayOfTime ==
  ASSUME NEW t \in Times
  PROVE  Day(t) \in 0 .. Days - 1
<1>1. t \in Nat /\ t < Days * MinutesPerDay
  BY CalendarTypes DEF Times
<1> DEFINE q == t \div MinutesPerDay
           r == t % MinutesPerDay
<1>2. q \in Nat /\ r \in 0 .. MinutesPerDay - 1 /\ t = MinutesPerDay * q + r
  BY <1>1, Positive
<1> HIDE DEF q, r
<1>3. ~(Days <= q)
  <2> SUFFICES ASSUME Days <= q PROVE FALSE
    OBVIOUS
  <2>1. MinutesPerDay * (q - Days) >= 0
    BY <1>2, CalendarTypes
  <2> QED
    BY <1>1, <1>2, <2>1, CalendarTypes
<1>4. q \in 0 .. Days - 1
  BY <1>2, <1>3, CalendarTypes
<1> QED
  BY <1>4 DEF Day, q

LEMMA MonthOfTime ==
  ASSUME NEW t \in Times
  PROVE  /\ MonthOf(t) \in Months
         /\ MonthStart[MonthOf(t)] <= Day(t) /\ Day(t) < MonthStart[MonthOf(t) + 1]
BY DayOfTime, DayInMonth DEF MonthOf

LEMMA IsMonthOf ==
  ASSUME NEW t \in Times, NEW m \in Months, MonthStart[m] <= Day(t), Day(t) < MonthStart[m + 1]
  PROVE  MonthOf(t) = m
BY MonthOfTime, DayOfTime, OneMonth

(* The minutes of a day: what they are as an hour and a minute.            *)
LEMMA Clock ==
  ASSUME NEW w \in 0 .. MinutesPerDay - 1
  PROVE  /\ w \div MinutesPerHour \in 0 .. HoursPerDay - 1
         /\ w % MinutesPerHour \in 0 .. MinutesPerHour - 1
         /\ w = MinutesPerHour * (w \div MinutesPerHour) + (w % MinutesPerHour)
<1> DEFINE q == w \div MinutesPerHour
           r == w % MinutesPerHour
<1>1. q \in Nat /\ r \in 0 .. MinutesPerHour - 1 /\ w = MinutesPerHour * q + r
  BY Positive
<1>2. w < MinutesPerHour * HoursPerDay
  BY CalendarTypes DEF MinutesPerDay
<1> HIDE DEF q, r
<1>3. ~(HoursPerDay <= q)
  <2> SUFFICES ASSUME HoursPerDay <= q PROVE FALSE
    OBVIOUS
  <2>1. MinutesPerHour * (q - HoursPerDay) >= 0
    BY <1>1, CalendarTypes
  <2> QED
    BY <1>1, <1>2, <2>1, CalendarTypes
<1>4. q \in 0 .. HoursPerDay - 1
  BY <1>1, <1>3, CalendarTypes
<1> QED
  BY <1>1, <1>4 DEF q, r

(* A time is a day and a minute of the day.                                *)
LEMMA Parts ==
  ASSUME NEW d \in 0 .. Days - 1, NEW w \in 0 .. MinutesPerDay - 1
  PROVE  LET t == d * MinutesPerDay + w
         IN  /\ t \in Times /\ Day(t) = d
             /\ HourOf(t) = w \div MinutesPerHour /\ MinuteOf(t) = w % MinutesPerHour
<1> DEFINE t == d * MinutesPerDay + w
           h == w \div MinutesPerHour
           m == w % MinutesPerHour
<1>1. t \in Nat /\ t < Cycle
  <2>1. MinutesPerDay * d + MinutesPerDay <= MinutesPerDay * Days
    BY Less, CalendarTypes
  <2> QED
    BY <2>1, CalendarTypes
<1>2. t \in Times
  BY <1>1, CalendarTypes DEF Times
<1>3. t = MinutesPerDay * d + w
  BY CalendarTypes
<1>4. Day(t) = d
  BY <1>1, <1>3, Quotient, CalendarTypes DEF Day
<1>5. h \in 0 .. HoursPerDay - 1 /\ m \in 0 .. MinutesPerHour - 1 /\ w = MinutesPerHour * h + m
  BY Clock
<1> DEFINE n == HoursPerDay * d + h
<1> HIDE DEF h, m
<1>6. t = MinutesPerHour * n + m /\ n \in Int
  BY <1>3, <1>5, Positive DEF MinutesPerDay
<1> HIDE DEF t, n
<1>7. t \div MinutesPerHour = n /\ t % MinutesPerHour = m
  BY <1>1, <1>5, <1>6, Quotient, Positive
<1>8. n % HoursPerDay = h
  BY <1>5, <1>6, Quotient, Positive DEF n
<1>9. HourOf(t) = h /\ MinuteOf(t) = m
  BY <1>7, <1>8 DEF HourOf, MinuteOf
<1> QED
  BY <1>2, <1>4, <1>9 DEF t, h, m

(* Star leaves out no day and no weekday.                                  *)
LEMMA FieldsInRange ==
  ASSUME NEW t \in Times
  PROVE  /\ DayOfMonth(t) \in 1 .. MaxDay
         /\ Weekday(t) \in 0 .. WeekLength - 1
<1>1. MonthOf(t) \in Months /\ Day(t) \in Nat
  BY MonthOfTime, DayOfTime
<1>2. /\ MonthStart[MonthOf(t)] \in Nat /\ MonthStart[MonthOf(t) + 1] \in Nat
      /\ MonthStart[MonthOf(t) + 1] <= MonthStart[MonthOf(t)] + MaxDay
  BY <1>1, CalendarOK, CalendarTypes, SMTT(30) DEF Months
<1>3. DayOfMonth(t) \in 1 .. MaxDay
  <2> DEFINE first == MonthStart[MonthOf(t)]
             after == MonthStart[MonthOf(t) + 1]
             d == Day(t)
  <2>1. first <= d /\ d < after
    BY MonthOfTime
  <2>2. first \in Nat /\ after \in Nat /\ after <= first + MaxDay /\ d \in Nat
    BY <1>1, <1>2
  <2>3. MaxDay \in Nat
    BY CalendarTypes
  <2> HIDE DEF first, after, d
  <2>4. d - first + 1 \in 1 .. MaxDay
    BY <2>1, <2>2, <2>3
  <2> QED
    BY <2>4 DEF DayOfMonth, first, d
<1>4. Weekday(t) \in 0 .. WeekLength - 1
  BY <1>1, Positive DEF Weekday
<1> QED
  BY <1>3, <1>4

(* Addition within the cycle.                                              *)
LEMMA PlusTimes ==
  ASSUME NEW t \in Int, NEW k \in Int
  PROVE  Plus(t, k) \in Times
BY Positive DEF Plus, Times

(* Whole cycles make no difference.                                        *)
LEMMA CycleRemainder ==
  ASSUME NEW a \in Int, NEW n \in Int, NEW c \in Int, c = a + Cycle * n
  PROVE  c % Cycle = a % Cycle
<1> DEFINE q == a \div Cycle
           r == a % Cycle
           p == q + n
<1>1. q \in Int /\ r \in 0 .. Cycle - 1 /\ a = Cycle * q + r
  BY Positive
<1> HIDE DEF q, r
<1>2. c = Cycle * p + r /\ p \in Int
  BY <1>1, Positive
<1> HIDE DEF p
<1>3. c % Cycle = r
  BY <1>1, <1>2, Quotient, Positive
<1> QED
  BY <1>3 DEF r

LEMMA PlusPlus ==
  ASSUME NEW t \in Int, NEW k \in Int, NEW j \in Int
  PROVE  Plus(Plus(t, k), j) = Plus(t, k + j)
<1> DEFINE q == (t + k) \div Cycle
           r == (t + k) % Cycle
<1>1. q \in Int /\ r \in Int /\ t + k = Cycle * q + r
  BY Positive
<1> HIDE DEF q, r
<1> DEFINE x == t + (k + j)
           y == r + j
<1>2. x \in Int /\ y \in Int /\ q \in Int /\ x = y + Cycle * q
  BY <1>1, Positive
<1> HIDE DEF x, y
<1>3. x % Cycle = y % Cycle
  BY <1>2, CycleRemainder
<1> QED
  BY <1>3 DEF Plus, r, x, y

LEMMA PlusZero ==
  ASSUME NEW t \in Times
  PROVE  Plus(t, 0) = t
<1>1. t \in 0 .. Cycle - 1 /\ t + 0 = t
  BY CalendarTypes DEF Times
<1> QED
  BY <1>1, SmallRemainder, CalendarTypes DEF Plus

(* The times between one and the time k minutes later are passed on the    *)
(* way.                                                                    *)
LEMMA BetweenPassed ==
  ASSUME NEW t \in Times, NEW k \in Nat \ {0}, NEW x \in Between(t, Plus(t, k))
  PROVE  \E j \in 1 .. k - 1 : x = Plus(t, j)
<1> DEFINE q == (t + k) \div Cycle
           b == Plus(t, k)
<1>1. t \in Int
  BY CalendarTypes DEF Times
<1>2. q \in Int /\ b \in Int /\ t + k = Cycle * q + b
  BY <1>1, Positive DEF Plus
<1> HIDE DEF q, b
<1>3. b - t - 1 = (k - 1) + Cycle * (-q)
  BY <1>1, <1>2, Positive
<1>4. (b - t - 1) % Cycle = (k - 1) % Cycle
  <2> DEFINE c == b - t - 1
             y == k - 1
             p == -q
  <2>1. c \in Int /\ y \in Int /\ p \in Int /\ c = y + Cycle * p
    BY <1>1, <1>2, <1>3
  <2> HIDE DEF c, y, p
  <2>2. c % Cycle = y % Cycle
    BY <2>1, CycleRemainder
  <2> QED
    BY <2>2 DEF c, y
<1>5. (k - 1) % Cycle <= k - 1 /\ (k - 1) % Cycle \in Int
  <2> DEFINE p == (k - 1) \div Cycle
             s == (k - 1) % Cycle
  <2>1. k - 1 \in Nat
    OBVIOUS
  <2>2. p \in Nat /\ s \in 0 .. Cycle - 1 /\ k - 1 = Cycle * p + s
    BY <2>1, Positive
  <2> HIDE DEF p, s
  <2>3. Cycle * p >= 0
    BY <2>2, CalendarTypes
  <2>4. s <= k - 1 /\ s \in Int
    BY <2>2, <2>3, CalendarTypes
  <2> QED
    BY <2>4 DEF s
<1>6. PICK j \in 1 .. ((b - t - 1) % Cycle) : x = Plus(t, j)
  BY DEF Between, b
<1>7. j \in 1 .. k - 1
  BY <1>4, <1>5, <1>6
<1> QED
  BY <1>6, <1>7
-----------------------------------------------------------------------------
(* Fields.                                                                 *)

(* A function on the first numbers is a sequence of its values.            *)
LEMMA FunctionIsSequence ==
  ASSUME NEW n \in Nat, NEW f, f = [i \in 1 .. n |-> f[i]]
  PROVE  f \in Seq(ToSet(f)) /\ Len(f) = n
<1>1. ToSet(f) = {f[i] : i \in 1 .. n}
  BY DEF ToSet
<1>2. f \in [1 .. n -> ToSet(f)]
  BY <1>1
<1> HIDE DEF ToSet
<1> QED
  BY <1>2

(* An interval is a sequence that begins with its lower end, and with      *)
(* steps of one has all of it.                                             *)
LEMMA UptoIsSequence ==
  ASSUME NEW lo \in Int, NEW hi \in Int, NEW step \in Nat \ {0}, NEW s, s = Upto(lo, hi, step)
  PROVE  /\ s \in Seq(ToSet(s)) /\ Len(s) \in Nat
         /\ s \in Seq(Int)
         /\ s # <<>> => lo <= hi /\ s[1] = lo
         /\ step = 1 => ToSet(s) = lo .. hi
<1> DEFINE n == IF hi < lo THEN 0 ELSE (hi - lo) \div step + 1
<1>0. ASSUME ~(hi < lo) PROVE (hi - lo) \div step \in Nat
  <2> DEFINE x == hi - lo
  <2>1. x \in Nat
    BY <1>0
  <2> HIDE DEF x
  <2>2. x \div step \in Nat
    BY <2>1
  <2> QED
    BY <2>2 DEF x
<1>1. n \in Nat
  BY <1>0
<1>2. s = [i \in 1 .. n |-> lo + (i - 1) * step]
  BY DEF Upto
<1>3. n = 0 <=> hi < lo
  BY <1>0
<1>4. step = 1 /\ ~(hi < lo) => n = hi - lo + 1
  BY Quotient
<1> HIDE DEF n
<1>5. s \in Seq(ToSet(s)) /\ Len(s) = n
  BY <1>1, <1>2, FunctionIsSequence
<1>6. s \in Seq(Int)
  <2>1. \A i \in 1 .. n : lo + (i - 1) * step \in Int
    BY <1>1
  <2>2. s \in [1 .. n -> Int]
    BY <1>2, <2>1
  <2> QED
    BY <1>1, <2>2
<1>7. s # <<>> => lo <= hi /\ s[1] = lo
  BY <1>1, <1>2, <1>3, <1>5
<1>8. ASSUME step = 1 PROVE ToSet(s) = lo .. hi
  <2>1. s = [i \in 1 .. n |-> lo + (i - 1)]
    BY <1>1, <1>2, <1>8
  <2>2. ToSet(s) = {lo + (i - 1) : i \in 1 .. n}
    BY <2>1 DEF ToSet
  <2>3. ASSUME NEW v \in lo .. hi PROVE v \in {lo + (i - 1) : i \in 1 .. n}
    <3>1. v = lo + ((v - lo + 1) - 1) /\ v - lo + 1 \in 1 .. n
      BY <1>1, <1>4, <1>8
    <3> QED
      BY <3>1
  <2>4. \A i \in 1 .. n : lo + (i - 1) \in lo .. hi
    BY <1>1, <1>3, <1>4, <1>8
  <2> QED
    BY <2>2, <2>3, <2>4
<1> QED
  BY <1>1, <1>5, <1>6, <1>7, <1>8

(* The values in range are a sequence whose first one is in range.         *)
LEMMA WithinIsSequence ==
  ASSUME NEW vals \in Seq(Int), NEW min \in Int, NEW max \in Int,
         NEW s, s = Within(vals, min, max)
  PROVE  /\ s \in Seq(ToSet(s)) /\ Len(s) \in Nat
         /\ s # <<>> => s[1] \in min .. max
<1> DEFINE kept == {i \in DOMAIN vals : vals[i] \in min .. max}
           n == Cardinality(kept)
           upto(i) == {j \in kept : j <= i}
<1>1. kept \subseteq Nat /\ n \in Nat /\ IsFiniteSet(kept)
  <2>1. DOMAIN vals = 1 .. Len(vals) /\ Len(vals) \in Nat
    OBVIOUS
  <2>2. IsFiniteSet(DOMAIN vals)
    BY <2>1, FS_Interval
  <2>3. kept \subseteq DOMAIN vals
    OBVIOUS
  <2> HIDE DEF kept
  <2> QED
    BY <2>1, <2>2, <2>3, FS_Subset, FS_CardinalityType
<1>2. s = [k \in 1 .. n |-> vals[CHOOSE i \in kept : Cardinality(upto(i)) = k]]
  BY DEF Within, Kept
<1>3. s \in Seq(ToSet(s)) /\ Len(s) = n
  <2> HIDE DEF n, upto
  <2> QED
    BY <1>1, <1>2, FunctionIsSequence
<1>4. ASSUME s # <<>> PROVE s[1] \in min .. max
  <2>1. n # 0
    BY <1>1, <1>3, <1>4
  <2>2. kept # {}
    BY <2>1, FS_EmptySet
  <2>3. PICK i \in kept : \A j \in kept : i <= j
    BY <1>1, <2>2, Least
  <2>4. upto(i) = {i}
    BY <1>1, <2>3
  <2>5. Cardinality(upto(i)) = 1
    BY <2>4, FS_Singleton
  <2>6. s[1] = vals[CHOOSE j \in kept : Cardinality(upto(j)) = 1]
    BY <1>1, <1>2, <2>1
  <2> HIDE DEF upto, n
  <2>7. (CHOOSE j \in kept : Cardinality(upto(j)) = 1) \in kept
    BY <2>3, <2>5
  <2> QED
    BY <2>6, <2>7
<1> HIDE DEF kept, n
<1> QED
  BY <1>1, <1>3, <1>4

(* What a field is parsed to: a sequence, whose first value is in range.   *)
LEMMA Parsed ==
  ASSUME NEW field, FieldOK(field), NEW min \in Int, NEW max \in Int,
         NEW s, s = ParseField(field, min, max)
  PROVE  /\ s \in Seq(ToSet(s)) /\ Len(s) \in Nat
         /\ s # <<>> => s[1] \in min .. max
         /\ field = Star => ToSet(s) = min .. max
<1>1. CASE field = Star
  <2>1. s = Upto(min, max, 1)
    BY <1>1 DEF ParseField, Star
  <2>2. 1 \in Nat \ {0}
    OBVIOUS
  <2>3. /\ s \in Seq(ToSet(s)) /\ Len(s) \in Nat
        /\ s # <<>> => min <= max /\ s[1] = min
        /\ ToSet(s) = min .. max
    BY <2>1, <2>2, UptoIsSequence, Zenon
  <2> QED
    BY <2>3
<1>2. CASE field # Star /\ field.form = "*/" /\ field.step \in Int
  <2>1. CASE field.step <= 0
    <3>1. s = <<>>
      BY <1>2, <2>1 DEF ParseField
    <3> QED
      BY <1>2, <3>1
  <2>2. CASE ~(field.step <= 0)
    <3>1. s = Upto(min, max, field.step) /\ field.step \in Nat \ {0}
      BY <1>2, <2>2 DEF ParseField
    <3>2. PICK n \in Nat \ {0} : s = Upto(min, max, n)
      BY <3>1
    <3>3. /\ s \in Seq(ToSet(s)) /\ Len(s) \in Nat
          /\ s # <<>> => min <= max /\ s[1] = min
      BY <3>2, UptoIsSequence, Zenon
    <3> QED
      BY <1>2, <3>3
  <2> QED
    BY <2>1, <2>2
<1>3. CASE field # Star /\ field.form = "," /\ field.vals \in Seq(Int)
  <2>1. s = Within(field.vals, min, max)
    BY <1>3 DEF ParseField
  <2> QED
    BY <1>3, <2>1, WithinIsSequence
<1>4. CASE field # Star /\ field.form = "-" /\ field.from \in Int /\ field.to \in Int
  <2> DEFINE u == Upto(field.from, field.to, 1)
  <2>1. s = Within(u, min, max)
    BY <1>4 DEF ParseField
  <2>2. u \in Seq(Int)
    <3>1. 1 \in Nat \ {0}
      OBVIOUS
    <3> QED
      BY <1>4, <3>1, UptoIsSequence
  <2> HIDE DEF u
  <2> QED
    BY <1>4, <2>1, <2>2, WithinIsSequence
<1> QED
  BY <1>1, <1>2, <1>3, <1>4 DEF FieldOK

(* contains.                                                               *)
LEMMA ContainsIsIn ==
  ASSUME NEW s, s \in Seq(ToSet(s)), NEW v
  PROVE  Contains(s, v) <=> v \in ToSet(s)
<1>1. DOMAIN s = 1 .. Len(s)
  BY DEF ToSet
<1> QED
  BY <1>1 DEF Contains, ToSet

(* The values of the fields of an expression.                              *)
LEMMA FieldValues ==
  ASSUME NEW e \in Expressions
  PROVE  /\ \A s \in AllFields(e) : s \in Seq(ToSet(s)) /\ Len(s) \in Nat
         /\ Minutes(e) # <<>> => Minutes(e)[1] \in 0 .. MinutesPerHour - 1
         /\ Hours(e) # <<>> => Hours(e)[1] \in 0 .. HoursPerDay - 1
         /\ DaysOf(e) # <<>> => DaysOf(e)[1] \in 1 .. MaxDay
         /\ e.day = Star => ToSet(DaysOf(e)) = 1 .. MaxDay
         /\ e.weekday = Star => ToSet(Weekdays(e)) = 0 .. WeekLength - 1
<1>1. /\ FieldOK(e.minute) /\ FieldOK(e.hour) /\ FieldOK(e.day)
      /\ FieldOK(e.month) /\ FieldOK(e.weekday)
  BY ExpressionsOK
<1>2. /\ MinutesPerHour - 1 \in Int /\ HoursPerDay - 1 \in Int /\ MaxDay \in Int
      /\ MonthsPerYear \in Int /\ WeekLength - 1 \in Int /\ 0 \in Int /\ 1 \in Int
  BY CalendarTypes
<1>3. /\ Minutes(e) \in Seq(ToSet(Minutes(e))) /\ Len(Minutes(e)) \in Nat
      /\ Minutes(e) # <<>> => Minutes(e)[1] \in 0 .. MinutesPerHour - 1
  BY <1>1, <1>2, Parsed, ZenonT(40) DEF Minutes
<1>4. /\ Hours(e) \in Seq(ToSet(Hours(e))) /\ Len(Hours(e)) \in Nat
      /\ Hours(e) # <<>> => Hours(e)[1] \in 0 .. HoursPerDay - 1
  BY <1>1, <1>2, Parsed, ZenonT(40) DEF Hours
<1>5. /\ DaysOf(e) \in Seq(ToSet(DaysOf(e))) /\ Len(DaysOf(e)) \in Nat
      /\ DaysOf(e) # <<>> => DaysOf(e)[1] \in 1 .. MaxDay
      /\ e.day = Star => ToSet(DaysOf(e)) = 1 .. MaxDay
  <2> DEFINE d == DaysOf(e)
  <2>1. d = ParseField(e.day, 1, MaxDay)
    BY DEF DaysOf
  <2> HIDE DEF d
  <2>2. d \in Seq(ToSet(d)) /\ Len(d) \in Nat
    BY <1>1, <1>2, <2>1, Parsed
  <2>3. d # <<>> => d[1] \in 1 .. MaxDay
    BY <1>1, <1>2, <2>1, Parsed
  <2>4. e.day = Star => ToSet(d) = 1 .. MaxDay
    BY <1>1, <1>2, <2>1, Parsed
  <2> QED
    BY <2>2, <2>3, <2>4 DEF d
<1>6. MonthsOf(e) \in Seq(ToSet(MonthsOf(e))) /\ Len(MonthsOf(e)) \in Nat
  BY <1>1, <1>2, Parsed, ZenonT(40) DEF MonthsOf
<1>7. /\ Weekdays(e) \in Seq(ToSet(Weekdays(e))) /\ Len(Weekdays(e)) \in Nat
      /\ e.weekday = Star => ToSet(Weekdays(e)) = 0 .. WeekLength - 1
  BY <1>1, <1>2, Parsed, ZenonT(40) DEF Weekdays
<1> QED
  BY <1>3, <1>4, <1>5, <1>6, <1>7, Zenon DEF AllFields

(* What the loop tests is whether the time matches the expression.         *)
LEMMA LoopTestsMatch ==
  ASSUME NEW e \in Expressions, NEW t \in Times
  PROVE  Matches(e, t) <=> MonthMatches(e, t) /\ DayMatches(e, t) /\ TimeMatches(e, t)
<1>1. /\ Contains(MonthsOf(e), Month(t)) <=> Month(t) \in ToSet(MonthsOf(e))
      /\ Contains(Hours(e), HourOf(t)) <=> HourOf(t) \in ToSet(Hours(e))
      /\ Contains(Minutes(e), MinuteOf(t)) <=> MinuteOf(t) \in ToSet(Minutes(e))
      /\ Contains(DaysOf(e), DayOfMonth(t)) <=> DayOfMonth(t) \in ToSet(DaysOf(e))
      /\ Contains(Weekdays(e), Weekday(t)) <=> Weekday(t) \in ToSet(Weekdays(e))
  BY FieldValues, ContainsIsIn, ZenonT(40) DEF AllFields
<1>2. /\ e.day = Star => DayOfMonth(t) \in ToSet(DaysOf(e))
      /\ e.weekday = Star => Weekday(t) \in ToSet(Weekdays(e))
  BY FieldValues, FieldsInRange
<1>3. MonthMatches(e, t) <=> Month(t) \in ToSet(MonthsOf(e))
  BY <1>1 DEF MonthMatches
<1>4. TimeMatches(e, t) <=> HourOf(t) \in ToSet(Hours(e)) /\ MinuteOf(t) \in ToSet(Minutes(e))
  BY <1>1 DEF TimeMatches
<1> DEFINE day == DayOfMonth(t) \in ToSet(DaysOf(e))
           weekday == Weekday(t) \in ToSet(Weekdays(e))
<1>5. DayMatches(e, t) <=>
        IF Star \in {e.day, e.weekday} THEN day /\ weekday ELSE day \/ weekday
  BY <1>1, <1>2 DEF DayMatches
<1> QED
  BY <1>3, <1>4, <1>5 DEF Matches

-----------------------------------------------------------------------------
(* The short cut.                                                          *)

(* The month that DateAfter goes to.                                       *)
After(m) == IF m + 1 \in Months THEN m + 1 ELSE 1

(* The minutes of a month: the j-th after its first one is in the month    *)
(* and on the day that j says.                                             *)
LEMMA InMonth ==
  ASSUME NEW n \in Months, NEW d \in Nat, MonthStart[n] + d < MonthStart[n + 1],
         NEW w \in 0 .. MinutesPerDay - 1,
         NEW t, t = MonthStart[n] * MinutesPerDay + (d * MinutesPerDay + w)
  PROVE  /\ t \in Times /\ MonthOf(t) = n /\ DayOfMonth(t) = d + 1
         /\ HourOf(t) = w \div MinutesPerHour /\ MinuteOf(t) = w % MinutesPerHour
<1> DEFINE x == MonthStart[n] + d
<1>1. /\ MonthStart[n] \in Nat /\ MonthStart[n + 1] \in Nat /\ MonthStart[n + 1] <= Days
      /\ MinutesPerDay \in Nat
  BY MonthStartsGrow, CalendarTypes DEF Months, Days
<1>2. x \in 0 .. Days - 1
  BY <1>1, CalendarTypes, SMTT(30)
<1>3. t = x * MinutesPerDay + w
  BY <1>1
<1>4. MonthStart[n] <= x /\ x < MonthStart[n + 1] /\ x - MonthStart[n] + 1 = d + 1
  BY <1>1
<1> HIDE DEF x
<1>5. /\ t \in Times /\ Day(t) = x
      /\ HourOf(t) = w \div MinutesPerHour /\ MinuteOf(t) = w % MinutesPerHour
  BY <1>2, <1>3, Parts
<1>6. MonthOf(t) = n
  BY <1>4, <1>5, IsMonthOf
<1>7. DayOfMonth(t) = d + 1
  BY <1>4, <1>5, <1>6 DEF DayOfMonth
<1> QED
  BY <1>5, <1>6, <1>7

(* A time before the end of a day is less than that of the day's clock.    *)
LEMMA ClockOrder ==
  ASSUME NEW w \in 0 .. MinutesPerDay - 1,
         NEW h \in 0 .. HoursPerDay - 1, NEW m \in 0 .. MinutesPerHour - 1,
         w < h * MinutesPerHour + m
  PROVE  w \div MinutesPerHour < h \/ (w \div MinutesPerHour = h /\ w % MinutesPerHour < m)
<1> DEFINE q == w \div MinutesPerHour
           r == w % MinutesPerHour
<1>1. q \in Nat /\ r \in 0 .. MinutesPerHour - 1 /\ w = MinutesPerHour * q + r
  BY Clock, Positive
<1> HIDE DEF q, r
<1>2. ~(h < q)
  <2> SUFFICES ASSUME h < q PROVE FALSE
    OBVIOUS
  <2>1. MinutesPerHour * h + MinutesPerHour <= MinutesPerHour * q
    BY <1>1, Less, Positive
  <2> QED
    BY <1>1, <2>1, Positive
<1>3. q = h => r < m
  BY <1>1, Positive
<1>4. q < h \/ (q = h /\ r < m)
  BY <1>1, <1>2, <1>3, Positive
<1> QED
  BY <1>4 DEF q, r

(* An hour and a minute are a minute of the day.                           *)
LEMMA ClockOf ==
  ASSUME NEW h \in 0 .. HoursPerDay - 1, NEW m \in 0 .. MinutesPerHour - 1,
         NEW w, w = h * MinutesPerHour + m
  PROVE  w \in 0 .. MinutesPerDay - 1 /\ w \div MinutesPerHour = h /\ w % MinutesPerHour = m
<1>1. MinutesPerHour * h + MinutesPerHour <= MinutesPerHour * HoursPerDay
  BY Less, Positive
<1>2. w \in 0 .. MinutesPerDay - 1
  BY <1>1, Positive DEF MinutesPerDay
<1>3. w = MinutesPerHour * h + m
  BY Positive
<1> QED
  BY <1>2, <1>3, Quotient, Positive

(* The beginning of a month is in the cycle, or its end.                   *)
LEMMA MonthsInCycle ==
  ASSUME NEW m \in 1 .. Len(MonthStart)
  PROVE  MonthStart[m] * MinutesPerDay \in 0 .. Cycle
<1> DEFINE a == MonthStart[m]
<1>1. a \in Nat /\ Days \in Nat /\ a <= Days
  BY MonthStartsGrow, CalendarTypes DEF Days
<1> HIDE DEF a
<1>2. a * MinutesPerDay \in Nat /\ (Days - a) * MinutesPerDay >= 0
  BY <1>1, Positive
<1>3. a * MinutesPerDay <= Days * MinutesPerDay
  BY <1>1, <1>2, Positive
<1> QED
  BY <1>2, <1>3 DEF Cycle, a

(* A time is before a day, or not, as its own day is.                      *)
LEMMA DayBounds ==
  ASSUME NEW t \in Nat, NEW d \in Nat
  PROVE  /\ t < d * MinutesPerDay => Day(t) < d
         /\ d * MinutesPerDay <= t => d <= Day(t)
<1> DEFINE q == t \div MinutesPerDay
           r == t % MinutesPerDay
<1>1. q \in Nat /\ r \in 0 .. MinutesPerDay - 1 /\ t = MinutesPerDay * q + r
  BY Positive
<1> HIDE DEF q, r
<1>2. d < q => MinutesPerDay * d + MinutesPerDay <= MinutesPerDay * q
  BY <1>1, Less, Positive
<1>3. q < d => MinutesPerDay * q + MinutesPerDay <= MinutesPerDay * d
  BY <1>1, Less, Positive
<1>4. /\ t < d * MinutesPerDay => q < d
      /\ d * MinutesPerDay <= t => d <= q
  BY <1>1, <1>2, <1>3, Positive
<1> QED
  BY <1>4 DEF Day, q

(* Where one step of the short cut leads, and that nothing it passes       *)
(* matches, where it is right at all.                                      *)
LEMMA SkipPasses ==
  ASSUME NEW e \in Expressions, <<>> \notin AllFields(e), Len(DaysOf(e)) = 1, SkipsWell(e),
         NEW t \in Times, ~MonthMatches(e, t),
         NEW u, u = DateAfter(MonthOf(t), DaysOf(e)[1], Hours(e)[1], Minutes(e)[1])
  PROVE  /\ Matches(e, u) <=> MonthMatches(e, u)
         /\ \E k \in Nat \ {0} : /\ u = Plus(t, k)
                                 /\ \A j \in 1 .. k - 1 : ~Matches(e, Plus(t, j))
<1> DEFINE month == MonthOf(t)
           n == After(month)
           day == DaysOf(e)[1]
           hour == Hours(e)[1]
           minute == Minutes(e)[1]
           clock == hour * MinutesPerHour + minute
           start == MonthStart[month + 1] * MinutesPerDay
           first == MonthStart[n] * MinutesPerDay
           off == (day - 1) * MinutesPerDay + clock
           k == start + off - t
<1>1. /\ day \in 1 .. MaxDay /\ hour \in 0 .. HoursPerDay - 1
      /\ minute \in 0 .. MinutesPerHour - 1
      /\ ToSet(DaysOf(e)) = {day}
      /\ \A h \in ToSet(Hours(e)) : hour <= h
      /\ \A m \in ToSet(Minutes(e)) : minute <= m
  <2>1. /\ DaysOf(e) # <<>> /\ Hours(e) # <<>> /\ Minutes(e) # <<>>
        /\ DaysOf(e) \in Seq(ToSet(DaysOf(e)))
    BY FieldValues DEF AllFields
  <2>2. DOMAIN DaysOf(e) = 1 .. 1
    BY <2>1
  <2>3. ToSet(DaysOf(e)) = {day}
    BY <2>2 DEF ToSet
  <2>4. /\ \A i \in DOMAIN Hours(e) : hour <= Hours(e)[i]
        /\ \A i \in DOMAIN Minutes(e) : minute <= Minutes(e)[i]
    BY DEF SkipsWell
  <2> QED
    BY <2>1, <2>3, <2>4, FieldValues DEF ToSet
<1>2. /\ month \in Months /\ n \in Months /\ month + 1 \in 1 .. Len(MonthStart)
      /\ MonthStart[month + 1] \in Nat /\ MonthStart[n] \in Nat /\ MonthStart[n + 1] \in Nat
  BY MonthOfTime, CalendarTypes DEF Months, After
<1>3. /\ t \in Nat /\ MinutesPerDay \in Nat \ {0} /\ MinutesPerHour \in Nat \ {0}
      /\ HoursPerDay \in Nat \ {0} /\ Cycle \in Nat \ {0}
  BY Positive DEF Times
<1>4. clock \in 0 .. MinutesPerDay - 1
  BY <1>1, ClockOf
<1>5. MonthStart[n] + (day - 1) < MonthStart[n + 1]
  BY <1>1, <1>2 DEF SkipsWell
<1>6. start \in Nat /\ first \in Nat /\ off \in Nat
  <2>1. \A a \in Nat : a * MinutesPerDay \in Nat
    BY <1>3
  <2>2. day - 1 \in Nat /\ clock \in Nat
    BY <1>1, <1>3, <1>4
  <2>3. start \in Nat
    BY <1>2, MonthsInCycle
  <2>4. first \in Nat
    BY <1>2, MonthsInCycle DEF Months
  <2>5. off \in Nat
    <3> HIDE DEF day, clock
    <3> QED
      BY <2>1, <2>2
  <2> QED
    BY <2>3, <2>4, <2>5
<1>7. t < start
  <2>1. Day(t) \in Nat /\ Day(t) < MonthStart[month + 1]
    BY MonthOfTime, DayOfTime
  <2>2. MinutesPerDay * Day(t) + MinutesPerDay <= MinutesPerDay * MonthStart[month + 1]
    <3> DEFINE p == MonthStart[month + 1]
               q == Day(t)
    <3>1. p \in Int /\ q \in Int /\ q < p /\ MinutesPerDay \in Nat
      BY <1>2, <1>3, <2>1
    <3> HIDE DEF p, q
    <3>2. MinutesPerDay * q + MinutesPerDay <= MinutesPerDay * p
      BY <3>1, Less
    <3> QED
      BY <3>2 DEF p, q
  <2>3. t = MinutesPerDay * Day(t) + (t % MinutesPerDay) /\ t % MinutesPerDay \in 0 .. MinutesPerDay - 1
    BY <1>3, Division DEF Day
  <2> QED
    BY <1>2, <1>3, <2>1, <2>2, <2>3
<1>8. start = first \/ start = first + Cycle
  <2>1. CASE month + 1 \in Months
    BY <2>1 DEF After
  <2>2. CASE month + 1 \notin Months
    <3>1. month + 1 = Len(MonthStart) /\ n = 1
      BY <1>2, <2>2, CalendarTypes DEF Months, After
    <3>2. start = Days * MinutesPerDay /\ first = 0
      BY <1>3, <3>1, CalendarOK DEF Days
    <3> QED
      BY <1>3, <3>2, CalendarTypes
  <2> QED
    BY <2>1, <2>2
<1>9. \A v \in Nat : first + v \in Times => Plus(start, v) = first + v
  <2> SUFFICES ASSUME NEW v \in Nat, first + v \in Times PROVE Plus(start, v) = first + v
    OBVIOUS
  <2> DEFINE x == start + v
             y == first + v
             c == IF start = first THEN 0 ELSE 1
  <2>1. x \in Int /\ y \in 0 .. Cycle - 1 /\ c \in Int /\ x = y + Cycle * c
    BY <1>3, <1>6, <1>8 DEF Times
  <2> HIDE DEF x, y, c
  <2>2. x % Cycle = y % Cycle
    BY <2>1, CycleRemainder
  <2>3. y % Cycle = y
    BY <2>1, SmallRemainder, Positive
  <2> QED
    BY <2>2, <2>3 DEF Plus, x, y
<1>10. /\ first + off \in Times /\ MonthOf(first + off) = n /\ DayOfMonth(first + off) = day
       /\ HourOf(first + off) = hour /\ MinuteOf(first + off) = minute
  <2>1. clock \div MinutesPerHour = hour /\ clock % MinutesPerHour = minute
    BY <1>1, ClockOf
  <2> DEFINE d == day - 1
             x == first + off
  <2>2. /\ d \in Nat /\ d + 1 = day /\ MonthStart[n] + d < MonthStart[n + 1]
        /\ x = MonthStart[n] * MinutesPerDay + (d * MinutesPerDay + clock)
    BY <1>1, <1>5
  <2> HIDE DEF d, x, n, clock, day
  <2>3. /\ x \in Times /\ MonthOf(x) = n /\ DayOfMonth(x) = d + 1
        /\ HourOf(x) = clock \div MinutesPerHour /\ MinuteOf(x) = clock % MinutesPerHour
    BY <1>2, <1>4, <2>2, InMonth
  <2> QED
    BY <2>1, <2>2, <2>3 DEF x
<1>11. u = first + off
  <2>0. (day - 1) * MinutesPerDay + hour * MinutesPerHour + minute = off
    BY <1>1, <1>3
  <2>1. u = Plus(first, off)
    BY <2>0 DEF DateAfter, After
  <2>2. first + off \in 0 .. Cycle - 1
    BY <1>10 DEF Times
  <2> QED
    BY <1>3, <2>1, <2>2, SmallRemainder DEF Plus
<1>12. k \in Nat \ {0} /\ u = Plus(t, k)
  <2>1. k \in Nat \ {0} /\ t + k = start + off
    BY <1>3, <1>6, <1>7
  <2>2. Plus(start, off) = first + off
    BY <1>6, <1>9, <1>10
  <2> HIDE DEF k, start, off, first
  <2> QED
    BY <1>11, <2>1, <2>2 DEF Plus
(* In the rest of the month, and before the day and the time given.        *)
<1>13. ASSUME NEW j \in 1 .. k - 1, t + j < start
       PROVE  ~Matches(e, Plus(t, j))
  <2> DEFINE x == t + j
  <2>1. x \in Nat /\ t <= x /\ x < start
    BY <1>3, <1>6, <1>13
  <2>2. Plus(t, j) = x /\ x \in Times
    <3>1. x \in 0 .. Cycle - 1
      BY <1>2, <1>3, <2>1, MonthsInCycle
    <3> QED
      BY <1>3, <3>1, SmallRemainder DEF Plus, Times
  <2>4. MonthOf(x) = month
    <3>1. Day(x) < MonthStart[month + 1]
      BY <1>2, <2>1, DayBounds
    <3>2. Day(t) \in Nat /\ Day(t) * MinutesPerDay <= t
      BY <1>3 DEF Day
    <3>3. Day(t) <= Day(x)
      BY <1>3, <2>1, <3>2, DayBounds
    <3>4. MonthStart[month] <= Day(t) /\ MonthStart[month] \in Nat
      BY <1>2, MonthOfTime, CalendarTypes DEF Months
    <3>5. MonthStart[month] <= Day(x)
      BY <2>2, <3>2, <3>3, <3>4, DayOfTime
    <3> QED
      BY <1>2, <2>2, <3>1, <3>5, IsMonthOf
  <2>3. ~MonthMatches(e, x)
    BY <2>4 DEF MonthMatches, Month
  <2> QED
    BY <2>2, <2>3, LoopTestsMatch
<1>14. ASSUME NEW j \in 1 .. k - 1, ~(t + j < start)
       PROVE  ~Matches(e, Plus(t, j))
  <2> DEFINE v == t + j - start
             d == v \div MinutesPerDay
             w == v % MinutesPerDay
             x == first + v
  <2>1. v \in Nat /\ v < off /\ t + j = start + v
    BY <1>3, <1>6, <1>14
  <2> HIDE DEF v
  <2>2. d \in Nat /\ w \in 0 .. MinutesPerDay - 1 /\ v = d * MinutesPerDay + w
    <3>1. v \in Nat
      BY <2>1
    <3> QED
      BY <3>1, Positive
  <2> HIDE DEF d, w
  <2>3. d <= day - 1 /\ (d = day - 1 => w < clock)
    <3> DEFINE p == day - 1
    <3>0. p \in Nat /\ clock \in Int
      BY <1>1, <1>4
    <3> HIDE DEF p, clock
    <3>5. off = MinutesPerDay * p + clock
      <4>1. off = p * MinutesPerDay + clock
        BY DEF p
      <4> QED
        BY <1>3, <3>0, <4>1
    <3>1. v < MinutesPerDay * p + clock
      BY <2>1, <3>5
    <3>4. v = MinutesPerDay * d + w
      BY <1>3, <2>2
    <3>2. p < d => MinutesPerDay * p + MinutesPerDay <= MinutesPerDay * d
      BY <1>3, <2>2, <3>0, Less
    <3>3. d <= p /\ (d = p => w < clock)
      BY <1>3, <1>4, <2>1, <2>2, <3>0, <3>1, <3>2, <3>4
    <3> QED
      BY <3>3 DEF p
  <2>4. /\ x \in Times /\ MonthOf(x) = n /\ DayOfMonth(x) = d + 1
        /\ HourOf(x) = w \div MinutesPerHour /\ MinuteOf(x) = w % MinutesPerHour
    <3>1. MonthStart[n] + d < MonthStart[n + 1]
      BY <1>1, <1>2, <1>5, <2>2, <2>3, SMTT(30)
    <3>2. x = MonthStart[n] * MinutesPerDay + (d * MinutesPerDay + w)
      BY <2>2
    <3> HIDE DEF x, n
    <3> QED
      BY <1>2, <2>2, <3>1, <3>2, InMonth
  <2>5. Plus(t, j) = x
    BY <1>9, <2>1, <2>4 DEF Plus
  <2>6. ~Matches(e, x)
    <3>1. Matches(e, x) => /\ DayOfMonth(x) \in ToSet(DaysOf(e))
                           /\ HourOf(x) \in ToSet(Hours(e)) /\ MinuteOf(x) \in ToSet(Minutes(e))
      BY DEF Matches, SkipsWell
    <3>2. CASE d # day - 1
      BY <1>1, <2>2, <2>4, <3>1, <3>2
    <3>3. CASE d = day - 1
      <4>1. \/ w \div MinutesPerHour < hour
            \/ w \div MinutesPerHour = hour /\ w % MinutesPerHour < minute
        BY <1>1, <2>2, <2>3, <3>3, ClockOrder
      <4>2. HourOf(x) \in Int /\ MinuteOf(x) \in Int
        BY <2>2, <2>4, Clock
      <4>3. HourOf(x) < hour => HourOf(x) \notin ToSet(Hours(e))
        BY <1>1, <4>2
      <4>4. MinuteOf(x) < minute => MinuteOf(x) \notin ToSet(Minutes(e))
        BY <1>1, <4>2
      <4> QED
        BY <2>4, <3>1, <4>1, <4>3, <4>4
    <3> QED
      BY <3>2, <3>3
  <2> QED
    BY <2>5, <2>6
<1>15. Matches(e, u) <=> MonthMatches(e, u)
  <2>1. /\ DayOfMonth(u) \in ToSet(DaysOf(e))
        /\ HourOf(u) \in ToSet(Hours(e)) /\ MinuteOf(u) \in ToSet(Minutes(e))
    <3>1. /\ Hours(e) # <<>> /\ Hours(e) \in Seq(ToSet(Hours(e)))
          /\ Minutes(e) # <<>> /\ Minutes(e) \in Seq(ToSet(Minutes(e)))
      BY FieldValues DEF AllFields
    <3>2. hour \in ToSet(Hours(e)) /\ minute \in ToSet(Minutes(e))
      BY <3>1 DEF ToSet
    <3> QED
      BY <1>1, <1>10, <1>11, <3>2
  <2>2. u \in Times
    BY <1>10, <1>11
  <2>3. e.weekday = Star => Weekday(u) \in ToSet(Weekdays(e))
    BY <2>2, FieldValues, FieldsInRange
  <2>4. MonthMatches(e, u) <=> Month(u) \in ToSet(MonthsOf(e))
    BY FieldValues, ContainsIsIn DEF MonthMatches, AllFields
  <2> QED
    BY <2>1, <2>3, <2>4 DEF Matches, SkipsWell
<1> HIDE DEF k
<1> QED
  BY <1>12, <1>13, <1>14, <1>15

-----------------------------------------------------------------------------
(* The search.                                                             *)

(* No time that the search has passed matches.                             *)
NonePassed(k) == \A j \in 1 .. k : ~Matches(expr, Plus(now, j))

(* Where the search is, and what it has passed.                            *)
SearchInv ==
  /\ expr \in Expressions /\ now \in Times /\ next \in Times
  /\ iterations \in Nat /\ iterations <= MaxIterations(expr)
  /\ at \in {"search", "skip", "found", "skipped", "fallback"}
  /\ at # "fallback" => <<>> \notin AllFields(expr)
  /\ at = "search" => next = Plus(now, iterations) /\ NonePassed(iterations)
  /\ at = "found" => /\ iterations > 0 /\ next = Plus(now, iterations)
                     /\ NonePassed(iterations - 1) /\ Matches(expr, next)
  /\ at = "skip" => Len(DaysOf(expr)) = 1 /\ ~MonthMatches(expr, next)
  /\ at = "skip" /\ SkipsWell(expr) => \E k \in Nat \ {0} : next = Plus(now, k) /\ NonePassed(k)
  /\ at = "skipped" /\ SkipsWell(expr) =>
       \E k \in Nat \ {0} : next = Plus(now, k) /\ NonePassed(k - 1) /\ Matches(expr, next)
  /\ at = "fallback" /\ iterations > 0 => NonePassed(MaxIterations(expr))

LEMMA MaxIterationsType ==
  ASSUME NEW e
  PROVE  MaxIterations(e) \in Nat
BY CalendarTypes DEF MaxIterations

(* The short cut stays in the cycle, right or wrong.                       *)
LEMMA LandsInCycle ==
  ASSUME NEW e \in Expressions, <<>> \notin AllFields(e), NEW t \in Times
  PROVE  DateAfter(MonthOf(t), DaysOf(e)[1], Hours(e)[1], Minutes(e)[1]) \in Times
<1> DEFINE n == After(MonthOf(t))
           first == MonthStart[n] * MinutesPerDay
           day == DaysOf(e)[1]
           hour == Hours(e)[1]
           minute == Minutes(e)[1]
           off == (day - 1) * MinutesPerDay + hour * MinutesPerHour + minute
<1>1. day \in Int /\ hour \in Int /\ minute \in Int
  BY FieldValues DEF AllFields
<1>2. n \in 1 .. Len(MonthStart)
  BY MonthOfTime, CalendarTypes DEF After, Months
<1>3. first \in Int
  BY <1>2, MonthsInCycle
<1>4. off \in Int
  <2> HIDE DEF day, hour, minute
  <2> QED
    BY <1>1, Positive
<1>5. DateAfter(MonthOf(t), day, hour, minute) = Plus(first, off)
  BY DEF DateAfter, After
<1> HIDE DEF first, off
<1> QED
  BY <1>3, <1>4, <1>5, PlusTimes

(* SearchInv is inductive, and implies what is to be shown.                *)
LEMMA SearchStarts == ExprInit => SearchInv
<1> SUFFICES ASSUME ExprInit PROVE SearchInv
  OBVIOUS
<1>1. now \in Times /\ expr \in Expressions /\ iterations = 0
  BY CalendarOK DEF ExprInit
<1>2. now \in Int /\ Plus(now, 0) = now
  BY <1>1, PlusZero, CalendarTypes DEF Times
<1>3. next \in Times
  BY <1>1, <1>2, PlusTimes, CalendarTypes DEF ExprInit
<1>4. NonePassed(0)
  BY DEF NonePassed
<1>5. MaxIterations(expr) \in Nat
  BY MaxIterationsType
<1> QED
  BY <1>1, <1>2, <1>3, <1>4, <1>5 DEF SearchInv, ExprInit

(* A stretch without a match after another one.                            *)
LEMMA PassedMore ==
  ASSUME now \in Times, NEW k \in Nat, NonePassed(k), NEW j \in Nat \ {0},
         \A i \in 1 .. j - 1 : ~Matches(expr, Plus(Plus(now, k), i))
  PROVE  NonePassed(k + j - 1) /\ Plus(Plus(now, k), j) = Plus(now, k + j)
<1>1. now \in Int
  BY CalendarTypes DEF Times
<1>2. \A i \in Nat : Plus(Plus(now, k), i) = Plus(now, k + i)
  BY <1>1, PlusPlus
<1>3. ASSUME NEW n \in 1 .. (k + j - 1), ~(n <= k)
      PROVE  ~Matches(expr, Plus(now, n))
  <2>1. n - k \in 1 .. j - 1 /\ k + (n - k) = n
    BY <1>3
  <2> QED
    BY <1>2, <2>1
<1>4. NonePassed(k + j - 1)
  BY <1>3 DEF NonePassed
<1> QED
  BY <1>2, <1>4

(* One more time that does not match.                                      *)
LEMMA PassedMatch ==
  ASSUME NEW k \in Nat, NonePassed(k), ~Matches(expr, Plus(now, k + 1))
  PROVE  NonePassed(k + 1)
BY DEF NonePassed

LEMMA SearchStep == SearchInv /\ [ExprNext]_exprVars => SearchInv'
<1> SUFFICES ASSUME SearchInv, [ExprNext]_exprVars PROVE SearchInv'
  OBVIOUS
<1> DEFINE max == MaxIterations(expr)
<1>0. max \in Nat /\ now \in Int /\ next \in Int
  BY MaxIterationsType, CalendarTypes DEF SearchInv, Times
<1>1. CASE Iterate
  <2> DEFINE t == Plus(next, 1)
  <2>1. /\ at = "search" /\ iterations < max /\ next' = t /\ iterations' = iterations + 1
        /\ expr' = expr /\ now' = now /\ at' \in {"skip", "found", "search"}
    BY <1>1 DEF Iterate
  <2>2. /\ at' = "skip" <=> ~MonthMatches(expr, t) /\ Len(DaysOf(expr)) = 1
        /\ at' = "found" <=> MonthMatches(expr, t) /\ DayMatches(expr, t) /\ TimeMatches(expr, t)
    BY <1>1 DEF Iterate
  <2>3. t \in Times /\ t = Plus(now, iterations + 1)
    BY <1>0, <2>1, PlusTimes, PlusPlus DEF SearchInv
  <2>4. NonePassed(iterations) /\ iterations \in Nat /\ <<>> \notin AllFields(expr)
    BY <2>1 DEF SearchInv
  <2>5. at' = "found" <=> Matches(expr, t)
    BY <2>2, <2>3, LoopTestsMatch DEF SearchInv
  <2>6. at' # "found" => NonePassed(iterations + 1)
    BY <2>3, <2>4, <2>5, PassedMatch
  <2> HIDE DEF t
  <2>7. \A k : NonePassed(k)' <=> NonePassed(k)
    BY <2>1 DEF NonePassed
  <2> QED
    BY <1>0, <2>1, <2>2, <2>3, <2>4, <2>5, <2>6, <2>7 DEF SearchInv
<1>2. CASE SkipMonth
  <2>1. /\ at = "skip" /\ at' \in {"skipped", "skip"} /\ UNCHANGED <<expr, now, iterations>>
        /\ next' = DateAfter(MonthOf(next), DaysOf(expr)[1], Hours(expr)[1], Minutes(expr)[1])
        /\ at' = "skipped" <=> MonthMatches(expr, next')
    BY <1>2 DEF SkipMonth
  <2>2. next' \in Times
    BY <2>1, LandsInCycle DEF SearchInv
  <2>3. \A k : NonePassed(k)' <=> NonePassed(k)
    BY <2>1 DEF NonePassed
  <2>4. ASSUME SkipsWell(expr)
        PROVE  \E k \in Nat \ {0} :
                 /\ next' = Plus(now, k) /\ NonePassed(k - 1)
                 /\ IF at' = "skipped" THEN Matches(expr, next') ELSE NonePassed(k)
    <3>1. PICK k \in Nat \ {0} : next = Plus(now, k) /\ NonePassed(k)
      BY <2>1, <2>4 DEF SearchInv
    <3>2. /\ Matches(expr, next') <=> MonthMatches(expr, next')
          /\ \E j \in Nat \ {0} : /\ next' = Plus(next, j)
                                  /\ \A i \in 1 .. j - 1 : ~Matches(expr, Plus(next, i))
      BY <2>1, <2>4, SkipPasses DEF SearchInv
    <3>3. PICK j \in Nat \ {0} : /\ next' = Plus(next, j)
                                 /\ \A i \in 1 .. j - 1 : ~Matches(expr, Plus(next, i))
      BY <3>2
    <3>4. NonePassed(k + j - 1) /\ next' = Plus(now, k + j)
      BY <3>1, <3>3, PassedMore DEF SearchInv
    <3>5. k + j - 1 \in Nat /\ (k + j - 1) + 1 = k + j /\ k + j \in Nat \ {0}
      OBVIOUS
    <3>6. ~Matches(expr, next') => NonePassed(k + j)
      BY <3>4, <3>5, PassedMatch
    <3> QED
      BY <2>1, <3>2, <3>4, <3>5, <3>6
  <2> QED
    BY <1>0, <2>1, <2>2, <2>3, <2>4 DEF SearchInv
<1>3. CASE GiveUp
  <2>1. /\ at = "search" /\ iterations = max /\ at' = "fallback"
        /\ next' = Plus(now, MinutesPerHour) /\ UNCHANGED <<expr, now, iterations>>
    BY <1>0, <1>3 DEF GiveUp, SearchInv
  <2>2. next' \in Times
    BY <1>0, <2>1, PlusTimes, Positive
  <2>3. \A k : NonePassed(k)' <=> NonePassed(k)
    BY <2>1 DEF NonePassed
  <2> QED
    BY <2>1, <2>2, <2>3 DEF SearchInv
<1>4. CASE UNCHANGED exprVars
  BY <1>4 DEF exprVars, SearchInv, NonePassed
<1> QED
  BY <1>1, <1>2, <1>3, <1>4 DEF ExprNext

LEMMA SearchIsFirst == SearchInv => ReturnsFirstMatch
<1> SUFFICES ASSUME SearchInv PROVE ReturnsFirstMatch
  OBVIOUS
<1>1. ASSUME NEW k \in Nat \ {0}, next = Plus(now, k), NonePassed(k - 1)
      PROVE  \A t \in Between(now, next) : ~Matches(expr, t)
  BY <1>1, BetweenPassed DEF SearchInv, NonePassed
<1>2. at = "found" => Matches(expr, next) /\ \A t \in Between(now, next) : ~Matches(expr, t)
  <2> SUFFICES ASSUME at = "found" PROVE Matches(expr, next) /\ \A t \in Between(now, next) : ~Matches(expr, t)
    OBVIOUS
  <2>1. iterations \in Nat \ {0}
    BY DEF SearchInv
  <2> QED
    BY <1>1, <2>1 DEF SearchInv
<1>3. at = "skipped" /\ SkipsWell(expr) =>
        Matches(expr, next) /\ \A t \in Between(now, next) : ~Matches(expr, t)
  BY <1>1 DEF SearchInv
<1>4. at = "fallback" /\ iterations > 0 => NonePassed(MaxIterations(expr))
  BY DEF SearchInv
<1> QED
  BY <1>2, <1>3, <1>4 DEF ReturnsFirstMatch, NonePassed

(* parseCronExpression returns the first time after now that matches, or   *)
(* an hour from now if none within its limit does.                         *)
THEOREM FirstMatch == ExprSpec => []ReturnsFirstMatch
<1>1. ExprSpec => []SearchInv
  BY SearchStarts, SearchStep, PTL DEF ExprSpec
<1> QED
  BY <1>1, SearchIsFirst, PTL

(* The search stays at one of its steps, in the calendar and within its    *)
(* limit, whatever the fields of the expression are.                       *)
LEMMA SearchTyped == SearchInv /\ now \in Starts => ExprTypeOK
<1>1. \A n \in Nat : SearchInv /\ MaxIterations(expr) = n => iterations \in 0..n
  BY DEF SearchInv
<1> QED
  BY <1>1, MaxIterationsType DEF SearchInv, ExprTypeOK

LEMMA StartStays == now \in Starts /\ [ExprNext]_exprVars => (now \in Starts)'
BY DEF ExprNext, Iterate, SkipMonth, GiveUp, exprVars

(* Whatever the expression and the start, the search takes no more than    *)
(* its limit of iterations and every variable keeps its type.              *)
THEOREM SearchTypes == ExprSpec => []ExprTypeOK
<1>1. ExprInit => now \in Starts
  BY DEF ExprInit
<1> QED
  BY <1>1, SearchStarts, SearchStep, SearchTyped, StartStays, PTL DEF ExprSpec
=============================================================================
