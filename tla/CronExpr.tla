------------------------------ MODULE CronExpr ------------------------------
(***************************************************************************)
(* parseCronExpression for the five fields: the search for the next time   *)
(* that matches a cron expression, minute by minute up to a limit, with a  *)
(* short cut over months for an expression that names one day.             *)
(*                                                                         *)
(* The calendar is one whole cycle of months, after which weekdays and     *)
(* months repeat (400 years of the real one); a time is a minute of the    *)
(* cycle.  The length of a day, a week, a year and of every month are      *)
(* constants, so that a cycle can be short.                                *)
(***************************************************************************)
EXTENDS Integers, Sequences, FiniteSets, SequencesExt, Subsequences

CONSTANTS
  MonthStart,  \* the first day of every month of the cycle, and of the month after it
  MonthsPerYear, WeekLength, HoursPerDay, MinutesPerHour,
  MaxDay,      \* 31
  Expressions, \* what is given to the parser
  Starts       \* the times a search begins at

Months == 1 .. Len(MonthStart) - 1
Days == MonthStart[Len(MonthStart)]
MinutesPerDay == HoursPerDay * MinutesPerHour
Cycle == Days * MinutesPerDay
Times == 0 .. Cycle - 1

ASSUME CalendarOK ==
  /\ MonthStart \in Seq(Nat) /\ Len(MonthStart) > 1 /\ MonthStart[1] = 0
  /\ \A m, n \in DOMAIN MonthStart : m < n => MonthStart[m] < MonthStart[n]
  /\ {MonthsPerYear, WeekLength, HoursPerDay, MinutesPerHour, MaxDay} \subseteq Nat \ {0}
  /\ \A m \in Months : MonthStart[m + 1] <= MonthStart[m] + MaxDay
  /\ (Len(MonthStart) - 1) % MonthsPerYear = 0 /\ Days % WeekLength = 0
  /\ Starts \subseteq Times

(* The fields of a time as package time counts them.                       *)
Plus(t, minutes) == (t + minutes) % Cycle
Day(t) == t \div MinutesPerDay
MonthOf(t) == CHOOSE m \in Months : MonthStart[m] <= Day(t) /\ Day(t) < MonthStart[m + 1]
MinuteOf(t) == t % MinutesPerHour
HourOf(t) == (t \div MinutesPerHour) % HoursPerDay
DayOfMonth(t) == Day(t) - MonthStart[MonthOf(t)] + 1
Month(t) == ((MonthOf(t) - 1) % MonthsPerYear) + 1
Weekday(t) == Day(t) % WeekLength

(* time.Date for the month after m, which carries a day beyond the end of  *)
(* that month over.                                                        *)
DateAfter(m, day, hour, minute) ==
  Plus(MonthStart[IF m + 1 \in Months THEN m + 1 ELSE 1] * MinutesPerDay,
       (day - 1) * MinutesPerDay + hour * MinutesPerHour + minute)

-----------------------------------------------------------------------------
(* Fields.                                                                 *)

Star == [form |-> "*"]
Every(n) == [form |-> "*/", step |-> n]
List(vals) == [form |-> ",", vals |-> vals]
FromTo(a, b) == [form |-> "-", from |-> a, to |-> b]

FieldOK(field) ==
  \/ field = Star
  \/ field.form = "*/" /\ field.step \in Int
  \/ field.form = "," /\ field.vals \in Seq(Int)
  \/ field.form = "-" /\ field.from \in Int /\ field.to \in Int

ASSUME ExpressionsOK ==
  \A e \in Expressions : \A field \in {e.minute, e.hour, e.day, e.month, e.weekday} : FieldOK(field)

(* Interval as a sequence.                                                 *)
Upto(lo, hi, step) == [i \in 1 .. (IF hi < lo THEN 0 ELSE (hi - lo) \div step + 1) |-> lo + (i - 1) * step]

(* The values in range, in the order they are written in.                  *)
Within(vals, min, max) == Kept(vals, {i \in DOMAIN vals : vals[i] \in min..max})

(* parseField.                                                             *)
ParseField(field, min, max) ==
  CASE field.form = "*" -> Upto(min, max, 1)
    [] field.form = "*/" -> IF field.step <= 0 THEN <<>> ELSE Upto(min, max, field.step)
    [] field.form = "," -> Within(field.vals, min, max)
    [] field.form = "-" -> Within(Upto(field.from, field.to, 1), min, max)

Minutes(e) == ParseField(e.minute, 0, MinutesPerHour - 1)
Hours(e) == ParseField(e.hour, 0, HoursPerDay - 1)
DaysOf(e) == ParseField(e.day, 1, MaxDay)
MonthsOf(e) == ParseField(e.month, 1, MonthsPerYear)
Weekdays(e) == ParseField(e.weekday, 0, WeekLength - 1)
AllFields(e) == {Minutes(e), Hours(e), DaysOf(e), MonthsOf(e), Weekdays(e)}

(* The bound of the search: a week, or a month if a field names one value. *)
MaxIterations(e) ==
  IF 1 \in {Len(MonthsOf(e)), Len(DaysOf(e)), Len(Hours(e))}
  THEN MaxDay * MinutesPerDay
  ELSE WeekLength * MinutesPerDay

(* A day of the month and a weekday, if both are given, are alternatives.  *)
DayMatches(e, t) ==
  LET day == Contains(DaysOf(e), DayOfMonth(t))
      weekday == Contains(Weekdays(e), Weekday(t))
  IN  IF e.day # Star /\ e.weekday # Star
      THEN day \/ weekday
      ELSE (e.day = Star \/ day) /\ (e.weekday = Star \/ weekday)

MonthMatches(e, t) == Contains(MonthsOf(e), Month(t))
TimeMatches(e, t) == Contains(Hours(e), HourOf(t)) /\ Contains(Minutes(e), MinuteOf(t))

-----------------------------------------------------------------------------
VARIABLES
  expr, now, \* the arguments
  at,        \* where the search is
  next,
  iterations \* i

exprVars == <<expr, now, at, next, iterations>>

ExprInit ==
  /\ expr \in Expressions /\ now \in Starts
  /\ at = IF <<>> \in AllFields(expr) THEN "fallback" ELSE "search"
  /\ next = IF at = "fallback" THEN Plus(now, MinutesPerHour) ELSE now
  /\ iterations = 0

ExprTypeOK ==
  /\ expr \in Expressions /\ now \in Starts
  /\ at \in {"search", "skip", "found", "skipped", "fallback"}
  /\ next \in Times
  /\ iterations \in 0 .. MaxIterations(expr)

(* Mutant: the first iteration looks at the time the search begins at.     *)
IterateFromNow ==
  LET t == Plus(next, IF iterations = 0 THEN 0 ELSE 1)
  IN  /\ at = "search" /\ iterations < MaxIterations(expr)
      /\ next' = t
      /\ iterations' = iterations + 1
      /\ at' = CASE ~MonthMatches(expr, t) /\ Len(DaysOf(expr)) = 1 -> "skip"
                 [] MonthMatches(expr, t) /\ DayMatches(expr, t) /\ TimeMatches(expr, t) -> "found"
                 [] OTHER -> "search"
      /\ UNCHANGED <<expr, now>>

(* One iteration: the next minute matches, is in a month that does not and *)
(* is left by the short cut, or is passed over.                            *)
Iterate ==
  LET t == Plus(next, 1)
  IN  /\ at = "search" /\ iterations < MaxIterations(expr)
      /\ next' = t
      /\ iterations' = iterations + 1
      /\ at' = CASE ~MonthMatches(expr, t) /\ Len(DaysOf(expr)) = 1 -> "skip"
                 [] MonthMatches(expr, t) /\ DayMatches(expr, t) /\ TimeMatches(expr, t) -> "found"
                 [] OTHER -> "search"
      /\ UNCHANGED <<expr, now>>

(* The short cut: the day in the month after, until its month matches;     *)
(* this loop has no limit, and what it ends with is returned.              *)
SkipMonth ==
  /\ at = "skip"
  /\ next' = DateAfter(MonthOf(next), DaysOf(expr)[1], Hours(expr)[1], Minutes(expr)[1])
  /\ at' = IF MonthMatches(expr, next') THEN "skipped" ELSE "skip"
  /\ UNCHANGED <<expr, now, iterations>>

(* An hour from now.                                                       *)
GiveUp ==
  /\ at = "search" /\ iterations >= MaxIterations(expr)
  /\ at' = "fallback" /\ next' = Plus(now, MinutesPerHour)
  /\ UNCHANGED <<expr, now, iterations>>

ExprNext == Iterate \/ SkipMonth \/ GiveUp
ExprSpec == ExprInit /\ [][ExprNext]_exprVars
ExprFairSpec == ExprSpec /\ WF_exprVars(ExprNext)

-----------------------------------------------------------------------------
(* A time matches an expression: every field holds, where a day and a      *)
(* weekday that are both restricted are alternatives.                      *)
Matches(e, t) ==
  LET day == DayOfMonth(t) \in ToSet(DaysOf(e))
      weekday == Weekday(t) \in ToSet(Weekdays(e))
  IN  /\ Month(t) \in ToSet(MonthsOf(e))
      /\ HourOf(t) \in ToSet(Hours(e)) /\ MinuteOf(t) \in ToSet(Minutes(e))
      /\ IF Star \in {e.day, e.weekday} THEN day /\ weekday ELSE day \/ weekday

Between(a, b) == {Plus(a, k) : k \in 1 .. ((b - a - 1) % Cycle)}

(* The short cut is right for an expression that leaves the weekday open   *)
(* and names a day that every month has.                                   *)
SkipsWell(e) ==
  /\ e.weekday = Star /\ \A m \in Months : MonthStart[m] + DaysOf(e)[1] <= MonthStart[m + 1]
  /\ \A vals \in {Hours(e), Minutes(e)} : \A i \in DOMAIN vals : vals[1] <= vals[i]

(* The time returned is the first one after now that matches, and there is *)
(* none within the limit of the search if it is the fallback.              *)
ReturnsFirstMatch ==
  /\ at = "found" \/ (at = "skipped" /\ SkipsWell(expr)) =>
        Matches(expr, next) /\ \A t \in Between(now, next) : ~Matches(expr, t)
  /\ at = "fallback" /\ iterations > 0 =>
        \A k \in 1 .. MaxIterations(expr) : ~Matches(expr, Plus(now, k))

(* The search ends, with a match or after its limit.                       *)
SearchEnds == <>(at \in {"found", "skipped", "fallback"})
=============================================================================
