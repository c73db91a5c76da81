------------------------------- MODULE Calendar -------------------------------
(***************************************************************************)
(* Dates as chrono counts them, and a repeat interval added to one.  A     *)
(* date is the number of days since 1 January 2024; months are counted     *)
(* from the same day.                                                      *)
(***************************************************************************)
EXTENDS Integers

Leap(year) == year % 4 = 0 /\ (year % 100 # 0 \/ year % 400 = 0)

MonthLength(k) ==
    CASE k % 12 = 1 -> IF Leap(2024 + k \div 12) THEN 29 ELSE 28
      [] k % 12 \in {3, 5, 8, 10} -> 30
      [] OTHER -> 31

MonthStart[k \in Nat] ==
    IF k = 0 THEN 0 ELSE MonthStart[k - 1] + MonthLength(k - 1)

MonthOf(date) ==
    CHOOSE k \in 0 .. date \div 28 :
        MonthStart[k] <= date /\ date < MonthStart[k + 1]

\* The day of the month, from 0.
DayOf(date) == date - MonthStart[MonthOf(date)]

\* DateTime + Months: the same day of a later month, or its last day.
AddMonths(date, months) ==
    LET k == MonthOf(date) + months
        last == MonthLength(k) - 1 IN
    MonthStart[k] + IF DayOf(date) <= last THEN DayOf(date) ELSE last

\* A RepeatInterval; a form may submit any of its fields negative.
Interval == [months : Int, weeks : Int, days : Int]

IsZero(ri) == ri.months = 0 /\ ri.weeks = 0 /\ ri.days = 0

NetDays(ri) == ri.days + 7 * ri.weeks

\* A negative i32 is a huge u32 or u64, a date chrono panics on.
CanAdd(ri) == ri.months >= 0 /\ NetDays(ri) >= 0

\* The interval is not zero and adding it changes nothing all the same.
Cancels(ri) == ri.months = 0 /\ NetDays(ri) = 0

AddInterval(date, ri) == AddMonths(date, ri.months) + NetDays(ri)

=============================================================================
