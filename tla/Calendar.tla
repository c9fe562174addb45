------------------------------ MODULE Calendar ------------------------------
(* The stamp of a line of the battery log (unix_to_iso_utc,                 *)
(* daemon/daemon.rs:93), which counts the days of the civil calendar        *)
(* without a library.  Days are counted from 1970-01-01.                    *)
EXTENDS Integers

CONSTANT LastDay     \* the days that are checked end here

ASSUME LastDayIsDay == LastDay \in Nat

(* Mutant: January counts as the year before. *)
MonthAndYearNoCarry(mp, marchYear) ==
  [month |-> IF mp < 10 THEN mp + 3 ELSE mp - 9, year |-> marchYear]

(* Years begin in March, so that a leap day ends them: January and February
   belong to the next. *)
MonthAndYear(mp, marchYear) ==
  LET month == IF mp < 10 THEN mp + 3 ELSE mp - 9
  IN [month |-> month,
      year |-> IF month <= 2 THEN marchYear + 1 ELSE marchYear]

(* The year of a day of an era of 400 years, and the month and the first day
   of a month of such a year. *)
YearOfEra(doe) ==
  (doe - (doe \div 1460) + (doe \div 36524) - (doe \div 146096)) \div 365
MonthOf(doy) == (5 * doy + 2) \div 153
Start(mp) == (153 * mp + 2) \div 5

Date(day) ==
  LET z == day + 719468
      era == z \div 146097
      doe == z % 146097
      yoe == YearOfEra(doe)
      doy == doe - (365 * yoe + (yoe \div 4) - (yoe \div 100))
      my == MonthAndYear(MonthOf(doy), yoe + era * 400)
  IN <<my.year, my.month, doy - Start(MonthOf(doy)) + 1>>

-----------------------------------------------------------------------------
(* The calendar as it is defined.                                          *)

Leap(year) == year % 4 = 0 /\ (year % 100 # 0 \/ year % 400 = 0)

DaysIn(month, year) ==
  CASE month = 2 -> IF Leap(year) THEN 29 ELSE 28
    [] month \in {4, 6, 9, 11} -> 30
    [] OTHER -> 31

DayAfter(date) ==
  LET year == date[1]
      month == date[2]
      day == date[3]
  IN IF day < DaysIn(month, year) THEN <<year, month, day + 1>>
     ELSE IF month < 12 THEN <<year, month + 1, 1>> ELSE <<year + 1, 1, 1>>

(* Every day has the date after that of the day before, through leap years
   and centuries. *)
DatesFollow ==
  /\ Date(0) = <<1970, 1, 1>>
  /\ \A day \in 0..LastDay : Date(day + 1) = DayAfter(Date(day))
=============================================================================
