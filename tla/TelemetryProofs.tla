---------------------------- MODULE TelemetryProofs ---------------------------
(***************************************************************************)
(* The battery log for any batteries, intervals and clock; the figures of a *)
(* battery for any reading; and the civil calendar for every day.           *)
(***************************************************************************)
EXTENDS Telemetry, TLAPS

-----------------------------------------------------------------------------
(* The calendar.  The days of a cycle of 400 years that begins on March 1st *)
(* are counted in centuries, groups of four years, years and days.          *)

(* Where a day is in its cycle: the last day of a year is there in the last
   year of a group, and of the last group only in the last century. *)
Place(c, q, a, d) ==
  /\ c \in 0 .. 3 /\ q \in 0 .. 24 /\ a \in 0 .. 3 /\ d \in 0 .. 365
  /\ d = 365 => a = 3 /\ (q < 24 \/ c = 3)

DayOf(c, q, a, d) == 36524 * c + 1461 * q + 365 * a + d

Year(c, q, a) == 100 * c + 4 * q + a

(* A century, a group and a year of a day, and what is left of it. *)
LEMMA PlaceOfCentury ==
  ASSUME NEW n \in Nat, n <= 146096
  PROVE  \E c \in 0 .. 3, r \in Nat : /\ n = 36524 * c + r
                                      /\ r < 36524 \/ (r = 36524 /\ c = 3)
<1> DEFINE c == n \div 36524
<1>1. CASE n < 146096
  <2>1. c \in 0 .. 3 /\ 36524 * c <= n /\ n < 36524 * c + 36524
    BY <1>1, SMT
  <2> HIDE DEF c
  <2>2. n - 36524 * c \in Nat /\ n - 36524 * c < 36524
    BY <2>1, SMT
  <2> QED BY <2>1, <2>2, SMT
<1>2. CASE n = 146096
  <2>1. n = 36524 * 3 + 36524 /\ 3 \in 0 .. 3 /\ 36524 \in Nat
    BY <1>2, SMT
  <2> QED BY <2>1, SMT
<1> QED BY <1>1, <1>2, SMT

LEMMA PlaceOfGroup ==
  ASSUME NEW r \in Nat, r <= 36524
  PROVE  \E q \in 0 .. 24, s \in Nat : r = 1461 * q + s /\ s < 1461
<1> DEFINE q == r \div 1461
<1>1. q \in 0 .. 24 /\ 1461 * q <= r /\ r < 1461 * q + 1461
  BY SMT
<1> HIDE DEF q
<1>2. r - 1461 * q \in Nat /\ r - 1461 * q < 1461
  BY <1>1, SMT
<1> QED BY <1>1, <1>2, SMT

LEMMA PlaceOfYear ==
  ASSUME NEW s \in Nat, s < 1461
  PROVE  \E a \in 0 .. 3, d \in 0 .. 365 : /\ s = 365 * a + d
                                           /\ d = 365 => a = 3
<1> DEFINE a == s \div 365
<1>1. CASE s < 1460
  <2>1. a \in 0 .. 3 /\ 365 * a <= s /\ s < 365 * a + 365
    BY <1>1, SMT
  <2> HIDE DEF a
  <2>2. s - 365 * a \in 0 .. 365 /\ s - 365 * a # 365
    BY <2>1, SMT
  <2> QED BY <2>1, <2>2, SMT
<1>2. CASE s = 1460
  <2>1. s = 365 * 3 + 365 /\ 3 \in 0 .. 3 /\ 365 \in 0 .. 365
    BY <1>2, SMT
  <2> QED BY <2>1, SMT
<1> QED BY <1>1, <1>2, SMT

(* Every day has a place. *)
LEMMA PlaceExists ==
  ASSUME NEW n \in Nat, n <= 146096
  PROVE  \E c, q, a, d : Place(c, q, a, d) /\ n = DayOf(c, q, a, d)
<1>1. PICK c \in 0 .. 3, r \in Nat : /\ n = 36524 * c + r
                                     /\ r < 36524 \/ (r = 36524 /\ c = 3)
  BY PlaceOfCentury, SMT
<1>2. r <= 36524
  BY <1>1, SMT
<1>3. PICK q \in 0 .. 24, s \in Nat : r = 1461 * q + s /\ s < 1461
  BY <1>2, PlaceOfGroup, SMT
<1>4. PICK a \in 0 .. 3, d \in 0 .. 365 : s = 365 * a + d /\ (d = 365 => a = 3)
  BY <1>3, PlaceOfYear, SMT
<1>5. d = 365 => a = 3 /\ (q < 24 \/ c = 3)
  BY <1>1, <1>3, <1>4, SMT
<1>6. n = DayOf(c, q, a, d)
  BY <1>1, <1>3, <1>4, SMT DEF DayOf
<1>7. Place(c, q, a, d)
  BY <1>5, SMT DEF Place
<1> QED BY <1>6, <1>7

(* The arithmetic of the stamp finds the year of a place, and the day in it. *)
LEMMA CenturiesCounted ==
  ASSUME NEW c, NEW q, NEW a, NEW d, Place(c, q, a, d),
         NEW n \in Nat, n = DayOf(c, q, a, d)
  PROVE  (n \div 36524) - (n \div 146096) = c
<1>1. n <= 146096 /\ (n = 146096 => c = 3)
  BY SMT DEF Place, DayOf
<1>2. CASE n = 146096
  BY <1>1, <1>2, SMT
<1>3. CASE n # 146096
  <2>1. 36524 * c <= n /\ n < 36524 * c + 36524 /\ c \in Nat
    BY <1>3, SMT DEF Place, DayOf
  <2>2. n \div 36524 = c
    BY <2>1, SMT
  <2>3. n \div 146096 = 0
    BY <1>1, <1>3, SMT
  <2> QED BY <2>1, <2>2, <2>3, SMT
<1> QED BY <1>2, <1>3

LEMMA GroupsCounted ==
  ASSUME NEW n \in Nat, NEW k \in Nat, 1460 * k <= n, n < 1460 * k + 1460
  PROVE  n \div 1460 = k
BY SMT

LEMMA YearFound ==
  ASSUME NEW c, NEW q, NEW a, NEW d, Place(c, q, a, d),
         NEW n \in Nat, n = DayOf(c, q, a, d)
  PROVE  YearOfEra(n) = Year(c, q, a)
<1>1. c \in 0 .. 3 /\ q \in 0 .. 24 /\ a \in 0 .. 3 /\ d \in 0 .. 365
  BY DEF Place
<1> DEFINE rest == 24 * c + q + 365 * a + d
           u == n \div 1460
<1>2. n = 1460 * (25 * c + q) + rest
  BY <1>1, SMT DEF DayOf
<1>3. /\ rest < 1460 => u = 25 * c + q
      /\ rest >= 1460 => u = 25 * c + q + 1
      /\ u \in Int
  <2>1. 25 * c + q \in Nat /\ rest \in Nat /\ rest < 2920
    BY <1>1, SMT
  <2>3. CASE rest < 1460
    <3>1. 1460 * (25 * c + q) <= n /\ n < 1460 * (25 * c + q) + 1460
      BY <1>2, <2>1, <2>3, SMT
    <3>2. u = 25 * c + q
      BY <2>1, <3>1, GroupsCounted
    <3> HIDE DEF u
    <3> QED BY <2>1, <2>3, <3>2, SMT
  <2>4. CASE rest >= 1460
    <3>1. /\ 1460 * (25 * c + q + 1) <= n
          /\ n < 1460 * (25 * c + q + 1) + 1460
      BY <1>2, <2>1, <2>4, SMT
    <3>2. 25 * c + q + 1 \in Nat
      BY <2>1, SMT
    <3>3. u = 25 * c + q + 1
      <4> DEFINE k == 25 * c + q + 1
      <4>1. k \in Nat /\ 1460 * k <= n /\ n < 1460 * k + 1460
        BY <3>1, <3>2
      <4> HIDE DEF k, u
      <4>2. n \div 1460 = k
        BY <4>1, GroupsCounted
      <4> QED BY <4>2 DEF k, u
    <3> HIDE DEF u, rest
    <3> QED BY <2>1, <2>4, <3>2, <3>3, SMT
  <2> HIDE DEF u
  <2> QED BY <2>1, <2>3, <2>4, SMT
<1>4. (n \div 36524) - (n \div 146096) = c
  BY CenturiesCounted
<1> DEFINE t == n - u + (n \div 36524) - (n \div 146096)
<1>5. t = n - u + c
  BY <1>1, <1>3, <1>4, SMT
<1>6. /\ 365 * Year(c, q, a) <= n - u + c
      /\ n - u + c < 365 * Year(c, q, a) + 365
  <2>1. n = 365 * Year(c, q, a) + 24 * c + q + d
    BY <1>1, SMT DEF DayOf, Year
  <2>2. d = 0 => rest < 1460
    BY <1>1, SMT
  <2>3. d = 365 => rest >= 1460
    BY <1>1, SMT DEF Place
  <2> HIDE DEF u
  <2>4. CASE rest < 1460
    BY <1>1, <1>3, <2>1, <2>3, <2>4, SMT DEF Year
  <2>5. CASE rest >= 1460
    BY <1>1, <1>3, <2>1, <2>2, <2>5, SMT DEF Year
  <2> QED BY <2>4, <2>5, <1>1, SMT
<1>7. t \in Int /\ Year(c, q, a) \in Int
  BY <1>1, <1>3, <1>5, SMT DEF Year
<1>8. YearOfEra(n) = t \div 365
  BY DEF YearOfEra
<1> HIDE DEF t, u
<1> QED BY <1>5, <1>6, <1>7, <1>8, SMT

LEMMA DayFound ==
  ASSUME NEW c, NEW q, NEW a, NEW d, Place(c, q, a, d),
         NEW y, y = Year(c, q, a)
  PROVE  DayOf(c, q, a, d) - (365 * y + (y \div 4) - (y \div 100)) = d
<1>1. c \in 0 .. 3 /\ q \in 0 .. 24 /\ a \in 0 .. 3 /\ d \in 0 .. 365
  BY DEF Place
<1>2. y \div 4 = 25 * c + q
  <2>1. y = 4 * (25 * c + q) + a /\ 25 * c + q \in Nat /\ y \in Nat
    BY <1>1, SMT DEF Year
  <2> QED BY <1>1, <2>1, SMT
<1>3. y \div 100 = c
  <2>1. 100 * c <= y /\ y < 100 * c + 100 /\ y \in Nat
    BY <1>1, SMT DEF Year
  <2> QED BY <1>1, <2>1, SMT
<1>4. y \in Nat
  BY <1>1, SMT DEF Year
<1> QED BY <1>1, <1>2, <1>3, <1>4, SMT DEF DayOf, Year

(* A year of the civil calendar that ends such a year is a leap year if and
   only if that has 366 days. *)
LEMMA LeapYears ==
  ASSUME NEW era \in Nat, NEW c \in 0 .. 3, NEW q \in 0 .. 24, NEW a \in 0 .. 3
  PROVE  Leap(Year(c, q, a) + era * 400 + 1) <=> a = 3 /\ (q < 24 \/ c = 3)
<1> DEFINE y == Year(c, q, a) + era * 400 + 1
<1>1. y = 4 * (100 * era + 25 * c + q) + (a + 1)
  BY SMT DEF Year
<1>2. y % 4 = 0 <=> a = 3
  <2>1. 100 * era + 25 * c + q \in Nat
    BY SMT
  <2> DEFINE k == 100 * era + 25 * c + q
  <2>2. y = 4 * k + (a + 1) /\ k \in Nat
    BY <1>1, <2>1
  <2> HIDE DEF k, y
  <2> QED BY <2>2, SMT
<1>3. a = 3 => (y % 100 = 0 <=> q = 24)
  <2> DEFINE k == 4 * era + c
  <2>1. a = 3 => y = 100 * k + (4 * q + 4)
    BY SMT DEF Year
  <2>2. k \in Nat
    BY SMT
  <2> HIDE DEF k, y
  <2> QED BY <2>1, <2>2, SMT
<1>4. a = 3 /\ q = 24 => (y % 400 = 0 <=> c = 3)
  <2>1. a = 3 /\ q = 24 => y = 400 * era + (100 * c + 100)
    BY SMT DEF Year
  <2> HIDE DEF y
  <2> QED BY <2>1, SMT
<1>5. Leap(y) <=> y % 4 = 0 /\ (y % 100 # 0 \/ y % 400 = 0)
  BY DEF Leap
<1> HIDE DEF y
<1>6. Leap(y) <=> a = 3 /\ (q < 24 \/ c = 3)
  BY <1>2, <1>3, <1>4, <1>5, SMT
<1> QED BY <1>6 DEF y

-----------------------------------------------------------------------------
(* The days of the months.                                                 *)

LEMMA Months ==
  ASSUME NEW d \in 0 .. 365
  PROVE  /\ MonthOf(d) \in 0 .. 11
         /\ Start(MonthOf(d)) <= d
         /\ d < Start(MonthOf(d) + 1)
<1> DEFINE mp == MonthOf(d)
<1>1. mp \in 0 .. 11 /\ 153 * mp <= 5 * d + 2 /\ 5 * d + 2 < 153 * mp + 153
  BY SMT DEF MonthOf
<1> HIDE DEF mp
<1>2. Start(mp) <= d /\ d < Start(mp + 1)
  <2> DEFINE s == Start(mp)
             t == Start(mp + 1)
  <2>1. s \in Int /\ 5 * s <= 153 * mp + 2 /\ 153 * mp + 2 < 5 * s + 5
    BY <1>1, SMT DEF Start
  <2>2. t \in Int /\ 5 * t <= 153 * mp + 155 /\ 153 * mp + 155 < 5 * t + 5
    BY <1>1, SMT DEF Start
  <2> HIDE DEF s, t
  <2>3. s <= d
    BY <1>1, <2>1, SMT
  <2>4. d < t
    BY <1>1, <2>2, SMT
  <2> QED BY <2>3, <2>4 DEF s, t
<1> QED BY <1>1, <1>2 DEF mp

LEMMA Starts ==
  /\ Start(0) = 0 /\ Start(1) = 31 /\ Start(2) = 61 /\ Start(3) = 92
  /\ Start(4) = 122 /\ Start(5) = 153 /\ Start(6) = 184 /\ Start(7) = 214
  /\ Start(8) = 245 /\ Start(9) = 275 /\ Start(10) = 306 /\ Start(11) = 337
BY SMT DEF Start

(* The month of a day is the one it lies in. *)
LEMMA MonthIs ==
  ASSUME NEW d \in 0 .. 365, NEW mp \in 0 .. 11,
         Start(mp) <= d, mp < 11 => d < Start(mp + 1)
  PROVE  MonthOf(d) = mp
<1>1. 5 * d + 2 >= 153 * mp
  <2> DEFINE s == Start(mp)
  <2>1. s \in Int /\ 153 * mp + 2 < 5 * s + 5 /\ s <= d
    BY SMT DEF Start
  <2> HIDE DEF s
  <2> QED BY <2>1, SMT
<1>2. 5 * d + 2 < 153 * mp + 153
  <2>1. CASE mp = 11
    BY <2>1, SMT
  <2>2. CASE mp < 11
    <3> DEFINE t == Start(mp + 1)
    <3>1. t \in Int /\ 5 * t <= 153 * mp + 155 /\ d < t
      BY <2>2, SMT DEF Start
    <3> HIDE DEF t
    <3> QED BY <3>1, SMT
  <2> QED BY <2>1, <2>2, SMT
<1> QED BY <1>1, <1>2, SMT DEF MonthOf

(* The date of a place. *)
DateAt(y, d) ==
  LET my == MonthAndYear(MonthOf(d), y)
  IN <<my.year, my.month, d - Start(MonthOf(d)) + 1>>

(* The day of 1970 is at this place. *)
At(day, era, c, q, a, d) ==
  /\ Place(c, q, a, d)
  /\ day + 719468 = era * 146097 + DayOf(c, q, a, d)

LEMMA DateIs ==
  ASSUME NEW era \in Nat, NEW c, NEW q, NEW a, NEW d,
         NEW day \in Nat, At(day, era, c, q, a, d)
  PROVE  Date(day) = DateAt(Year(c, q, a) + era * 400, d)
<1> DEFINE z == day + 719468
           n == DayOf(c, q, a, d)
<1>0. Place(c, q, a, d)
  BY DEF At
<1>1. n \in Nat /\ n <= 146096
  BY SMT DEF At, Place, DayOf
<1>2. z \div 146097 = era /\ z % 146097 = n
  <2>1. z \in Nat /\ z = 146097 * era + n
    BY <1>1, SMT DEF At
  <2> HIDE DEF z, n
  <2> QED BY <1>1, <2>1, SMT
<1>3. YearOfEra(n) = Year(c, q, a)
  BY <1>0, <1>1, YearFound
<1>4. n - (365 * Year(c, q, a) + (Year(c, q, a) \div 4)
                                - (Year(c, q, a) \div 100)) = d
  BY <1>0, DayFound
<1> HIDE DEF n
<1>5. Date(day) =
        LET yoe == YearOfEra(n)
            doy == n - (365 * yoe + (yoe \div 4) - (yoe \div 100))
            my == MonthAndYear(MonthOf(doy), yoe + era * 400)
        IN <<my.year, my.month, doy - Start(MonthOf(doy)) + 1>>
  BY <1>2, SMT DEF Date
<1> QED BY <1>3, <1>4, <1>5, SMT DEF DateAt

YearIn(y, mp) == IF mp < 10 THEN y ELSE y + 1
MonthIn(mp) == IF mp < 10 THEN mp + 3 ELSE mp - 9

LEMMA DateInMonth ==
  ASSUME NEW y \in Nat, NEW d \in 0 .. 365, NEW mp \in 0 .. 11,
         Start(mp) <= d, mp < 11 => d < Start(mp + 1)
  PROVE  DateAt(y, d) = <<YearIn(y, mp), MonthIn(mp), d - Start(mp) + 1>>
<1>1. MonthOf(d) = mp
  BY MonthIs
<1>2. CASE mp < 10
  BY <1>1, <1>2, SMT DEF DateAt, MonthAndYear, YearIn, MonthIn
<1>3. CASE ~ mp < 10
  BY <1>1, <1>3, SMT DEF DateAt, MonthAndYear, YearIn, MonthIn
<1> QED BY <1>2, <1>3

LEMMA DaysInIs ==
  ASSUME NEW month, NEW year
  PROVE  /\ month = 2 => DaysIn(month, year) = IF Leap(year) THEN 29 ELSE 28
         /\ month # 2 /\ month \in {4, 6, 9, 11} => DaysIn(month, year) = 30
         /\ month # 2 /\ month \notin {4, 6, 9, 11} => DaysIn(month, year) = 31
<1>1. month = 2 => month \notin {4, 6, 9, 11}
  BY SMT
<1>2. ASSUME month = 2
      PROVE  DaysIn(month, year) = IF Leap(year) THEN 29 ELSE 28
  BY <1>1, <1>2, Zenon DEF DaysIn
<1>3. ASSUME month # 2, month \in {4, 6, 9, 11} PROVE DaysIn(month, year) = 30
  BY <1>3, Zenon DEF DaysIn
<1>4. ASSUME month # 2, month \notin {4, 6, 9, 11} PROVE DaysIn(month, year) = 31
  BY <1>4, Zenon DEF DaysIn
<1> QED BY <1>2, <1>3, <1>4

(* Every month but February is as long as it is until the next begins. *)
LEMMA MonthLength ==
  ASSUME NEW mp \in 0 .. 10, NEW year
  PROVE  DaysIn(MonthIn(mp), year) = Start(mp + 1) - Start(mp)
<1>1. MonthIn(mp) # 2
  BY SMT DEF MonthIn
<1>2. CASE mp \in {1, 3, 6, 8}
  <2>1. MonthIn(mp) \in {4, 6, 9, 11} /\ Start(mp + 1) - Start(mp) = 30
    BY <1>2, Starts, SMT DEF MonthIn
  <2> QED BY <1>1, <2>1, DaysInIs
<1>3. CASE mp \notin {1, 3, 6, 8}
  <2>1. MonthIn(mp) \notin {4, 6, 9, 11}
    BY <1>3, SMT DEF MonthIn
  <2>2. mp = 0 \/ mp = 2 \/ mp = 4 \/ mp = 5 \/ mp = 7 \/ mp = 9 \/ mp = 10
    BY <1>3, SMT
  <2>3. Start(mp + 1) - Start(mp) = 31
    BY <2>2, Starts, SMT
  <2> QED BY <1>1, <2>1, <2>3, DaysInIs
<1> QED BY <1>2, <1>3

LEMMA StartType ==
  ASSUME NEW mp \in 0 .. 11
  PROVE  Start(mp) \in Nat
BY SMT DEF Start

(* What comes after a date of a month, and after the last one of it. *)
LEMMA AfterDay ==
  ASSUME NEW year, NEW month, NEW day \in Nat, day < DaysIn(month, year)
  PROVE  DayAfter(<<year, month, day>>) = <<year, month, day + 1>>
BY SMT DEF DayAfter

LEMMA AfterMonth ==
  ASSUME NEW year, NEW month, NEW day \in Nat, day = DaysIn(month, year)
  PROVE  DayAfter(<<year, month, day>>) =
           IF month < 12 THEN <<year, month + 1, 1>> ELSE <<year + 1, 1, 1>>
BY SMT DEF DayAfter

(* The day after another day of the same month ... *)
LEMMA NextDay ==
  ASSUME NEW y \in Nat, NEW d \in 0 .. 364, NEW mp \in 0 .. 11,
         Start(mp) <= d,
         mp < 11 => d + 1 < Start(mp + 1),
         d = 364 => Leap(y + 1)
  PROVE  DateAt(y, d + 1) = DayAfter(DateAt(y, d))
<1> DEFINE day == d - Start(mp) + 1
<1>1. Start(mp) \in Nat /\ (mp < 11 => Start(mp + 1) \in Nat)
  <2>1. mp < 11 => mp + 1 \in 0 .. 11
    BY SMT
  <2> QED BY <2>1, StartType, Zenon
<1>2. DateAt(y, d) = <<YearIn(y, mp), MonthIn(mp), day>>
  <2>1. d \in 0 .. 365 /\ (mp < 11 => d < Start(mp + 1))
    BY <1>1, SMT
  <2> QED BY <2>1, DateInMonth, Zenon
<1>3. DateAt(y, d + 1) = <<YearIn(y, mp), MonthIn(mp), day + 1>>
  <2>1. d + 1 \in 0 .. 365 /\ Start(mp) <= d + 1
    BY <1>1, SMT
  <2>2. DateAt(y, d + 1) = <<YearIn(y, mp), MonthIn(mp), (d + 1) - Start(mp) + 1>>
    BY <2>1, DateInMonth, Zenon
  <2>3. (d + 1) - Start(mp) + 1 = day + 1
    BY <1>1, SMT
  <2> QED BY <2>2, <2>3, Zenon
<1>4. day \in Nat /\ day < DaysIn(MonthIn(mp), YearIn(y, mp))
  <2>1. CASE mp < 11
    <3>1. DaysIn(MonthIn(mp), YearIn(y, mp)) = Start(mp + 1) - Start(mp)
      BY <2>1, MonthLength, SMT
    <3> QED BY <1>1, <2>1, <3>1, SMT
  <2>2. CASE mp = 11
    <3>1. MonthIn(mp) = 2 /\ YearIn(y, mp) = y + 1 /\ Start(mp) = 337
      BY <2>2, Starts, SMT DEF MonthIn, YearIn
    <3>2. DaysIn(MonthIn(mp), YearIn(y, mp)) = IF Leap(y + 1) THEN 29 ELSE 28
      BY <3>1, DaysInIs, SMT
    <3> QED BY <3>1, <3>2, SMT
  <2> QED BY <2>1, <2>2, SMT
<1> HIDE DEF day
<1>5. DayAfter(<<YearIn(y, mp), MonthIn(mp), day>>) =
        <<YearIn(y, mp), MonthIn(mp), day + 1>>
  BY <1>4, AfterDay, Zenon
<1> QED BY <1>2, <1>3, <1>5, Zenon

(* ... after the last one of a month ... *)
LEMMA NextMonth ==
  ASSUME NEW y \in Nat, NEW d \in 0 .. 364, NEW mp \in 0 .. 10,
         Start(mp) <= d, d + 1 = Start(mp + 1)
  PROVE  DateAt(y, d + 1) = DayAfter(DateAt(y, d))
<1> DEFINE day == d - Start(mp) + 1
<1>1. Start(mp) \in Nat /\ Start(mp + 1) \in Nat
  <2>1. mp \in 0 .. 11 /\ mp + 1 \in 0 .. 11
    BY SMT
  <2> QED BY <2>1, StartType, Zenon
<1>2. DateAt(y, d) = <<YearIn(y, mp), MonthIn(mp), day>>
  <2>1. d \in 0 .. 365 /\ mp \in 0 .. 11 /\ (mp < 11 => d < Start(mp + 1))
    BY <1>1, SMT
  <2> QED BY <2>1, DateInMonth, Zenon
<1>3. DateAt(y, d + 1) = <<YearIn(y, mp + 1), MonthIn(mp + 1), 1>>
  <2>1. d + 1 \in 0 .. 365 /\ mp + 1 \in 0 .. 11 /\ Start(mp + 1) <= d + 1
    BY <1>1, SMT
  <2>2. mp + 1 < 11 => d + 1 < Start((mp + 1) + 1)
    <3>1. mp = 0 \/ mp = 1 \/ mp = 2 \/ mp = 3 \/ mp = 4 \/ mp = 5 \/ mp = 6
          \/ mp = 7 \/ mp = 8 \/ mp = 9 \/ mp = 10
      BY SMT
    <3> QED BY <3>1, Starts, SMT
  <2>3. DateAt(y, d + 1) =
          <<YearIn(y, mp + 1), MonthIn(mp + 1), (d + 1) - Start(mp + 1) + 1>>
    BY <2>1, <2>2, DateInMonth, Zenon
  <2>4. (d + 1) - Start(mp + 1) + 1 = 1
    BY <1>1, SMT
  <2> QED BY <2>3, <2>4, Zenon
<1>4. day \in Nat /\ day = DaysIn(MonthIn(mp), YearIn(y, mp))
  <2>1. DaysIn(MonthIn(mp), YearIn(y, mp)) = Start(mp + 1) - Start(mp)
    BY MonthLength, Zenon
  <2> QED BY <1>1, <2>1, SMT
<1> HIDE DEF day
<1>5. DayAfter(<<YearIn(y, mp), MonthIn(mp), day>>) =
        IF MonthIn(mp) < 12 THEN <<YearIn(y, mp), MonthIn(mp) + 1, 1>>
                            ELSE <<YearIn(y, mp) + 1, 1, 1>>
  BY <1>4, AfterMonth, Zenon
<1>6. CASE mp = 9
  BY <1>2, <1>3, <1>5, <1>6, SMT DEF YearIn, MonthIn
<1>7. CASE mp # 9
  <2>1. /\ MonthIn(mp) < 12
        /\ YearIn(y, mp + 1) = YearIn(y, mp)
        /\ MonthIn(mp + 1) = MonthIn(mp) + 1
    BY <1>7, SMT DEF YearIn, MonthIn
  <2> QED BY <1>2, <1>3, <1>5, <2>1, Zenon
<1> QED BY <1>6, <1>7

(* ... and after the last one of February. *)
LEMMA NextMarch ==
  ASSUME NEW y \in Nat, NEW d \in 364 .. 365,
         d = 365 <=> Leap(y + 1)
  PROVE  DateAt(y + 1, 0) = DayAfter(DateAt(y, d))
<1>1. DateAt(y, d) = <<y + 1, 2, d - 336>>
  <2>1. MonthOf(d) = 11
    BY SMT DEF MonthOf
  <2> QED BY <2>1, Starts, SMT DEF DateAt, MonthAndYear
<1>2. DateAt(y + 1, 0) = <<y + 1, 3, 1>>
  <2>1. MonthOf(0) = 0
    BY SMT DEF MonthOf
  <2> QED BY <2>1, Starts, SMT DEF DateAt, MonthAndYear
<1>3. d - 336 \in Nat /\ d - 336 = DaysIn(2, y + 1)
  <2>1. DaysIn(2, y + 1) = IF Leap(y + 1) THEN 29 ELSE 28
    BY DaysInIs
  <2> QED BY <2>1, SMT
<1> DEFINE day == d - 336
<1>4. day \in Nat /\ ~ day < DaysIn(2, y + 1)
  BY <1>3, SMT
<1> HIDE DEF day
<1>5. DayAfter(<<y + 1, 2, day>>) = <<y + 1, 3, 1>>
  BY <1>4, SMT DEF DayAfter
<1> QED BY <1>1, <1>2, <1>5 DEF day

-----------------------------------------------------------------------------
(* The days follow.                                                        *)

(* The day after has the place after, and that the date after. *)
LEMMA NextPlace ==
  ASSUME NEW era \in Nat, NEW c, NEW q, NEW a, NEW d,
         NEW day \in Nat, At(day, era, c, q, a, d)
  PROVE  Date(day + 1) = DayAfter(Date(day))
<1> DEFINE y == Year(c, q, a) + era * 400
<1>1. c \in 0 .. 3 /\ q \in 0 .. 24 /\ a \in 0 .. 3 /\ d \in 0 .. 365
        /\ (d = 365 => a = 3 /\ (q < 24 \/ c = 3))
  BY DEF At, Place
<1>2. y \in Nat
  BY <1>1, SMT DEF Year
<1>3. Date(day) = DateAt(y, d)
  BY DateIs
<1>4. Leap(y + 1) <=> a = 3 /\ (q < 24 \/ c = 3)
  BY <1>1, LeapYears
<1>5. day + 1 \in Nat
  OBVIOUS
<1>6. CASE d < 364 \/ (d = 364 /\ Leap(y + 1))
  <2>1. At(day + 1, era, c, q, a, d + 1)
    BY <1>1, <1>4, <1>6, SMT DEF At, Place, DayOf
  <2>3. Date(day + 1) = DateAt(y, d + 1)
    BY <1>5, <2>1, DateIs
  <2>4. DateAt(y, d + 1) = DayAfter(DateAt(y, d))
    <3> DEFINE mp == MonthOf(d)
    <3>1. mp \in 0 .. 11 /\ Start(mp) <= d /\ d < Start(mp + 1)
      BY <1>1, Months
    <3>2. d \in 0 .. 364 /\ (d = 364 => Leap(y + 1))
      BY <1>1, <1>6, SMT
    <3> HIDE DEF mp, y
    <3>3. mp < 11 => Start(mp + 1) \in Nat
      <4>1. mp < 11 => mp + 1 \in 0 .. 11
        BY <3>1, SMT
      <4> QED BY <4>1, StartType, Zenon
    <3>4. CASE mp < 11 => d + 1 < Start(mp + 1)
      BY <1>2, <3>1, <3>2, <3>4, NextDay, Zenon
    <3>5. CASE mp < 11 /\ d + 1 = Start(mp + 1)
      <4>1. mp \in 0 .. 10
        BY <3>1, <3>5, SMT
      <4> QED BY <1>2, <3>1, <3>2, <3>5, <4>1, NextMonth, Zenon
    <3> QED BY <3>1, <3>2, <3>3, <3>4, <3>5, SMT
  <2> QED BY <1>3, <2>3, <2>4, Zenon
<1>7. CASE d = 365 \/ (d = 364 /\ ~ Leap(y + 1))
  <2>1. d \in 364 .. 365 /\ (d = 365 <=> Leap(y + 1))
    BY <1>1, <1>4, <1>7, SMT DEF Place
  <2>2. DateAt(y + 1, 0) = DayAfter(DateAt(y, d))
    BY <1>2, <2>1, NextMarch
  <2>3. Date(day + 1) = DateAt(y + 1, 0)
    <3>1. CASE a < 3
      <4>1. At(day + 1, era, c, q, a + 1, 0)
        BY <1>1, <1>4, <2>1, <3>1, SMT DEF At, Place, DayOf
      <4>3. Year(c, q, a + 1) + era * 400 = y + 1
        BY <1>1, SMT DEF Year
      <4> QED BY <1>5, <4>1, <4>3, DateIs
    <3>2. CASE a = 3 /\ q < 24
      <4>1. At(day + 1, era, c, q + 1, 0, 0)
        BY <1>1, <1>4, <2>1, <3>2, SMT DEF At, Place, DayOf
      <4>3. Year(c, q + 1, 0) + era * 400 = y + 1
        BY <1>1, <3>2, SMT DEF Year
      <4> QED BY <1>5, <4>1, <4>3, DateIs
    <3>3. CASE a = 3 /\ q = 24 /\ c < 3
      <4>1. At(day + 1, era, c + 1, 0, 0, 0)
        BY <1>1, <1>4, <2>1, <3>3, SMT DEF At, Place, DayOf
      <4>3. Year(c + 1, 0, 0) + era * 400 = y + 1
        BY <1>1, <3>3, SMT DEF Year
      <4> QED BY <1>5, <4>1, <4>3, DateIs
    <3>4. CASE a = 3 /\ q = 24 /\ c = 3
      <4>1. At(day + 1, era + 1, 0, 0, 0, 0) /\ era + 1 \in Nat
        BY <1>1, <1>4, <2>1, <3>4, SMT DEF At, Place, DayOf
      <4>3. Year(0, 0, 0) + (era + 1) * 400 = y + 1
        BY <3>4, SMT DEF Year
      <4> QED BY <1>5, <4>1, <4>3, DateIs
    <3> QED BY <1>1, <3>1, <3>2, <3>3, <3>4, SMT
  <2> QED BY <1>3, <2>2, <2>3, Zenon
<1> QED BY <1>1, <1>6, <1>7, SMT

(* Every date the log writes follows the one of the day before, for any last
   day (unix_to_iso_utc). *)
THEOREM DatesFollowHolds == DatesFollow
<1>1. Date(0) = <<1970, 1, 1>>
  <2>1. At(0, 4, 3, 17, 1, 306)
    BY SMT DEF At, Place, DayOf
  <2>2. Date(0) = DateAt(Year(3, 17, 1) + 4 * 400, 306)
    BY <2>1, DateIs, SMT
  <2>3. Year(3, 17, 1) + 4 * 400 = 1969 /\ MonthOf(306) = 10
    BY SMT DEF Year, MonthOf
  <2> QED BY <2>2, <2>3, Starts, SMT DEF DateAt, MonthAndYear
<1>2. ASSUME NEW day \in 0 .. LastDay
      PROVE  Date(day + 1) = DayAfter(Date(day))
  <2> DEFINE z == day + 719468
             era == z \div 146097
             n == z % 146097
  <2>1. day \in Nat
    BY SMT, LastDayIsDay
  <2>2. era \in Nat /\ n \in Nat /\ n <= 146096 /\ z = era * 146097 + n
    BY <2>1, SMT
  <2> HIDE DEF era, n
  <2>3. PICK c, q, a, d : Place(c, q, a, d) /\ n = DayOf(c, q, a, d)
    BY <2>2, PlaceExists, SMT
  <2>4. At(day, era, c, q, a, d)
    BY <2>2, <2>3, SMT DEF At
  <2> HIDE DEF z
  <2> QED BY <2>1, <2>2, <2>4, NextPlace, SMT
<1> QED BY <1>1, <1>2, SMT DEF DatesFollow

-----------------------------------------------------------------------------
(* The figures of a battery.                                               *)

LEMMA EarliestIs ==
  ASSUME NEW S \in SUBSET (1 .. 4), S # {}
  PROVE  Earliest(S) \in S /\ \A j \in S : Earliest(S) <= j
<1>1. \E i \in S : \A j \in S : i <= j
  <2>1. CASE 1 \in S
    BY <2>1, SMT
  <2>2. CASE 1 \notin S /\ 2 \in S
    BY <2>2, SMT
  <2>3. CASE 1 \notin S /\ 2 \notin S /\ 3 \in S
    BY <2>3, SMT
  <2>4. CASE 1 \notin S /\ 2 \notin S /\ 3 \notin S
    <3>1. \A j \in S : j = 4
      BY <2>4, SMT
    <3>2. 4 \in S
      BY <3>1
    <3> QED BY <3>1, <3>2, SMT
  <2> QED BY <2>1, <2>2, <2>3, <2>4
<1> QED BY <1>1 DEF Earliest

LEMMA ReadingType ==
  ASSUME NEW r \in Reading, NEW p \in Places
  PROVE  /\ \A l \in Leaves : r[p][l] \in Numbers
         /\ \A l \in Capacities : r[p][l] \in Sizes
BY DEF Reading, Capacities, Leaves

LEMMA PairType ==
  ASSUME NEW r \in Reading, NEW i \in 1 .. 4
  PROVE  PairOf(r, HealthOrder[i]) \in Pairs
<1>1. HealthOrder[i].place \in Places
  BY DEF HealthOrder, From, Places
<1>2. \A l \in Capacities : r[HealthOrder[i].place][l] \in Sizes
  BY <1>1, ReadingType
<1> QED BY <1>2 DEF PairOf, Pairs, Capacities

LEMMA HealthPairIs ==
  ASSUME NEW r \in Reading
  PROVE  /\ HealthPair(r) = NoPair
            \/ \E i \in 1 .. 4 : HealthPair(r) = PairOf(r, HealthOrder[i])
         /\ HealthPair(r) \in Pairs
<1> DEFINE usable == {i \in 1 .. 4 : PairOf(r, HealthOrder[i]) # NoPair}
<1>1. CASE usable = {}
  BY <1>1 DEF HealthPair, NoPair, Pairs, Sizes
<1>2. CASE usable # {}
  <2>1. Earliest(usable) \in 1 .. 4
    BY <1>2, EarliestIs
  <2>2. HealthPair(r) = PairOf(r, HealthOrder[Earliest(usable)])
    BY <1>2 DEF HealthPair
  <2> QED BY <2>1, <2>2, PairType
<1> QED BY <1>1, <1>2

LEMMA HealthPctType ==
  ASSUME NEW pair \in Pairs
  PROVE  HealthPct(pair) \in Sizes
<1>1. CASE pair.full = NoReading \/ pair.design = NoReading \/ pair.design = 0
  BY <1>1 DEF HealthPct, Sizes
<1>2. CASE ~ (pair.full = NoReading \/ pair.design = NoReading \/ pair.design = 0)
  <2> DEFINE n == 2000 * pair.full + pair.design
             m == 2 * pair.design
  <2>1. n \in Nat /\ m \in Nat /\ m > 0
    BY <1>2, SMT DEF Pairs, Sizes
  <2>2. HealthPct(pair) = n \div m
    BY <1>2 DEF HealthPct
  <2> HIDE DEF n, m
  <2>3. n \div m \in Nat
    BY <2>1, SMT
  <2> QED BY <2>2, <2>3 DEF Sizes
<1> QED BY <1>1, <1>2

LEMMA PercentageType ==
  ASSUME NEW capacity \in Numbers
  PROVE  Percentage(capacity) \in 0 .. 100
<1>1. CASE capacity = NoReading
  <2>1. Percentage(capacity) = 0
    BY <1>1, Zenon DEF Percentage
  <2> QED BY <2>1, SMT
<1>2. CASE capacity # NoReading
  <2>1. Percentage(capacity) = IF capacity < 0 THEN 0
                               ELSE IF capacity > 100 THEN 100 ELSE capacity
    BY <1>2, Zenon DEF Percentage
  <2>2. capacity \in Int
    BY <1>2 DEF Numbers
  <2> QED BY <2>1, <2>2, SMT
<1> QED BY <1>1, <1>2

LEMMA MagnitudeTimes ==
  ASSUME NEW a \in Int, NEW b \in Int, Magnitude(a) * b > 0
  PROVE  Magnitude(a * b) = Magnitude(a) * b
<1>1. CASE a < 0
  <2>1. Magnitude(a) * b = - (a * b) /\ a * b \in Int
    BY <1>1, SMT DEF Magnitude
  <2> DEFINE n == a * b
  <2> HIDE DEF n
  <2>2. Magnitude(a) * b = - n /\ n \in Int
    BY <2>1 DEF n
  <2>3. Magnitude(n) = - n
    BY <2>2, SMT DEF Magnitude
  <2> QED BY <2>2, <2>3 DEF n
<1>2. CASE ~ a < 0
  <2>1. Magnitude(a) * b = a * b /\ a * b \in Int
    BY <1>2, SMT DEF Magnitude
  <2> DEFINE n == a * b
  <2> HIDE DEF n
  <2>2. Magnitude(a) * b = n /\ n \in Int
    BY <2>1 DEF n
  <2>3. Magnitude(n) = n
    BY <2>2, SMT DEF Magnitude
  <2> QED BY <2>2, <2>3 DEF n
<1> QED BY <1>1, <1>2

(* The power at which the time is worked out is the one that is shown, for every
   reading whose uevent repeats its files; a battery that tells a power and no
   energy has it worked out by current and voltage (time_remaining and
   consumption_watts). *)
LEMMA RemainingAgrees ==
  ASSUME NEW r \in Reading, Mirrored(r), Flows(r)
  PROVE  LET f == r["file"]
         IN Remaining(r).power =
              IF f["power_now"] # NoReading /\ f["energy_now"] = NoReading
              THEN Magnitude(f["current_now"]) * f["voltage_now"]
              ELSE Watts(r)
<1> DEFINE f == r["file"]
           amounts == {i \in 1 .. 4 : GivesAmount(r, AmountOrder[i])}
           powers == {i \in 1 .. 4 : GivesPower(r, PowerOrder[i])}
<1>1. r["uevent"] = f
  BY DEF Mirrored
<1>2. \A l \in Leaves : f[l] \in Numbers
  BY ReadingType DEF Places
<1>3. amounts # {}
  <2>1. amounts = {} => Remaining(r).power = 0
    BY DEF Remaining
  <2> QED BY <2>1, SMT DEF Flows
<1>4. /\ Earliest(amounts) \in amounts
      /\ \A j \in amounts : Earliest(amounts) <= j
      /\ Remaining(r) = AmountOf(r, AmountOrder[Earliest(amounts)])
  <2>1. amounts \in SUBSET (1 .. 4)
    OBVIOUS
  <2>2. Remaining(r) = AmountOf(r, AmountOrder[Earliest(amounts)])
    BY <1>3 DEF Remaining
  <2> HIDE DEF amounts
  <2> QED BY <1>3, <2>1, <2>2, EarliestIs
<1>5. powers # {} =>
        /\ Earliest(powers) \in powers
        /\ \A j \in powers : Earliest(powers) <= j
        /\ Watts(r) = WattsOf(r, PowerOrder[Earliest(powers)])
  <2>1. powers \in SUBSET (1 .. 4)
    OBVIOUS
  <2>2. powers # {} => Watts(r) = WattsOf(r, PowerOrder[Earliest(powers)])
    BY DEF Watts
  <2> HIDE DEF powers
  <2> QED BY <2>1, <2>2, EarliestIs
<1>6. /\ 1 \in amounts <=> f["energy_now"] # NoReading /\ f["power_now"] # NoReading
      /\ 2 \in amounts <=> f["energy_now"] # NoReading /\ f["power_now"] # NoReading
      /\ \A i \in {3, 4} :
           i \in amounts <=> /\ f["charge_now"] # NoReading
                             /\ f["current_now"] # NoReading
                             /\ f["voltage_now"] # NoReading
  BY <1>1 DEF GivesAmount, AmountOrder, From, AmountLeaves, Exposes
<1>7. /\ 1 \in powers <=> f["power_now"] # NoReading
      /\ 2 \in powers <=> f["current_now"] # NoReading /\ f["voltage_now"] # NoReading
      /\ 3 \in powers <=> f["power_now"] # NoReading
  BY <1>1 DEF GivesPower, PowerOrder, From, PowerLeaves, Exposes
<1>8. CASE f["power_now"] # NoReading /\ f["energy_now"] # NoReading
  <2>1. 1 \in amounts /\ 1 \in powers
    BY <1>6, <1>7, <1>8
  <2>2. Earliest(amounts) = 1 /\ Earliest(powers) = 1
    BY <1>4, <1>5, <2>1, SMT
  <2>3. Remaining(r).power = Magnitude(f["power_now"])
    BY <1>4, <2>2 DEF AmountOf, AmountOrder, From
  <2>4. Watts(r) = Magnitude(f["power_now"])
    BY <1>5, <2>1, <2>2 DEF WattsOf, PowerOrder, From
  <2> QED BY <1>8, <2>3, <2>4
<1>9. CASE f["power_now"] = NoReading \/ f["energy_now"] = NoReading
  <2> DEFINE a == f["current_now"]
             b == f["voltage_now"]
  <2>1. 1 \notin amounts /\ 2 \notin amounts
    BY <1>6, <1>9
  <2>2. Earliest(amounts) \in {3, 4}
    BY <1>4, <2>1, SMT
  <2>3. a # NoReading /\ b # NoReading
    BY <1>4, <1>6, <2>2
  <2>4. a \in Int /\ b \in Int
    BY <1>2, <2>3 DEF Leaves, Numbers
  <2>5. Remaining(r).power = Magnitude(a) * b
    BY <1>1, <1>4, <2>2 DEF AmountOf, AmountOrder, From
  <2>6. CASE f["power_now"] # NoReading
    BY <1>9, <2>5, <2>6
  <2>7. CASE f["power_now"] = NoReading
    <3>1. 2 \in powers /\ 1 \notin powers
      BY <1>7, <2>3, <2>7
    <3>2. Earliest(powers) = 2
      BY <1>5, <3>1, SMT
    <3>3. Watts(r) = Magnitude(a * b)
      BY <1>5, <3>1, <3>2 DEF WattsOf, PowerOrder, From
    <3>4. Magnitude(a) * b > 0
      BY <2>5 DEF Flows
    <3>5. Magnitude(a * b) = Magnitude(a) * b
      <4> HIDE DEF a, b
      <4> QED BY <2>4, <3>4, MagnitudeTimes
    <3> QED BY <2>5, <2>7, <3>3, <3>5
  <2> QED BY <2>6, <2>7
<1> QED BY <1>8, <1>9

-----------------------------------------------------------------------------
(* The log.                                                                *)

(* A pair that a battery in the bay told, or none. *)
Told(pair) ==
  pair = NoPair \/ \E b \in Batteries : pair = HealthPair(b.reading)

(* What the call has read it keeps until the line is written. *)
PairIsTold == Told(job.pair) /\ (row # NoRow => Told(row.pair))

(* While nobody sets the clock, the stamp and the ticks that went by agree. *)
StampAgrees ==
  ~ setClock => IF sinceLog = Never THEN gap = Interval ELSE gap = sinceLog

Inv == TypeOK /\ PairIsTold /\ StampAgrees

LEMMA IdleType == Idle \in Job /\ Told(Idle.pair)
BY DEF Idle, Job, Stations, Limits, NoPair, Pairs, Sizes, Numbers, Told

LEMMA OlderType ==
  ASSUME NEW age \in Ages, NEW k \in Int
  PROVE  /\ Older(age, k) \in Ages
         /\ Older(age, k) = Never <=> age = Never
BY Gaps, NeverIsNoNumber, SMT DEF Ages, Older

LEMMA BatteryType ==
  ASSUME TypeOK
  PROVE  /\ battery \in Batteries /\ battery.reading \in Reading
         /\ battery.capacity \in Numbers /\ battery.temp \in Numbers
BY BatteriesAssumption DEF TypeOK, Battery

(* What health() tells, be it nothing. *)
LEMMA NowType ==
  ASSUME TypeOK
  PROVE  PairNow \in Pairs /\ TempNow \in Numbers /\ Told(PairNow)
<1>1. /\ battery \in Batteries /\ battery.temp \in Numbers
      /\ HealthPair(battery.reading) \in Pairs
  BY BatteryType, HealthPairIs
<1>2. NoPair \in Pairs /\ NoReading \in Numbers
  BY DEF NoPair, Pairs, Sizes, Numbers
<1> QED BY <1>1, <1>2 DEF PairNow, TempNow, Told

LEMMA InvInit == Init => Inv
<1> SUFFICES ASSUME Init PROVE Inv
  OBVIOUS
<1>1. TypeOK
  <2>1. Interval \in 0 .. Interval /\ Never \in Ages /\ job \in Job
    BY Gaps, IdleType DEF Ages, Init
  <2> QED BY <2>1 DEF Init, TypeOK
<1>2. PairIsTold
  BY IdleType DEF Init, PairIsTold
<1>3. StampAgrees
  BY DEF Init, StampAgrees
<1> QED BY <1>1, <1>2, <1>3 DEF Inv

LEMMA SampleBeginsKeeps == ASSUME Inv, SampleBegins PROVE Inv'
<1>1. TypeOK /\ PairIsTold /\ StampAgrees
  BY DEF Inv
<1>2. job' \in Job /\ Told(job'.pair)
  <2>1. PICK torn \in BOOLEAN :
          LET logs == logging /\ ~ torn
              warns == IF torn THEN NoLimit ELSE limit
          IN job' = IF ~ logs /\ warns = NoLimit THEN Idle
                    ELSE [Idle EXCEPT !.at = "charging", !.logs = logs,
                                      !.warns = warns,
                                      !.pair = PairNow,
                                      !.temp = TempNow]
    BY DEF SampleBegins
  <2> DEFINE logs == logging /\ ~ torn
             warns == IF torn THEN NoLimit ELSE limit
             begun == [Idle EXCEPT !.at = "charging", !.logs = logs,
                                   !.warns = warns,
                                   !.pair = PairNow,
                                   !.temp = TempNow]
  <2>2. logs \in BOOLEAN /\ warns \in Limits
    BY <1>1 DEF TypeOK, Limits
  <2>3. PairNow \in Pairs /\ TempNow \in Numbers /\ Told(PairNow)
    BY <1>1, NowType
  <2>5. job' = Idle \/ job' = begun
    BY <2>1
  <2> HIDE DEF logs, warns
  <2>6. begun \in Job
    BY <2>2, <2>3 DEF Idle, Job, Stations
  <2>7. begun.pair = PairNow
    BY DEF Idle
  <2> HIDE DEF begun
  <2> QED BY <2>3, <2>5, <2>6, <2>7, IdleType
<1>3. UNCHANGED <<battery, online, logging, limit, daemon, found, sinceLog, sinceWarn,
                  row, gap, setClock>>
      /\ due' = FALSE
  BY DEF SampleBegins, world, settings, stamps, history
<1>4. TypeOK'
  BY <1>1, <1>2, <1>3 DEF TypeOK
<1>5. PairIsTold' /\ StampAgrees'
  BY <1>1, <1>2, <1>3 DEF PairIsTold, StampAgrees, Told
<1> QED BY <1>4, <1>5 DEF Inv

LEMMA JobGoesOn ==
  ASSUME TypeOK, NEW at \in Stations, NEW charging \in BOOLEAN,
         job' = [job EXCEPT !.at = at]
           \/ job' = [job EXCEPT !.at = at, !.charging = charging]
  PROVE  job' \in Job /\ job'.pair = job.pair
BY DEF TypeOK, Job

LEMMA SampleGoesOnKeeps == ASSUME Inv, SampleGoesOn PROVE Inv'
<1>1. TypeOK /\ PairIsTold /\ StampAgrees
  BY DEF Inv
<1>2. \A at \in {"logging", "warning", "appending"} : at \in Stations
  BY DEF Stations
<1>3. CASE ReadsCharging
  <2>1. PICK status \in {"Charging", "Discharging", "Full"} :
          job' = [job EXCEPT !.at = "logging",
                             !.charging = Charging(online, status)]
    BY <1>3 DEF ReadsCharging
  <2>2. Charging(online, status) \in BOOLEAN
    BY DEF Charging
  <2>3. job' \in Job /\ job'.pair = job.pair
    BY <1>1, <1>2, <2>1, <2>2, JobGoesOn
  <2>4. UNCHANGED <<battery, online, logging, limit, daemon, found, due, sinceLog,
                    sinceWarn, row, gap, setClock>>
    BY <1>3 DEF ReadsCharging, world, settings, stamps, history
  <2> QED BY <1>1, <2>3, <2>4 DEF Inv, TypeOK, PairIsTold, StampAgrees, Told
<1>4. CASE LogsNothing \/ AppendFails
  <2>1. job' = [job EXCEPT !.at = "warning"]
        /\ UNCHANGED <<battery, online, logging, limit, daemon, found, due, sinceLog,
                       sinceWarn, row, gap, setClock>>
    BY <1>4 DEF LogsNothing, AppendFails, world, settings, stamps, history
  <2>2. job' \in Job /\ job'.pair = job.pair
    BY <1>1, <1>2, <2>1, JobGoesOn
  <2> QED BY <1>1, <2>1, <2>2 DEF Inv, TypeOK, PairIsTold, StampAgrees, Told
<1>5. CASE Stamps
  <2>1. /\ job' = [job EXCEPT !.at = "appending"]
        /\ sinceLog' = 0 /\ gap' = 0 /\ setClock' = FALSE
        /\ UNCHANGED <<battery, online, logging, limit, daemon, found, due, sinceWarn, row>>
    BY <1>5 DEF Stamps, world, settings
  <2>2. job' \in Job /\ job'.pair = job.pair
    BY <1>1, <1>2, <2>1, JobGoesOn
  <2>3. 0 \in Ages /\ 0 \in 0 .. Interval /\ 0 # Never
    BY Gaps, NeverIsNoNumber DEF Ages
  <2> QED BY <1>1, <2>1, <2>2, <2>3
          DEF Inv, TypeOK, PairIsTold, StampAgrees, Told
<1>6. CASE Appends
  <2>0. PICK capacity \in {battery.capacity} \cup (IF found THEN {} ELSE {NoReading}) :
          row' = [pair |-> job.pair, health |-> HealthPct(job.pair),
                  temp |-> job.temp, charging |-> job.charging,
                  capacity |-> Percentage(capacity)]
    BY <1>6, Zenon DEF Appends
  <2> DEFINE line == [pair |-> job.pair, health |-> HealthPct(job.pair),
                      temp |-> job.temp, charging |-> job.charging,
                      capacity |-> Percentage(capacity)]
  <2>a. capacity \in Numbers
    BY <1>1, <2>0, BatteryType DEF Numbers
  <2>1. /\ row' = line /\ job' = [job EXCEPT !.at = "warning"]
        /\ UNCHANGED <<battery, online, logging, limit, daemon, found, due, sinceLog,
                       sinceWarn, gap, setClock>>
    BY <1>6, <2>0 DEF Appends, world, settings, stamps, history
  <2>2. job' \in Job /\ job'.pair = job.pair
    BY <1>1, <1>2, <2>1, JobGoesOn
  <2>3. /\ job.pair \in Pairs /\ job.temp \in Numbers /\ job.charging \in BOOLEAN
        /\ HealthPct(job.pair) \in Sizes
        /\ Percentage(capacity) \in 0 .. 100
    BY <1>1, <2>a, HealthPctType, PercentageType DEF TypeOK, Job
  <2>4. line \in Row /\ line.pair = job.pair
    BY <2>3 DEF Row
  <2> HIDE DEF line
  <2> QED BY <1>1, <2>1, <2>2, <2>4
          DEF Inv, TypeOK, PairIsTold, StampAgrees, Told
<1>7. CASE Warns \/ KeepsQuiet
  <2>1. /\ job' = Idle /\ row' = NoRow /\ sinceWarn' \in {0, sinceWarn}
        /\ UNCHANGED <<battery, online, logging, limit, daemon, found, due, sinceLog,
                       gap, setClock>>
    BY <1>7 DEF Warns, KeepsQuiet, world, settings, stamps, history
  <2>2. 0 \in Ages
    BY Gaps DEF Ages
  <2> QED BY <1>1, <2>1, <2>2, IdleType
          DEF Inv, TypeOK, PairIsTold, StampAgrees
<1> QED BY <1>3, <1>4, <1>5, <1>6, <1>7 DEF SampleGoesOn

LEMMA DaemonKeeps == ASSUME Inv, DaemonStarts \/ DaemonEnds PROVE Inv'
<1>1. TypeOK /\ PairIsTold /\ StampAgrees
  BY DEF Inv
<1>2. CASE DaemonStarts
  <2>1. /\ Never \in Ages /\ Interval \in 0 .. Interval
        /\ battery.present \in BOOLEAN
    BY <1>1, Gaps, BatteriesAssumption DEF Ages, TypeOK, Battery
  <2> QED BY <1>1, <1>2, <2>1
          DEF Inv, TypeOK, PairIsTold, StampAgrees, Told, DaemonStarts,
              world, settings
<1>3. CASE DaemonEnds
  BY <1>1, <1>3, IdleType
     DEF Inv, TypeOK, PairIsTold, StampAgrees, DaemonEnds, world, settings,
         stamps, history
<1> QED BY <1>2, <1>3

LEMMA TimeKeeps == ASSUME Inv, TimePasses PROVE Inv'
<1>1. TypeOK /\ PairIsTold /\ StampAgrees
  BY DEF Inv
<1>2. /\ sinceLog' = Older(sinceLog, 1) /\ sinceWarn' = Older(sinceWarn, 1)
      /\ gap' = IF gap = Interval THEN gap ELSE gap + 1
      /\ due' = (daemon = "on")
      /\ UNCHANGED <<battery, online, logging, limit, daemon, found, job, row, setClock>>
  BY DEF TimePasses, world, settings
<1>3. sinceLog' \in Ages /\ sinceWarn' \in Ages
  BY <1>1, <1>2, OlderType DEF TypeOK
<1>4. gap' \in 0 .. Interval
  BY <1>1, <1>2, Gaps, SMT DEF TypeOK
<1>5. due' \in BOOLEAN
  BY <1>2
<1>6. TypeOK'
  BY <1>1, <1>2, <1>3, <1>4, <1>5 DEF TypeOK
<1>7. PairIsTold'
  BY <1>1, <1>2 DEF PairIsTold, Told
<1>8. StampAgrees'
  BY <1>1, <1>2, Gaps, NeverIsNoNumber, SMT DEF StampAgrees, TypeOK, Ages, Older
<1> QED BY <1>6, <1>7, <1>8 DEF Inv

LEMMA ClockKeeps == ASSUME Inv, ClockIsSet PROVE Inv'
<1>1. TypeOK /\ PairIsTold /\ StampAgrees
  BY DEF Inv
<1>2. PICK k \in {- Back, Interval} :
        sinceLog' = Older(sinceLog, k) /\ sinceWarn' = Older(sinceWarn, k)
  BY DEF ClockIsSet
<1>3. k \in Int
  BY Gaps
<1>4. sinceLog' \in Ages /\ sinceWarn' \in Ages
  BY <1>1, <1>2, <1>3, OlderType DEF TypeOK
<1> QED BY <1>1, <1>4
        DEF ClockIsSet, Inv, TypeOK, PairIsTold, StampAgrees, Told, world, settings

LEMMA OthersKeep == ASSUME Inv, WorldChanges \/ SettingsChange PROVE Inv'
<1>1. TypeOK /\ PairIsTold /\ StampAgrees
  BY DEF Inv
<1>2. battery' \in Batteries /\ online' \in BOOLEAN /\ logging' \in BOOLEAN
      /\ limit' \in Limits
  BY <1>1 DEF TypeOK, WorldChanges, SettingsChange, world, settings
<1>3. UNCHANGED <<daemon, found, due, job, sinceLog, sinceWarn, row, gap, setClock>>
  BY DEF WorldChanges, SettingsChange, stamps, history
<1> QED BY <1>1, <1>2, <1>3 DEF Inv, TypeOK, PairIsTold, StampAgrees, Told

LEMMA InvNext == Inv /\ [Next]_vars => Inv'
<1> SUFFICES ASSUME Inv, [Next]_vars PROVE Inv'
  OBVIOUS
<1>1. CASE UNCHANGED vars
  BY <1>1 DEF vars, world, settings, stamps, history, Inv, TypeOK, PairIsTold,
              StampAgrees, Told
<1> QED BY <1>1, SampleBeginsKeeps, SampleGoesOnKeeps, DaemonKeeps, TimeKeeps,
           ClockKeeps, OthersKeep DEF Next

LEMMA InvHolds == Spec => []Inv
BY InvInit, InvNext, PTL DEF Spec

-----------------------------------------------------------------------------
(* What follows of the log.                                                *)

(* The state of the sampler has its type, whatever batteries come and go. *)
THEOREM TypeCorrect == Spec => []TypeOK
<1>1. Inv => TypeOK
  BY DEF Inv
<1> QED BY <1>1, InvHolds, PTL

(* No line has a pair that no battery told: both capacities are of one source
   of one battery, though it may have been swapped before the line is written
   (battery.rs:255-283, daemon.rs:482-498). *)
THEOREM RowKeepsPairsApartHolds == Spec => []RowKeepsPairsApart
<1>1. Inv => RowKeepsPairsApart
  <2> SUFFICES ASSUME Inv, row # NoRow
               PROVE  \E b \in Batteries, i \in 1 .. 4 :
                        row.pair \in {PairOf(b.reading, HealthOrder[i]), NoPair}
    BY DEF RowKeepsPairsApart
  <2>1. Told(row.pair) /\ battery \in Batteries
    BY DEF Inv, PairIsTold, TypeOK
  <2>2. CASE row.pair = NoPair
    BY <2>1, <2>2, 1 \in 1 .. 4
  <2>3. CASE row.pair # NoPair
    <3>1. PICK b \in Batteries : row.pair = HealthPair(b.reading)
      BY <2>1, <2>3 DEF Told
    <3>2. b.reading \in Reading
      BY BatteriesAssumption DEF Battery
    <3>3. PICK i \in 1 .. 4 : row.pair = PairOf(b.reading, HealthOrder[i])
      BY <2>3, <3>1, <3>2, HealthPairIs
    <3> QED BY <3>3
  <2> QED BY <2>2, <2>3
<1> QED BY <1>1, InvHolds, PTL

(* Of every battery in the bay whose uevent repeats its files, and from which
   something flows: the hours left are worked out at the consumption shown, or,
   where it tells a power and no energy, by current and voltage
   (battery.rs:152-237). *)
THEOREM TimeAgreesWithWattsHolds == Spec => []TimeAgreesWithWatts
<1>1. Inv => TimeAgreesWithWatts
  <2> SUFFICES ASSUME Inv PROVE TimeAgreesWithWatts
    OBVIOUS
  <2>1. battery.reading \in Reading
    BY BatteryType DEF Inv
  <2> QED BY <2>1, RemainingAgrees DEF TimeAgreesWithWatts
<1> QED BY <1>1, InvHolds, PTL

(* At most one line is tried in an interval, however the settings, the battery
   and the failures fall, unless the clock is set (daemon.rs:488-490). *)
THEOREM SamplesAreSpacedHolds == Spec => SamplesAreSpaced
<1>1. Inv /\ [Next]_vars =>
        [job.at = "logging" /\ job'.at = "appending" =>
           gap = Interval \/ setClock]_vars
  <2> SUFFICES ASSUME Inv, Next, job.at = "logging", job'.at = "appending",
                      ~ setClock
               PROVE  gap = Interval
    BY DEF vars
  <2>1. job.at # "appending" /\ job.at # "charging" /\ job.at # "idle"
    OBVIOUS
  <2>2. Stamps
    <3>1. job \in Job
      BY DEF Inv, TypeOK
    <3>2. job' # job
      OBVIOUS
    <3>3. ~ SampleBegins /\ ~ ReadsCharging /\ ~ Appends /\ ~ AppendFails
      BY <2>1 DEF SampleBegins, ReadsCharging, Appends, AppendFails
    <3>4. ~ LogsNothing
      BY <3>1 DEF LogsNothing, Job
    <3>5. ~ Warns /\ ~ KeepsQuiet /\ ~ DaemonEnds
      BY DEF Warns, KeepsQuiet, DaemonEnds, Idle
    <3>6. ~ DaemonStarts /\ ~ TimePasses /\ ~ ClockIsSet /\ ~ WorldChanges
          /\ ~ SettingsChange
      BY <3>2 DEF DaemonStarts, TimePasses, ClockIsSet, WorldChanges, SettingsChange
    <3> QED BY <3>3, <3>4, <3>5, <3>6 DEF Next, SampleGoesOn
  <2>3. sinceLog # Never => sinceLog >= Interval
    BY <2>2 DEF Stamps, Due
  <2>4. StampAgrees /\ gap \in 0 .. Interval
    BY DEF Inv, TypeOK
  <2> QED BY <2>3, <2>4, Gaps, SMT DEF StampAgrees
<1>2. Spec => [][job.at = "logging" /\ job'.at = "appending" =>
                   gap = Interval \/ setClock]_vars
  BY <1>1, InvHolds, PTL DEF Spec
<1> QED BY <1>2 DEF SamplesAreSpaced

-----------------------------------------------------------------------------
(* What a call leaves, as long as nothing keeps samples away.              *)

SampleEnds == job.at # "idle" /\ job'.at = "idle"

Logs == logging /\ daemon = "on"

(* The last line is too young for another one. *)
Logged == sinceLog # Never /\ sinceLog < Interval

LogCourse ==
  job.at = "idle" \/ (job.logs /\ (job.at \in {"appending", "warning"} => Logged))

Hot == daemon = "on" /\ found /\ online /\ Exceeds(battery.temp, limit, TRUE)

Warned == sinceWarn # Never /\ sinceWarn < WarnGap

HotCourse ==
  job.at = "idle" \/
    (Exceeds(job.temp, job.warns, TRUE) /\ (job.at # "charging" => job.charging))

(* The steps there are when nothing keeps samples away. *)
LEMMA QuietSteps ==
  ASSUME daemon = "on", Next, ~ Disturbance
  PROVE  \/ SampleBegins
         \/ ReadsCharging \/ LogsNothing \/ Stamps \/ Appends \/ AppendFails
         \/ Warns \/ KeepsQuiet
         \/ job.at = "idle" /\ job' = job
         \/ UNCHANGED <<job, stamps>>
<1>1. ~ DaemonEnds /\ ~ ClockIsSet /\ ~ DaemonStarts
  BY DEF Disturbance, DaemonStarts
<1>2. TimePasses => job.at = "idle" /\ job' = job
  BY DEF TimePasses
<1>3. WorldChanges \/ SettingsChange => UNCHANGED <<job, stamps>>
  BY DEF WorldChanges, SettingsChange
<1> QED BY <1>1, <1>2, <1>3 DEF Next, SampleGoesOn

LEMMA LogStep ==
  ASSUME Inv, Logs, LogCourse, [Next /\ ~ Disturbance]_vars
  PROVE  LogCourse' /\ (SampleEnds => Logged')
<1>0. job \in Job
  BY DEF Inv, TypeOK
<1>1. CASE SampleBegins /\ ~ Disturbance
  <2>1. job.at = "idle"
    BY <1>1 DEF SampleBegins
  <2>2. job'.logs
    BY <1>1 DEF Disturbance, Logs
  <2>3. job'.at \in {"idle", "charging"}
    BY <1>1 DEF SampleBegins, Idle
  <2> QED BY <2>1, <2>2, <2>3 DEF LogCourse, SampleEnds
<1>2. CASE ReadsCharging
  BY <1>0, <1>2 DEF ReadsCharging, LogCourse, SampleEnds, Job
<1>3. CASE LogsNothing
  <2>1. /\ job.at = "logging" /\ job'.at = "warning" /\ job'.logs = job.logs
        /\ sinceLog' = sinceLog
    BY <1>0, <1>3 DEF LogsNothing, stamps, Job
  <2>2. ~ (job.logs /\ Due(sinceLog, Interval))
    BY <1>3 DEF LogsNothing
  <2>3. job.logs => sinceLog # Never /\ sinceLog < Interval
    BY <2>2, Gaps, NeverIsNoNumber DEF Due, Inv, TypeOK, Ages
  <2> QED BY <2>1, <2>3 DEF LogCourse, SampleEnds, Logged
<1>4. CASE Stamps
  <2>1. sinceLog' = 0 /\ job'.logs /\ job'.at = "appending" /\ job.at = "logging"
    BY <1>0, <1>4 DEF Stamps, Job
  <2>2. 0 # Never /\ 0 < Interval
    BY Gaps, NeverIsNoNumber
  <2> QED BY <2>1, <2>2 DEF LogCourse, SampleEnds, Logged
<1>5. CASE Appends \/ AppendFails
  <2>1. job'.at = "warning" /\ job'.logs = job.logs /\ sinceLog' = sinceLog /\ job.at = "appending"
    BY <1>0, <1>5 DEF Appends, AppendFails, stamps, Job
  <2> QED BY <2>1 DEF LogCourse, SampleEnds, Logged
<1>6. CASE Warns \/ KeepsQuiet
  <2>1. job'.at = "idle" /\ sinceLog' = sinceLog /\ job.at = "warning"
    BY <1>6 DEF Warns, KeepsQuiet, stamps, Idle
  <2> QED BY <2>1 DEF LogCourse, SampleEnds, Logged
<1>7. CASE job.at = "idle" /\ job' = job
  BY <1>7 DEF LogCourse, SampleEnds
<1>8. CASE UNCHANGED <<job, stamps>>
  BY <1>8 DEF LogCourse, SampleEnds, Logged, stamps
<1>9. CASE UNCHANGED vars
  BY <1>8, <1>9 DEF vars
<1> QED BY <1>1, <1>2, <1>3, <1>4, <1>5, <1>6, <1>7, <1>8, <1>9, QuietSteps DEF Logs

LEMMA HotStep ==
  ASSUME Inv, Hot, HotCourse, [Next /\ ~ Disturbance]_vars
  PROVE  HotCourse' /\ (SampleEnds => Warned')
<1>0. job \in Job
  BY DEF Inv, TypeOK
<1>1. CASE SampleBegins /\ ~ Disturbance
  <2>1. job.at = "idle"
    BY <1>1 DEF SampleBegins
  <2>2. job'.warns = limit
    BY <1>1 DEF Disturbance
  <2>3. \/ job'.at = "idle"
        \/ job'.at = "charging" /\ job'.temp = battery.temp
    <3>1. PICK torn \in BOOLEAN :
            LET logs == logging /\ ~ torn
                warns == IF torn THEN NoLimit ELSE limit
            IN job' = IF ~ logs /\ warns = NoLimit THEN Idle
                      ELSE [Idle EXCEPT !.at = "charging",
                                        !.logs = logs,
                                        !.warns = warns,
                                        !.pair = PairNow,
                                        !.temp = TempNow]
      BY <1>1, Zenon DEF SampleBegins
    <3>2. Idle.at = "idle"
      BY DEF Idle
    <3>3. CASE job' = Idle
      BY <3>2, <3>3
    <3>4. ASSUME NEW logs, NEW warns, NEW pair,
                 job' = [Idle EXCEPT !.at = "charging", !.logs = logs, !.warns = warns,
                                     !.pair = pair, !.temp = TempNow]
          PROVE  job'.at = "charging" /\ job'.temp = TempNow
      BY <3>4 DEF Idle
    <3>5. TempNow = battery.temp
      BY DEF TempNow, Hot
    <3> QED BY <3>1, <3>3, <3>4, <3>5, Zenon
  <2>4. job'.at = "charging" => Exceeds(job'.temp, job'.warns, TRUE)
    BY <2>2, <2>3 DEF Hot
  <2> QED BY <2>1, <2>3, <2>4 DEF HotCourse, SampleEnds
<1>2. CASE ReadsCharging
  <2>1. job.at = "charging" /\ job'.at = "logging" /\ job'.charging
        /\ job'.temp = job.temp /\ job'.warns = job.warns
    BY <1>0, <1>2 DEF ReadsCharging, Hot, Job, Charging
  <2> QED BY <2>1 DEF HotCourse, SampleEnds
<1>3. CASE LogsNothing \/ Stamps \/ Appends \/ AppendFails
  <2>1. /\ job.at \in {"logging", "appending"} /\ job'.at \in {"appending", "warning"}
        /\ job'.charging = job.charging /\ job'.temp = job.temp /\ job'.warns = job.warns
    BY <1>0, <1>3 DEF LogsNothing, Stamps, Appends, AppendFails, Job
  <2> QED BY <2>1 DEF HotCourse, SampleEnds
<1>4. CASE Warns
  <2>1. sinceWarn' = 0 /\ job'.at = "idle"
    BY <1>4 DEF Warns, Idle
  <2>2. 0 # Never /\ 0 < WarnGap
    BY Gaps, NeverIsNoNumber
  <2> QED BY <2>1, <2>2 DEF HotCourse, Warned
<1>5. CASE KeepsQuiet
  <2>1. job.at = "warning" /\ job'.at = "idle" /\ sinceWarn' = sinceWarn /\ ~ Warnable
    BY <1>5 DEF KeepsQuiet, stamps, Idle
  <2>2. Exceeds(job.temp, job.warns, job.charging)
    BY <2>1 DEF HotCourse, Exceeds
  <2>3. sinceWarn # Never /\ sinceWarn < WarnGap
    BY <2>1, <2>2, Gaps, NeverIsNoNumber DEF Warnable, Due, Inv, TypeOK, Ages
  <2> QED BY <2>1, <2>3 DEF HotCourse, Warned
<1>6. CASE job.at = "idle" /\ job' = job
  BY <1>6 DEF HotCourse, SampleEnds
<1>7. CASE UNCHANGED <<job, stamps>>
  BY <1>7 DEF HotCourse, SampleEnds
<1>8. CASE UNCHANGED vars
  BY <1>7, <1>8 DEF vars
<1> QED BY <1>1, <1>2, <1>3, <1>4, <1>5, <1>6, <1>7, <1>8, QuietSteps DEF Hot

LogEnds == SampleEnds => Logged'

(* While the log is asked for, no call ends with a line overdue, whether it
   could be written or not: what LogGoesOn says without time
   (daemon.rs maybe_sample_health). *)
THEOREM NoLineOverdue ==
  Spec => [](job.at = "idle" /\ []Logs /\ [][~ Disturbance]_vars => [][LogEnds]_vars)
<1>1. job.at = "idle" => LogCourse
  BY DEF LogCourse
<1>2. Inv /\ Logs /\ LogCourse /\ [Next]_vars /\ [~ Disturbance]_vars
        => LogCourse' /\ [LogEnds]_vars
  BY LogStep DEF LogEnds
<1> QED BY <1>1, <1>2, InvHolds, PTL DEF Spec

HotEnds == SampleEnds => Warned'

(* While a pack that is charged is over the limit, and there was one when the
   daemon was started, no call ends with a warning overdue, although the plug is read after the temperature and the pack may be
   swapped meanwhile: what HotIsReported says without time. *)
THEOREM NoWarningOverdue ==
  Spec => [](job.at = "idle" /\ []Hot /\ [][~ Disturbance]_vars => [][HotEnds]_vars)
<1>1. job.at = "idle" => HotCourse
  BY DEF HotCourse
<1>2. Inv /\ Hot /\ HotCourse /\ [Next]_vars /\ [~ Disturbance]_vars
        => HotCourse' /\ [HotEnds]_vars
  BY HotStep DEF HotEnds
<1> QED BY <1>1, <1>2, InvHolds, PTL DEF Spec

(* A battery is told of only if it was found. *)
TempIsFound ==
  /\ daemon = "off" => ~ found
  /\ job.temp # NoReading => found

LEMMA TempStep ==
  ASSUME Inv, TempIsFound, [Next]_vars
  PROVE  TempIsFound'
<1>0. job \in Job /\ Idle.temp = NoReading
  BY DEF Inv, TypeOK, Idle
<1>1. CASE SampleBegins
  <2>1. \/ job' = Idle
        \/ \E logs, warns :
             job' = [Idle EXCEPT !.at = "charging", !.logs = logs, !.warns = warns,
                                 !.pair = PairNow, !.temp = TempNow]
    BY <1>1, Zenon DEF SampleBegins
  <2>2. job'.temp \in {NoReading, TempNow}
    BY <1>0, <2>1 DEF Idle
  <2>3. ~ found => TempNow = NoReading
    BY DEF TempNow
  <2>4. UNCHANGED <<daemon, found>>
    BY <1>1 DEF SampleBegins
  <2> QED BY <2>2, <2>3, <2>4 DEF TempIsFound
<1>2. CASE SampleGoesOn
  <2>1. job'.temp \in {NoReading, job.temp}
    BY <1>0, <1>2 DEF SampleGoesOn, ReadsCharging, LogsNothing, Stamps, Appends,
                      AppendFails, Warns, KeepsQuiet, Job
  <2>2. UNCHANGED <<daemon, found>>
    BY <1>2 DEF SampleGoesOn, ReadsCharging, LogsNothing, Stamps, Appends,
                AppendFails, Warns, KeepsQuiet
  <2> QED BY <2>1, <2>2 DEF TempIsFound
<1>3. CASE DaemonStarts
  BY <1>3 DEF DaemonStarts, TempIsFound
<1>4. CASE DaemonEnds
  BY <1>0, <1>4 DEF DaemonEnds, TempIsFound
<1>5. CASE TimePasses \/ ClockIsSet \/ WorldChanges \/ SettingsChange \/ UNCHANGED vars
  <2>1. UNCHANGED <<job, daemon, found>>
    BY <1>5 DEF TimePasses, ClockIsSet, WorldChanges, SettingsChange, vars
  <2> QED BY <2>1 DEF TempIsFound
<1> QED BY <1>1, <1>2, <1>3, <1>4, <1>5 DEF Next

(* A pack put into a bay that was empty when the daemon was started is not
   warned about, however hot it gets, until the daemon is started again: the
   other side of HotIsReported (battery.rs:35-42,246-253). *)
THEOREM OnlyFoundIsWarned == Spec => [][Warns => found]_vars
<1>1. Init => TempIsFound
  BY DEF Init, Idle, TempIsFound
<1>2. Inv /\ TempIsFound /\ [Next]_vars => TempIsFound' /\ [Warns => found]_vars
  <2>1. TempIsFound /\ Warns => found
    BY DEF Warns, Warnable, Exceeds, TempIsFound
  <2> QED BY <2>1, TempStep
<1> QED BY <1>1, <1>2, InvHolds, PTL DEF Spec

===============================================================================
