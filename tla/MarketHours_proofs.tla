-------------------------- MODULE MarketHours_proofs --------------------------
(***************************************************************************)
(* Proofs about the trading-hours gate: on every day from 1970 on, however *)
(* far, the era arithmetic agrees with a calendar that is walked one day   *)
(* at a time, and the gate opens exactly when New York trades.             *)
(***************************************************************************)
EXTENDS MCGuards, TLAPS

-----------------------------------------------------------------------------
(* Dates and day numbers *)

\* Days before a month, of a year that begins in March.
MonthStart(mp) == (153 * mp + 2) \div 5

\* The months of the civil calendar, February last.
LEMMA MonthStarts ==
  /\ MonthStart(0) = 0 /\ MonthStart(1) = 31 /\ MonthStart(2) = 61 /\ MonthStart(3) = 92
  /\ MonthStart(4) = 122 /\ MonthStart(5) = 153 /\ MonthStart(6) = 184
  /\ MonthStart(7) = 214 /\ MonthStart(8) = 245 /\ MonthStart(9) = 275
  /\ MonthStart(10) = 306 /\ MonthStart(11) = 337
BY DEF MonthStart

\* A date of the Gregorian calendar, from the year of the epoch.
IsDate(y, m, d) ==
  y \in Nat /\ y >= 1 /\ m \in 1..12 /\ d \in Nat /\ 1 <= d /\ d <= MonthLength(y, m)

\* No month is shorter than 28 days or longer than 31.
LEMMA MonthLengths ==
  ASSUME NEW y \in Nat, NEW m \in 1..12
  PROVE  MonthLength(y, m) \in 28..31
BY DEF MonthLength

\* The year begun in March ends with a leap day if the next year is a leap year.
LEMMA YearTurns ==
  ASSUME NEW y \in Nat, y >= 1
  PROVE  LET D(x) == 146097 * (x \div 400) + 365 * (x % 400) + (x % 400) \div 4
                       - (x % 400) \div 100
         IN  D(y) = D(y - 1) + (IF IsLeap(y) THEN 366 ELSE 365)
BY SMTT(60) DEF IsLeap

\* A date has a day number.
LEMMA DaysInt ==
  ASSUME NEW y \in Nat, NEW m \in 1..12, NEW d \in Int
  PROVE  DaysFromCivil(y, m, d) \in Int
BY DEF DaysFromCivil

\* Within a month the numbers run with the days.
LEMMA SameMonth ==
  ASSUME NEW y \in Nat, NEW m \in 1..12, NEW d \in Int, NEW e \in Int
  PROVE  /\ DaysFromCivil(y, m, d) \in Int
         /\ DaysFromCivil(y, m, e) = DaysFromCivil(y, m, d) + e - d
BY DEF DaysFromCivil

\* The calendar's next day is the next day number.
LEMMA FollowingDays ==
  ASSUME NEW y \in Nat, NEW m \in Nat, NEW d \in Nat, IsDate(y, m, d)
  PROVE  LET t == Following(<<y, m, d>>)
         IN  /\ t = <<t[1], t[2], t[3]>> /\ IsDate(t[1], t[2], t[3])
             /\ DaysFromCivil(t[1], t[2], t[3]) = DaysFromCivil(y, m, d) + 1
<1>1. y >= 1 /\ m \in 1..12 /\ 1 <= d /\ d <= MonthLength(y, m)
  BY DEF IsDate
<1>2. MonthLength(y, m) \in 28..31
  BY <1>1, MonthLengths
<1>3. CASE d < MonthLength(y, m)
  <2>1. Following(<<y, m, d>>) = <<y, m, d + 1>>
    BY <1>3 DEF Following
  <2>2. DaysFromCivil(y, m, d + 1) = DaysFromCivil(y, m, d) + 1
    <3>1. d \in Int /\ d + 1 \in Int
      OBVIOUS
    <3>2. /\ DaysFromCivil(y, m, d) \in Int
          /\ DaysFromCivil(y, m, d + 1) = DaysFromCivil(y, m, d) + (d + 1) - d
      BY <1>1, <3>1, SameMonth
    <3>3. PICK n \in Int : n = DaysFromCivil(y, m, d)
      BY <3>2
    <3> QED BY <3>2, <3>3
  <2> QED BY <1>1, <1>2, <1>3, <2>1, <2>2 DEF IsDate
<1>4. CASE d = MonthLength(y, m) /\ m < 12
  <2>1. Following(<<y, m, d>>) = <<y, m + 1, 1>>
    BY <1>2, <1>4 DEF Following
  <2>2. DaysFromCivil(y, m + 1, 1) = DaysFromCivil(y, m, d) + 1
    <3>1. CASE m = 2
      BY <1>1, <1>4, <3>1, YearTurns DEF DaysFromCivil, MonthLength
    <3>2. CASE m \in {1, 3, 4, 5, 6, 7, 8, 9, 10, 11}
      BY <1>1, <1>4, <3>2 DEF DaysFromCivil, MonthLength
    <3> QED BY <1>1, <1>4, <3>1, <3>2
  <2>3. IsDate(y, m + 1, 1)
    BY <1>1, <1>4, MonthLengths DEF IsDate
  <2> QED BY <2>1, <2>2, <2>3
<1>5. CASE d = MonthLength(y, m) /\ m = 12
  <2>1. Following(<<y, m, d>>) = <<y + 1, 1, 1>>
    BY <1>2, <1>5 DEF Following
  <2>2. DaysFromCivil(y + 1, 1, 1) = DaysFromCivil(y, m, d) + 1
    BY <1>1, <1>5 DEF DaysFromCivil, MonthLength
  <2>3. IsDate(y + 1, 1, 1)
    BY <1>1, MonthLengths DEF IsDate
  <2> QED BY <2>1, <2>2, <2>3
<1> QED BY <1>1, <1>2, <1>3, <1>4, <1>5

\* A year begun in March, of an era of 400 years, by its century, its four years and its
\* place in them.
YearOfEra(doe) ==
  (doe - doe \div 1460 + doe \div 36524 - doe \div 146096) \div 365

DayOfEra(c, q, r, doy) == 36524 * c + 1461 * q + 365 * r + doy

\* Only a leap year ends with a 366th day.
InEra(c, q, r, doy) ==
  /\ c \in 0..3 /\ q \in 0..24 /\ r \in 0..3 /\ doy \in 0..365
  /\ doy = 365 => r = 3 /\ (q = 24 => c = 3)

\* CivilFromDays finds the year of a day of the era.
LEMMA YearFound ==
  ASSUME NEW c, NEW q, NEW r, NEW doy, InEra(c, q, r, doy)
  PROVE  LET doe == DayOfEra(c, q, r, doy)
         IN  doe \in Nat /\ doe < 146097 /\ YearOfEra(doe) = 100 * c + 4 * q + r
<1>0. PICK doe : doe = DayOfEra(c, q, r, doy) /\ doe = 36524 * c + 1461 * q + 365 * r + doy
  BY DEF DayOfEra
<1>1. /\ c \in Int /\ q \in Int /\ r \in Int /\ doy \in Int /\ doe \in Int
      /\ 0 <= c /\ c <= 3 /\ 0 <= q /\ q <= 24 /\ 0 <= r /\ r <= 3 /\ 0 <= doy /\ doy <= 365
      /\ doy = 365 => r = 3 /\ (q = 24 => c = 3)
  BY <1>0 DEF InEra
<1>2. PICK x \in Int : x = 24 * c + q + 365 * r + doy /\ 0 <= x /\ x < 2920
  BY <1>1
<1>3. PICK e \in 0..1 : e = (IF x >= 1460 THEN 1 ELSE 0)
  OBVIOUS
<1>4. doe \div 1460 = 25 * c + q + e
  <2>1. doe = 1460 * (25 * c + q) + x
    BY <1>0, <1>1, <1>2
  <2>2. PICK n \in Int : n = 25 * c + q
    BY <1>1
  <2> QED BY <1>1, <1>2, <1>3, <2>1, <2>2
<1>5. doy - e \in 0..364
  BY <1>1, <1>2, <1>3
<1>6. PICK yoe \in Int : yoe = 100 * c + 4 * q + r
  BY <1>1
<1>7. CASE doy = 365 /\ c = 3 /\ q = 24
  <2>1. doe = 146096 /\ yoe = 399
    BY <1>0, <1>1, <1>6, <1>7
  <2> QED BY <1>0, <1>6, <2>1 DEF YearOfEra
<1>8. CASE ~(doy = 365 /\ c = 3 /\ q = 24)
  <2>1. 36524 * c <= doe /\ doe < 36524 * c + 36524 /\ 0 <= doe /\ doe < 146096
    BY <1>0, <1>1, <1>8
  <2>2. doe \div 36524 = c /\ doe \div 146096 = 0
    BY <1>1, <2>1
  <2>3. doe - doe \div 1460 + doe \div 36524 - doe \div 146096 = 365 * yoe + (doy - e)
    BY <1>0, <1>1, <1>3, <1>4, <1>6, <2>2
  <2>4. PICK g \in 0..364 : g = doy - e
    BY <1>5
  <2>5. (365 * yoe + g) \div 365 = yoe
    BY <1>6
  <2>6. YearOfEra(doe) = yoe
    BY <2>3, <2>4, <2>5 DEF YearOfEra
  <2> QED BY <1>0, <1>1, <1>6, <2>1, <2>6
<1> QED BY <1>0, <1>7, <1>8

\* The parts of a date as both conversions count it: the year begun in March, the month of
\* that year from zero, and the day of that year.
MarchYear(y, m) == IF m <= 2 THEN y - 1 ELSE y
MarchMonth(m) == IF m > 2 THEN m - 3 ELSE m + 9
DayOfYear(m, d) == MonthStart(MarchMonth(m)) + d - 1

\* The month and day of a day of the year; only a leap day is its 366th.
LEMMA DayFound ==
  ASSUME NEW y \in Nat, NEW m \in Nat, NEW d \in Nat, IsDate(y, m, d)
  PROVE  LET doy == DayOfYear(m, d)
         IN  /\ doy \in 0..365
             /\ (5 * doy + 2) \div 153 = MarchMonth(m)
             /\ doy = 365 => m = 2 /\ IsLeap(y)
<1>1. /\ m \in 1..12 /\ 1 <= d /\ d <= MonthLength(y, m)
  BY DEF IsDate
<1>2. CASE m \in {4, 6, 9, 11}
  BY <1>1, <1>2, MonthStarts DEF MonthLength, DayOfYear, MarchMonth
<1>3. CASE m \in {1, 3, 5, 7, 8, 10, 12}
  BY <1>1, <1>3, MonthStarts DEF MonthLength, DayOfYear, MarchMonth
<1>4. CASE m = 2
  BY <1>1, <1>4, MonthStarts DEF MonthLength, DayOfYear, MarchMonth
<1> QED BY <1>1, <1>2, <1>3, <1>4

\* The end of CivilFromDays, from the year on and from the month on.
DateFrom(era, yoe, doy, mp) ==
  LET m == IF mp < 10 THEN mp + 3 ELSE mp - 9
  IN  <<yoe + 400 * era + (IF m <= 2 THEN 1 ELSE 0), m, doy - (153 * mp + 2) \div 5 + 1>>

DateAt(era, yoe, doe) ==
  LET doy == doe - (365 * yoe + yoe \div 4 - yoe \div 100)
  IN  DateFrom(era, yoe, doy, (5 * doy + 2) \div 153)

\* From a date to its number and back.
LEMMA CivilInverts ==
  ASSUME NEW y \in Nat, NEW m \in Nat, NEW d \in Nat, IsDate(y, m, d)
  PROVE  CivilFromDays(DaysFromCivil(y, m, d)) = <<y, m, d>>
<1>1. y >= 1 /\ m \in 1..12 /\ 1 <= d
  BY DEF IsDate
<1>2. PICK year \in Nat : year = MarchYear(y, m)
  BY <1>1 DEF MarchYear
<1>3. PICK era \in Nat, yoe \in Nat : /\ era = year \div 400 /\ yoe = year % 400
                                      /\ year = 400 * era + yoe /\ yoe < 400
  OBVIOUS
<1>4. PICK c \in 0..3, q \in 0..24, r \in 0..3 :
        yoe = 100 * c + 4 * q + r /\ yoe \div 4 = 25 * c + q /\ yoe \div 100 = c
  <2>1. PICK c \in 0..3, yc \in Nat : yoe = 100 * c + yc /\ yc < 100
    BY <1>3
  <2>2. PICK q \in 0..24, r \in 0..3 : yc = 4 * q + r
    BY <2>1
  <2> QED BY <2>1, <2>2
<1>5. PICK doy \in 0..365 : /\ doy = DayOfYear(m, d)
                            /\ (5 * doy + 2) \div 153 = MarchMonth(m)
                            /\ doy = 365 => m = 2 /\ IsLeap(y)
  <2>1. /\ DayOfYear(m, d) \in 0..365
        /\ (5 * DayOfYear(m, d) + 2) \div 153 = MarchMonth(m)
        /\ DayOfYear(m, d) = 365 => m = 2 /\ IsLeap(y)
    BY DayFound
  <2> QED BY <2>1
<1>6. doy = 365 => r = 3 /\ (q = 24 => c = 3)
  <2> SUFFICES ASSUME doy = 365 PROVE r = 3 /\ (q = 24 => c = 3)
    OBVIOUS
  <2>1. y = 400 * era + 100 * c + 4 * q + r + 1 /\ IsLeap(y)
    BY <1>1, <1>2, <1>3, <1>4, <1>5 DEF MarchYear
  <2> QED BY <2>1 DEF IsLeap
<1>7. PICK doe \in Nat : /\ doe = DayOfEra(c, q, r, doy)
                         /\ doe = 36524 * c + 1461 * q + 365 * r + doy
  BY DEF DayOfEra
<1>8. doe < 146097 /\ YearOfEra(doe) = yoe
  <2>1. doe < 146097 /\ YearOfEra(doe) = 100 * c + 4 * q + r
    <3>1. InEra(c, q, r, doy)
      BY <1>6 DEF InEra
    <3>2. /\ DayOfEra(c, q, r, doy) < 146097
          /\ YearOfEra(DayOfEra(c, q, r, doy)) = 100 * c + 4 * q + r
      BY <3>1, YearFound
    <3> QED BY <1>7, <3>2
  <2> QED BY <1>4, <2>1
<1>9. DaysFromCivil(y, m, d) + 719468 = 146097 * era + doe
  BY <1>2, <1>3, <1>4, <1>5, <1>7 DEF DaysFromCivil, MarchYear, MarchMonth, DayOfYear, MonthStart
<1>10. PICK z \in Int : z = DaysFromCivil(y, m, d)
  <2>1. d \in Int
    OBVIOUS
  <2>2. DaysFromCivil(y, m, d) \in Int
    BY <1>1, <2>1, DaysInt
  <2> QED BY <2>2
<1>11. (z + 719468) \div 146097 = era /\ (z + 719468) % 146097 = doe
  BY <1>8, <1>9, <1>10
<1>12. doe - (365 * yoe + yoe \div 4 - yoe \div 100) = doy
  BY <1>4, <1>7
<1>13. CivilFromDays(z) = <<y, m, d>>
  <2>1. CivilFromDays(z) = DateAt(era, YearOfEra(doe), doe)
    BY <1>11 DEF CivilFromDays, YearOfEra, DateAt, DateFrom
  <2>2. DateAt(era, yoe, doe) = DateFrom(era, yoe, doy, MarchMonth(m))
    BY <1>5, <1>12 DEF DateAt
  <2>3. (IF MarchMonth(m) < 10 THEN MarchMonth(m) + 3 ELSE MarchMonth(m) - 9) = m
    BY <1>1 DEF MarchMonth
  <2>4. yoe + 400 * era + (IF m <= 2 THEN 1 ELSE 0) = y
    BY <1>1, <1>2, <1>3 DEF MarchYear
  <2>5. doy - (153 * MarchMonth(m) + 2) \div 5 + 1 = d
    BY <1>1, <1>5 DEF DayOfYear, MonthStart, MarchMonth
  <2> QED BY <1>8, <2>1, <2>2, <2>3, <2>4, <2>5 DEF DateFrom
<1> QED BY <1>10, <1>13

-----------------------------------------------------------------------------
(* Sundays *)

\* The first Sunday of a month is in its first week, and the others follow by weeks.
LEMMA SundaysFollow ==
  ASSUME NEW y \in Nat, NEW m \in 1..12
  PROVE  /\ NthSunday(y, m, 1) \in 1..7
         /\ \A n \in Int : NthSunday(y, m, n) = NthSunday(y, m, 1) + 7 * (n - 1)
<1>1. PICK k : k = DaysFromCivil(y, m, 1)
  OBVIOUS
<1>2. k \in Int
  <2>1. 1 \in Int
    OBVIOUS
  <2> QED BY <1>1, <2>1, DaysInt
<1>3. PICK x \in 0..6 : x = (7 - WeekdayOf(k)) % 7
  BY <1>2 DEF WeekdayOf
<1>4. \A n \in Int : NthSunday(y, m, n) = 1 + x + (n - 1) * 7
  BY <1>1, <1>3 DEF NthSunday
<1> QED BY <1>4

\* The Sundays of a month are the days a whole number of weeks from the first.
LEMMA SundayWeeks ==
  ASSUME NEW y \in Nat, NEW m \in 1..12, NEW d \in Int
  PROVE  WeekdayOf(DaysFromCivil(y, m, d)) = 0 <=> (d - NthSunday(y, m, 1)) % 7 = 0
<1>1. 1 \in Int /\ d \in Int
  OBVIOUS
<1>2. /\ DaysFromCivil(y, m, 1) \in Int
      /\ DaysFromCivil(y, m, d) = DaysFromCivil(y, m, 1) + d - 1
  BY <1>1, SameMonth
<1>3. PICK k \in Int : k = DaysFromCivil(y, m, 1)
  BY <1>2
<1>4. DaysFromCivil(y, m, d) = k + d - 1
  BY <1>2, <1>3
<1>5. PICK j : j = k % 7
  OBVIOUS
<1>6. PICK w : w = k \div 7
  OBVIOUS
<1>7. j \in 0..6 /\ w \in Int /\ k = 7 * w + j
  BY <1>5, <1>6
<1>8. PICK f \in 1..7 : f = NthSunday(y, m, 1)
  BY SundaysFollow
<1>9. f = 1 + ((7 - WeekdayOf(k)) % 7)
  BY <1>3, <1>7, <1>8 DEF NthSunday, WeekdayOf
<1>10. WeekdayOf(k) = (j + 4) % 7
  BY <1>5 DEF WeekdayOf
<1>11. j + f + 3 \in {7, 14}
  BY <1>7, <1>9, <1>10
<1>12. WeekdayOf(k + d - 1) = (j + d + 3) % 7
  <2>1. (((k + d - 1) % 7) + 4) % 7 = (j + d + 3) % 7
    BY <1>7
  <2> QED BY <2>1 DEF WeekdayOf
<1>13. (j + d + 3) % 7 = 0 <=> (d - f) % 7 = 0
  BY <1>7, <1>11
<1> QED BY <1>4, <1>8, <1>12, <1>13

\* The number n of Sundays up to day d, when f is the first.
Counted(n, d, f) == n \in Nat /\ 7 * n <= d - f + 7 /\ d - f < 7 * n

\* The count goes on by one on every Sunday.
LEMMA NextCounted ==
  ASSUME NEW n, NEW d \in Nat, NEW f \in 1..7, Counted(n, d, f)
  PROVE  Counted(n + (IF (d + 1 - f) % 7 = 0 THEN 1 ELSE 0), d + 1, f)
BY DEF Counted

\* The count begins anew with the month.
LEMMA FirstCounted ==
  ASSUME NEW f \in 1..7
  PROVE  Counted(IF (1 - f) % 7 = 0 THEN 1 ELSE 0, 1, f)
BY DEF Counted

\* The rule of daylight-saving time, by the Sundays counted.
LEMMA DstCounted ==
  ASSUME NEW y \in Nat, NEW m \in 1..12, NEW d \in Nat, NEW n,
         Counted(n, d, NthSunday(y, m, 1))
  PROVE  IsUsDst(y, m, d) <=> \/ m \in 4..10
                              \/ m = 3 /\ n >= 2
                              \/ m = 11 /\ n = 0
<1>1. /\ NthSunday(y, m, 1) \in 1..7
      /\ \A k \in Int : NthSunday(y, m, k) = NthSunday(y, m, 1) + 7 * (k - 1)
  BY SundaysFollow
<1>2. PICK f \in 1..7 : f = NthSunday(y, m, 1)
  BY <1>1
<1>3. NthSunday(y, m, 2) = f + 7
  BY <1>1, <1>2
<1>4. n \in Nat /\ 7 * n <= d - f + 7 /\ d - f < 7 * n
  BY <1>2 DEF Counted
<1> QED BY <1>2, <1>3, <1>4 DEF IsUsDst

-----------------------------------------------------------------------------
(* The calendar *)

\* Where the walk is: at the date of its day, on its weekday, with the Sundays of the month
\* counted and daylight-saving time by the rule.
CalendarInv ==
  /\ day \in Nat /\ sundays \in Nat
  /\ date = <<date[1], date[2], date[3]>>
  /\ date[1] \in Nat /\ date[2] \in Nat /\ date[3] \in Nat
  /\ IsDate(date[1], date[2], date[3])
  /\ DaysFromCivil(date[1], date[2], date[3]) = day
  /\ weekday = WeekdayOf(day)
  /\ Counted(sundays, date[3], NthSunday(date[1], date[2], 1))
  /\ dst \in BOOLEAN /\ (dst <=> IsUsDst(date[1], date[2], date[3]))

\* The epoch was a Thursday in winter.
LEMMA CalendarInit == FirstDay => CalendarInv
<1> SUFFICES ASSUME FirstDay PROVE CalendarInv
  OBVIOUS
<1>1. day = 0 /\ date = <<1970, 1, 1>> /\ weekday = 4 /\ sundays = 0 /\ dst = FALSE
  BY DEF FirstDay
<1>2. /\ date[1] = 1970 /\ date[2] = 1 /\ date[3] = 1
  BY <1>1
<1>3. IsDate(1970, 1, 1)
  BY DEF IsDate, MonthLength
<1>4. DaysFromCivil(1970, 1, 1) = 0
  BY DEF DaysFromCivil
<1>5. WeekdayOf(0) = 4
  BY DEF WeekdayOf
<1>6. NthSunday(1970, 1, 1) = 4
  BY <1>4, <1>5 DEF NthSunday
<1>7. Counted(0, 1, 4)
  BY DEF Counted
<1>8. dst \in BOOLEAN /\ ~dst /\ ~IsUsDst(1970, 1, 1)
  <2>1. dst = FALSE
    BY <1>1
  <2>2. ~IsUsDst(1970, 1, 1)
    BY DEF IsUsDst
  <2>3. dst \in BOOLEAN /\ ~dst
    BY <2>1, Zenon
  <2> QED BY <2>2, <2>3
<1>9. /\ IsDate(date[1], date[2], date[3])
      /\ DaysFromCivil(date[1], date[2], date[3]) = day
      /\ Counted(sundays, date[3], NthSunday(date[1], date[2], 1))
      /\ ~IsUsDst(date[1], date[2], date[3])
  BY <1>1, <1>2, <1>3, <1>4, <1>6, <1>7, <1>8
<1>10. date = <<date[1], date[2], date[3]>>
  BY <1>1
<1>11. day \in Nat /\ sundays \in Nat /\ date[1] \in Nat /\ date[2] \in Nat /\ date[3] \in Nat
  BY <1>1, <1>2
<1> QED BY <1>1, <1>5, <1>8, <1>9, <1>10, <1>11 DEF CalendarInv

\* A day later it still is, over the ends of months and years, leap days included.
LEMMA CalendarStep ==
  ASSUME CalendarInv, [Tomorrow]_wall
  PROVE  CalendarInv'
<1>1. CASE UNCHANGED wall
  BY <1>1 DEF wall, CalendarInv
<1>2. CASE Tomorrow
  <2>1. PICK y \in Nat, m \in Nat, d \in Nat : date = <<y, m, d>> /\ IsDate(y, m, d)
    BY DEF CalendarInv
  <2>2. date[1] = y /\ date[2] = m /\ date[3] = d
    BY <2>1
  <2>3. PICK t : t = Following(<<y, m, d>>)
    OBVIOUS
  <2>4. /\ t = <<t[1], t[2], t[3]>> /\ IsDate(t[1], t[2], t[3])
        /\ DaysFromCivil(t[1], t[2], t[3]) = DaysFromCivil(y, m, d) + 1
    BY <2>1, <2>3, FollowingDays
  <2>5. PICK y2 \in Nat, m2 \in 1..12, d2 \in Nat :
          t = <<y2, m2, d2>> /\ t[1] = y2 /\ t[2] = m2 /\ t[3] = d2
    BY <2>4 DEF IsDate
  <2>6. PICK f \in 1..7 : f = NthSunday(y2, m2, 1)
    BY SundaysFollow
  <2>7. m \in 1..12 /\ d >= 1 /\ MonthLength(y, m) \in 28..31 /\ d <= MonthLength(y, m)
    BY <2>1, MonthLengths DEF IsDate
  <2>8. /\ date' = t /\ day' = day + 1 /\ weekday' = (weekday + 1) % 7
        /\ sundays' = (IF d2 = 1 THEN 0 ELSE sundays) + (IF weekday' = 0 THEN 1 ELSE 0)
        /\ dst' = CASE weekday' = 0 /\ m2 = 3 /\ sundays' = 2 -> TRUE
                    [] weekday' = 0 /\ m2 = 11 /\ sundays' = 1 -> FALSE
                    [] OTHER -> dst
    BY <1>2, <2>1, <2>3, <2>5 DEF Tomorrow
  <2>9. day \in Nat /\ weekday = WeekdayOf(day) /\ DaysFromCivil(y, m, d) = day
    BY <2>2 DEF CalendarInv
  <2>10. DaysFromCivil(y2, m2, d2) = day' /\ weekday' = WeekdayOf(day')
    <3>1. DaysFromCivil(y2, m2, d2) = day'
      BY <2>4, <2>5, <2>8, <2>9
    <3> QED BY <2>8, <2>9, <3>1 DEF WeekdayOf
  <2>11. weekday' = 0 <=> (d2 - f) % 7 = 0
    <3>1. d2 \in Int
      OBVIOUS
    <3> QED BY <2>6, <2>10, <3>1, SundayWeeks
  <2>12. \/ y2 = y /\ m2 = m /\ d2 = d + 1
         \/ /\ d2 = 1 /\ d >= 28 /\ (m = 10 => m2 = 11) /\ (m = 3 => d = 31 /\ m2 = 4)
            /\ (m = 2 => m2 = 3) /\ (m = 11 => d = 30 /\ m2 = 12)
            /\ m2 = (IF m = 12 THEN 1 ELSE m + 1)
    BY <2>3, <2>5, <2>7 DEF Following, MonthLength
  <2>13. PICK g \in 1..7 : g = NthSunday(y, m, 1)
    BY <2>7, SundaysFollow
  <2>14. Counted(sundays, d, g)
    BY <2>2, <2>13 DEF CalendarInv
  <2>15. Counted(sundays', d2, f)
    <3>1. CASE d2 = 1
      BY <2>8, <2>11, <3>1, FirstCounted
    <3>2. CASE d2 # 1
      <4>1. d2 = d + 1 /\ f = g
        BY <2>6, <2>12, <2>13, <3>2
      <4> QED BY <2>8, <2>11, <2>14, <3>2, <4>1, NextCounted
    <3> QED BY <3>1, <3>2
  <2>16. /\ dst \in BOOLEAN
         /\ dst <=> (m \in 4..10 \/ (m = 3 /\ sundays >= 2) \/ (m = 11 /\ sundays = 0))
    BY <2>2, <2>7, <2>13, <2>14, DstCounted DEF CalendarInv, IsUsDst
  <2>17. /\ dst' \in BOOLEAN
         /\ dst' <=> (m2 \in 4..10 \/ (m2 = 3 /\ sundays' >= 2) \/ (m2 = 11 /\ sundays' = 0))
    <3>1. sundays \in Nat /\ 7 * sundays <= d - g + 7 /\ d - g < 7 * sundays
      BY <2>14 DEF Counted
    <3>2. CASE weekday' = 0 /\ m2 = 3 /\ sundays' = 2
      <4>1. ~(weekday' = 0 /\ m2 = 11 /\ sundays' = 1)
        BY <3>2
      <4>2. dst' = TRUE
        BY <2>8, <3>2, <4>1, Zenon
      <4>3. m2 = 3 /\ sundays' >= 2
        BY <3>2
      <4> QED BY <4>2, <4>3, Zenon
    <3>3. CASE weekday' = 0 /\ m2 = 11 /\ sundays' = 1
      <4>1. ~(weekday' = 0 /\ m2 = 3 /\ sundays' = 2)
        BY <3>3
      <4>2. dst' = FALSE
        BY <2>8, <3>3, <4>1, Zenon
      <4>3. ~(m2 \in 4..10 \/ (m2 = 3 /\ sundays' >= 2) \/ (m2 = 11 /\ sundays' = 0))
        BY <3>3
      <4> QED BY <4>2, <4>3, Zenon
    <3>4. CASE /\ ~(weekday' = 0 /\ m2 = 3 /\ sundays' = 2)
               /\ ~(weekday' = 0 /\ m2 = 11 /\ sundays' = 1)
      <4>1. dst' = dst
        BY <2>8, <3>4, Zenon
      <4>2. PICK s \in Nat : s = sundays
        BY <3>1
      <4>3. PICK s2 \in Nat : s2 = sundays'
        BY <2>15 DEF Counted
      <4>4. s2 = (IF d2 = 1 THEN 0 ELSE s) + (IF weekday' = 0 THEN 1 ELSE 0)
        BY <2>8, <4>2, <4>3
      <4>5. 7 * s <= d - g + 7 /\ d - g < 7 * s
        BY <3>1, <4>2
      <4>6. /\ ~(weekday' = 0 /\ m2 = 3 /\ s2 = 2)
            /\ ~(weekday' = 0 /\ m2 = 11 /\ s2 = 1)
        BY <3>4, <4>3
      <4>7. (m2 \in 4..10 \/ (m2 = 3 /\ s2 >= 2) \/ (m2 = 11 /\ s2 = 0))
              <=> (m \in 4..10 \/ (m = 3 /\ s >= 2) \/ (m = 11 /\ s = 0))
        <5>1. CASE m2 = m /\ d2 = d + 1
          BY <2>7, <4>4, <4>6, <5>1
        <5>2. CASE m2 = (IF m = 12 THEN 1 ELSE m + 1) /\ d2 = 1
          BY <2>7, <2>12, <4>4, <4>5, <4>6, <5>2
        <5> QED BY <2>12, <5>1, <5>2
      <4> QED BY <2>16, <4>1, <4>2, <4>3, <4>7, Zenon
    <3> QED BY <3>2, <3>3, <3>4
  <2>18. dst' \in BOOLEAN /\ (dst' <=> IsUsDst(y2, m2, d2))
    BY <2>6, <2>15, <2>17, DstCounted DEF IsUsDst
  <2>19. sundays' \in Nat
    BY <2>15 DEF Counted
  <2>20. date'[1] = y2 /\ date'[2] = m2 /\ date'[3] = d2 /\ date' = <<y2, m2, d2>>
         /\ IsDate(y2, m2, d2)
    BY <2>4, <2>5, <2>8
  <2>21. day' \in Nat
    BY <2>8, <2>9
  <2> QED BY <2>6, <2>10, <2>15, <2>18, <2>19, <2>20, <2>21 DEF CalendarInv
<1> QED BY <1>1, <1>2

-----------------------------------------------------------------------------
(* What the calendar shows *)

\* Where the walk is, both conversions are.
LEMMA CalendarShows == CalendarInv => CalendarAgrees
<1> SUFFICES ASSUME CalendarInv PROVE CalendarAgrees
  OBVIOUS
<1>1. PICK y \in Nat, m \in Nat, d \in Nat :
        /\ date = <<y, m, d>> /\ date[1] = y /\ date[2] = m /\ date[3] = d
        /\ IsDate(y, m, d) /\ DaysFromCivil(y, m, d) = day
        /\ Counted(sundays, d, NthSunday(y, m, 1))
  BY DEF CalendarInv
<1>2. m \in 1..12 /\ d \in Int
  BY <1>1 DEF IsDate
<1>3. CivilFromDays(day) = date
  BY <1>1, CivilInverts
<1>4. ASSUME weekday = 0 PROVE NthSunday(y, m, sundays) = d
  <2>1. PICK f \in 1..7 : f = NthSunday(y, m, 1)
    BY <1>2, SundaysFollow
  <2>2. weekday = WeekdayOf(DaysFromCivil(y, m, d))
    BY <1>1 DEF CalendarInv
  <2>3. (d - f) % 7 = 0
    BY <1>2, <1>4, <2>1, <2>2, SundayWeeks
  <2>4. sundays \in Nat /\ 7 * sundays <= d - f + 7 /\ d - f < 7 * sundays
    BY <1>1, <2>1 DEF Counted
  <2>5. d = f + 7 * (sundays - 1)
    BY <2>3, <2>4
  <2>6. sundays \in Int
    BY <2>4
  <2> QED BY <1>2, <2>1, <2>5, <2>6, SundaysFollow
<1> QED BY <1>1, <1>3, <1>4 DEF CalendarAgrees

\* New York and the gate may be of two minds only about a Sunday, and neither trades then.
LEMMA GateAtSecond ==
  ASSUME CalendarInv, NEW sec \in Nat, sec < 86400
  PROVE  IsRthAt(day, sec) = OpenAt(sec)
<1>1. PICK y \in Nat, m \in Nat, d \in Nat : CivilFromDays(day) = <<y, m, d>>
                                             /\ date[1] = y /\ date[2] = m /\ date[3] = d
  BY CalendarShows DEF CalendarInv, CalendarAgrees
<1>2. day \in Nat /\ weekday = WeekdayOf(day) /\ weekday \in 0..6
  BY DEF CalendarInv, WeekdayOf
<1>3. PICK hours \in {4, 5} : hours = (IF IsUsDst(y, m, d) THEN 4 ELSE 5)
  OBVIOUS
<1>4. PICK east \in Int : east = sec - 3600 * hours
  OBVIOUS
<1>5. east >= -86400 /\ east < 86400
  BY <1>4
<1>6. IsRthAt(day, sec) <=> /\ WeekdayOf(day + east \div 86400) \notin {0, 6}
                            /\ (east % 86400) \div 60 \in 570..959
  <2>1. sec + 3600 * (IF IsUsDst(y, m, d) THEN -4 ELSE -5) = east
    BY <1>3, <1>4
  <2> QED BY <1>1, <2>1 DEF IsRthAt
<1>7. WeekdayOf(day + east \div 86400) = (IF east < 0 THEN (weekday + 6) % 7 ELSE weekday)
  BY <1>2, <1>5 DEF WeekdayOf
<1>8. CASE weekday = 0
  <2>1. ~IsRthAt(day, sec)
    BY <1>6, <1>7, <1>8
  <2>2. ~OpenAt(sec)
    BY <1>8 DEF OpenAt
  <2> QED BY <2>1, <2>2 DEF IsRthAt, OpenAt
<1>9. CASE weekday # 0
  <2>1. DstAt(sec) <=> IsUsDst(y, m, d)
    BY <1>1, <1>9 DEF DstAt, CalendarInv
  <2>2. sec - 3600 * (IF DstAt(sec) THEN 4 ELSE 5) = east
    BY <1>3, <1>4, <2>1
  <2>3. OpenAt(sec) <=> /\ (IF east < 0 THEN (weekday + 6) % 7 ELSE weekday) \in 1..5
                        /\ east % 86400 >= 34200 /\ east % 86400 < 57600
    BY <2>2 DEF OpenAt
  <2>4. (east % 86400) \div 60 \in 570..959 <=> east % 86400 >= 34200 /\ east % 86400 < 57600
    BY <1>4
  <2>5. IsRthAt(day, sec) <=> OpenAt(sec)
    BY <1>2, <1>6, <1>7, <2>3, <2>4
  <2> QED BY <2>5 DEF IsRthAt, OpenAt
<1> QED BY <1>8, <1>9

\* The instants a run looks at are seconds of the day.
LEMMA GateShows == CalendarInv => OpenWhenTraded
<1> SUFFICES ASSUME CalendarInv, NEW sec \in Instants PROVE IsRthAt(day, sec) = OpenAt(sec)
  BY DEF OpenWhenTraded
<1>1. sec \in Nat /\ sec < 86400
  BY DEF Instants
<1> QED BY <1>1, GateAtSecond

\* The conversions between dates and day numbers agree with the calendar, and so does the
\* n-th Sunday of a month, on every day however far the walk goes.
THEOREM CalendarAgreesHolds == Walk => []CalendarAgrees
<1>1. FirstDay => CalendarInv
  BY CalendarInit
<1>2. CalendarInv /\ [Tomorrow]_wall => CalendarInv'
  BY CalendarStep
<1>3. CalendarInv => CalendarAgrees
  BY CalendarShows
<1> QED BY <1>1, <1>2, <1>3, PTL DEF Walk

\* The gate is open exactly when New York trades: taking the offset from the UTC date
\* never matters to the window, on no day of any year.
THEOREM GateAgreesHolds == SpecGuards => []GateAgrees
<1>1. InitGuards => CalendarInv
  BY CalendarInit DEF InitGuards
<1>2. CalendarInv /\ [NextGuards]_<<guard, vars, wall>> => CalendarInv'
  <2>1. [NextGuards]_<<guard, vars, wall>> => [Tomorrow]_wall
    BY DEF NextGuards
  <2> QED BY <2>1, CalendarStep
<1>3. CalendarInv => GateAgrees
  BY GateShows DEF GateAgrees
<1> QED BY <1>1, <1>2, <1>3, PTL DEF SpecGuards

\* So it is at every second of the day, and not only at those the runs look at.
EverySecond == \A sec \in Nat : sec < 86400 => IsRthAt(day, sec) = OpenAt(sec)

THEOREM EverySecondAgrees == Walk => []EverySecond
<1>1. FirstDay => CalendarInv
  BY CalendarInit
<1>2. CalendarInv /\ [Tomorrow]_wall => CalendarInv'
  BY CalendarStep
<1>3. CalendarInv => EverySecond
  BY GateAtSecond DEF EverySecond
<1> QED BY <1>1, <1>2, <1>3, PTL DEF Walk
=============================================================================
