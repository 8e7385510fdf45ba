----------------------------- MODULE MarketHours -----------------------------
(***************************************************************************)
(* The regular-trading-hours gate of the client                            *)
(* (pax-client/src/market_hours.rs): civil dates from day numbers, the US  *)
(* daylight-saving rule, and the window of a UTC instant - against a       *)
(* calendar that is walked one day at a time.                              *)
(***************************************************************************)
EXTENDS Integers

CONSTANT LastDay  \* how far the walk from 1970-01-01 goes, in days

ASSUME HoursAssumption == LastDay \in Nat

-----------------------------------------------------------------------------
(* The code: proleptic Gregorian dates by era arithmetic *)

\* Mutant: years divisible by a hundred are leap years.
CivilFromDaysJulian(z) ==
  LET era == (z + 719468) \div 146097
      doe == (z + 719468) % 146097
      yoe == (doe - doe \div 1460 - doe \div 146096) \div 365
      doy == doe - (365 * yoe + yoe \div 4)
      mp  == (5 * doy + 2) \div 153
      m   == IF mp < 10 THEN mp + 3 ELSE mp - 9
  IN  <<yoe + 400 * era + (IF m <= 2 THEN 1 ELSE 0), m, doy - (153 * mp + 2) \div 5 + 1>>

CivilFromDays(z) ==
  LET era == (z + 719468) \div 146097
      doe == (z + 719468) % 146097
      yoe == (doe - doe \div 1460 + doe \div 36524 - doe \div 146096) \div 365
      doy == doe - (365 * yoe + yoe \div 4 - yoe \div 100)
      mp  == (5 * doy + 2) \div 153
      m   == IF mp < 10 THEN mp + 3 ELSE mp - 9
  IN  <<yoe + 400 * era + (IF m <= 2 THEN 1 ELSE 0), m, doy - (153 * mp + 2) \div 5 + 1>>

DaysFromCivil(y, m, d) ==
  LET year == IF m <= 2 THEN y - 1 ELSE y
      yoe  == year % 400
      mp   == IF m > 2 THEN m - 3 ELSE m + 9
      doy  == (153 * mp + 2) \div 5 + d - 1
  IN  146097 * (year \div 400) + 365 * yoe + yoe \div 4 - yoe \div 100 + doy - 719468

\* 0 is Sunday; day 0 was a Thursday.
WeekdayOf(z) == ((z % 7) + 4) % 7

NthSunday(y, m, n) == 1 + ((7 - WeekdayOf(DaysFromCivil(y, m, 1))) % 7) + (n - 1) * 7

\* Mutant: daylight-saving time begins on the first Sunday of March.
IsUsDstEarly(y, m, d) ==
  \/ m \in 4..10
  \/ m = 3 /\ d >= NthSunday(y, 3, 1)
  \/ m = 11 /\ d < NthSunday(y, 11, 1)

IsUsDst(y, m, d) ==
  \/ m \in 4..10
  \/ m = 3 /\ d >= NthSunday(y, 3, 2)
  \/ m = 11 /\ d < NthSunday(y, 11, 1)

\* An instant is the day it falls on in UTC and the second of that day, counted
\* apart to stay within TLC's integers.
IsRthAt(z, sec) ==
  LET civil  == CivilFromDays(z)
      offset == IF IsUsDst(civil[1], civil[2], civil[3]) THEN -4 ELSE -5
      east   == sec + 3600 * offset
  IN  /\ WeekdayOf(z + east \div 86400) \notin {0, 6}
      /\ (east % 86400) \div 60 \in 570..959

-----------------------------------------------------------------------------
(* The reference: a calendar on the wall *)

VARIABLES
  day,      \* days since 1970-01-01
  date,     \* its date
  weekday,  \* and its weekday, 0 for Sunday
  sundays,  \* Sundays of this month up to today
  dst       \* New York is on daylight-saving time when this day ends (in UTC)

wall == <<day, date, weekday, sundays, dst>>

IsLeap(y) == y % 4 = 0 /\ (y % 100 # 0 \/ y % 400 = 0)

MonthLength(y, m) ==
  IF m \in {4, 6, 9, 11} THEN 30
  ELSE IF m # 2 THEN 31 ELSE IF IsLeap(y) THEN 29 ELSE 28

Following(t) ==
  IF t[3] < MonthLength(t[1], t[2]) THEN <<t[1], t[2], t[3] + 1>>
  ELSE IF t[2] < 12 THEN <<t[1], t[2] + 1, 1>> ELSE <<t[1] + 1, 1, 1>>

FirstDay == day = 0 /\ date = <<1970, 1, 1>> /\ weekday = 4 /\ sundays = 0 /\ dst = FALSE

\* The clocks go forward on the second Sunday of March and back on the first of
\* November.
Tomorrow ==
  /\ day < LastDay
  /\ day' = day + 1
  /\ date' = Following(date)
  /\ weekday' = (weekday + 1) % 7
  /\ sundays' = (IF date'[3] = 1 THEN 0 ELSE sundays) + (IF weekday' = 0 THEN 1 ELSE 0)
  /\ dst' = CASE weekday' = 0 /\ date'[2] = 3 /\ sundays' = 2 -> TRUE
              [] weekday' = 0 /\ date'[2] = 11 /\ sundays' = 1 -> FALSE
              [] OTHER -> dst

Walk == FirstDay /\ [][Tomorrow]_wall

\* At 2:00 local time: 7:00 UTC in spring, 6:00 UTC in autumn.
DstAt(sec) ==
  IF weekday = 0 /\ date[2] = 3 /\ sundays = 2 THEN sec >= 7 * 3600
  ELSE IF weekday = 0 /\ date[2] = 11 /\ sundays = 1 THEN sec < 6 * 3600
  ELSE dst

\* Monday to Friday, 9:30 to 16:00 in New York.
OpenAt(sec) ==
  LET local == sec - 3600 * (IF DstAt(sec) THEN 4 ELSE 5)
  IN  /\ (IF local < 0 THEN (weekday + 6) % 7 ELSE weekday) \in 1..5
      /\ local % 86400 >= 34200 /\ local % 86400 < 57600

-----------------------------------------------------------------------------
(* Properties *)

\* The two conversions agree with the calendar, and so are inverse to each other,
\* over leap years and the century that is none; and the n-th Sunday of a month is
\* the day on which the calendar counts it.
CalendarAgrees ==
  /\ CivilFromDays(day) = date /\ DaysFromCivil(date[1], date[2], date[3]) = day
  /\ weekday = 0 => NthSunday(date[1], date[2], sundays) = date[3]

\* The instants around which the answer may change, on the hour, the half hour, or a
\* second before.
Instants == {1800 * n : n \in 0..47} \cup {1800 * n - 1 : n \in 1..48}

\* market_hours.rs takes the offset from the UTC date because "the 1-hour ambiguity
\* at the 02:00 DST switch is irrelevant to the 09:30-16:00 window": at every
\* instant of every day the gate is open exactly when New York trades.
OpenWhenTraded == \A sec \in Instants : IsRthAt(day, sec) = OpenAt(sec)
=============================================================================
