------------------------------ MODULE Calendar ------------------------------
(***************************************************************************)
(* The Gregorian calendar and mktime(3), which is not in the repository:   *)
(* what time_calculate relies on.  Months are counted from 0, as tm_mon    *)
(* is, and years as they are written; the units below a day are            *)
(* parameters, so that a model may have shorter days.  The machines' time  *)
(* zone is taken to have no daylight saving time, so the field tm_isdst    *)
(* that time_calculate leaves unset does not matter.                       *)
(***************************************************************************)
EXTENDS Integers

CONSTANTS MsecPerSec, SecPerMin, MinPerHour, HoursPerDay

ASSUME UnitAssumption ==
  /\ \A n \in {MsecPerSec, SecPerMin, MinPerHour} : n \in Nat \ {0}
  /\ HoursPerDay \in {2 * k : k \in 1 .. 12}

SecPerDay == SecPerMin * MinPerHour * HoursPerDay

Leap(y) == y % 4 = 0 /\ (y % 100 # 0 \/ y % 400 = 0)

MonthLength(y, mon) ==
  IF mon = 1 THEN (IF Leap(y) THEN 29 ELSE 28)
  ELSE IF mon \in {3, 5, 8, 10} THEN 30 ELSE 31

(* Days from the first of January of year 1 to the first of a month; the   *)
(* month may lie outside 0 .. 11.                                          *)
DaysBefore(year, month) ==
  LET y   == year + month \div 12
      mon == month % 12
      cum == <<0, 31, 59, 90, 120, 151, 181, 212, 243, 273, 304, 334>>
  IN  365 * (y - 1) + (y - 1) \div 4 - (y - 1) \div 100 + (y - 1) \div 400
        + cum[mon + 1] + (IF mon > 1 /\ Leap(y) THEN 1 ELSE 0)

(* The date that many days after the first of January of year 1.           *)
Civil(days) ==
  LET year == CHOOSE y \in days \div 366 .. days \div 365 + 1 :
                DaysBefore(y, 0) <= days /\ days < DaysBefore(y + 1, 0)
      mon  == CHOOSE m \in 0 .. 11 :
                DaysBefore(year, m) <= days /\ days < DaysBefore(year, m + 1)
  IN  [year |-> year, mon |-> mon, mday |-> days - DaysBefore(year, mon) + 1]

(* The time of day in seconds as hour, minute and second.                  *)
Clock(secs) ==
  [hour |-> secs \div (MinPerHour * SecPerMin),
   min  |-> (secs \div SecPerMin) % MinPerHour,
   sec  |-> secs % SecPerMin]

(* mktime: fields may be out of range, and are brought into range by       *)
(* carrying into the next larger unit.  tm_year counts from 1900.          *)
mktime(tm_year, tm_mon, tm_mday, tm_hour, tm_min, tm_sec) ==
  LET secs == (tm_hour * MinPerHour + tm_min) * SecPerMin + tm_sec
      date == Civil(DaysBefore(tm_year + 1900, tm_mon) + tm_mday - 1
                      + secs \div SecPerDay)
  IN  [date |-> [date EXCEPT !.year = @ - 1900], clock |-> Clock(secs % SecPerDay)]
=============================================================================
