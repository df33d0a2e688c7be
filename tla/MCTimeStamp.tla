---------------------------- MODULE MCTimeStamp ----------------------------
(* Days of 32 microseconds, and runs started near the end of a month.      *)
EXTENDS TimeStamp

(* Year, month counted from 1, day.                                        *)
On(y, m, d) == [year |-> y, mon |-> m - 1, mday |-> d]

(* Dates of the years the script can write, in each kind of month, also in *)
(* a leap year and in the leap years that the year 1900 later is not, and  *)
(* across the end of a year.                                               *)
MCWrittenDates ==
  {On(2018, 1, 27), On(2018, 2, 27), On(2020, 1, 28), On(2020, 2, 28),
   On(2018, 4, 29), On(2018, 7, 30), On(2018, 8, 29), On(2018, 11, 29),
   On(2018, 12, 30)}

(* And of those it cannot: the year is 200, 204 or 209 in the file.        *)
MCGpsDates == MCWrittenDates \cup {On(2000, 1, 27), On(2004, 2, 28), On(2009, 12, 30)}
MCGpsUsecs == {0, 15, 31}
=============================================================================
