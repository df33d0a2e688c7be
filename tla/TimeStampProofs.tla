-------------------------- MODULE TimeStampProofs --------------------------
(***************************************************************************)
(* Theorems about the time stamps, for units of time of any length, any    *)
(* spacing of packets, any dates and every counter of a run that is short  *)
(* enough for its seconds to be counted in an int.                         *)
(***************************************************************************)
EXTENDS TimeStamp, ModLemmas

(* The assumptions the proofs use, in one place.                           *)
LEMMA StampConstants ==
  /\ UsecPerMsec \in Nat \ {0} /\ MsecPerSec \in Nat \ {0} /\ SecPerMin \in Nat \ {0}
  /\ MinPerHour \in Nat \ {0} /\ HoursPerDay \in Nat \ {0}
  /\ NsecPerUsec \in Nat \ {0} /\ NsecPerSample \in Nat \ {0} /\ SamplesPerFft \in Nat \ {0}
  /\ U64 \in Nat \ {0} /\ T_RSL \in Nat /\ MaxMcnt \in Nat
  /\ GpsUsecs \subseteq 0 .. SecPerDay * MsecPerSec * UsecPerMsec - 1
<1>1. \A n \in {UsecPerMsec, NsecPerUsec, NsecPerSample, SamplesPerFft, U64} : n \in Nat \ {0}
  BY StampAssumption
<1>2. \A n \in {MsecPerSec, SecPerMin, MinPerHour} : n \in Nat \ {0}
  BY UnitAssumption
<1>3. HoursPerDay \in Nat \ {0}
  <2>1. PICK k \in 1 .. 12 : HoursPerDay = 2 * k
    BY UnitAssumption
  <2> QED BY <2>1
<1>4. T_RSL \in Nat /\ MaxMcnt \in Nat
  BY StampAssumption
<1>5. GpsUsecs \subseteq 0 .. SecPerDay * MsecPerSec * UsecPerMsec - 1
  BY StampAssumption
<1>6. UsecPerMsec \in Nat \ {0} /\ NsecPerUsec \in Nat \ {0} /\ NsecPerSample \in Nat \ {0}
  BY ONLY <1>1
<1>7. SamplesPerFft \in Nat \ {0} /\ U64 \in Nat \ {0}
  BY ONLY <1>1
<1>8. MsecPerSec \in Nat \ {0} /\ SecPerMin \in Nat \ {0} /\ MinPerHour \in Nat \ {0}
  BY ONLY <1>2
<1> QED BY <1>3, <1>4, <1>5, <1>6, <1>7, <1>8

LEMMA HalfOfInts ==
  /\ I32 \in Nat \ {0} /\ I32 \div 2 \in Nat /\ I32 = 2 * (I32 \div 2)
<1>1. PICK k \in 1 .. I32 : I32 = 2 * k
  BY StampAssumption
<1>2. I32 \div 2 = k
  BY <1>1
<1> QED BY <1>1, <1>2

LEMMA Units ==
  /\ UsecPerSec \in Nat \ {0} /\ SecPerDay \in Nat \ {0} /\ UsecPerDay \in Nat \ {0}
  /\ UsecPerSec = MsecPerSec * UsecPerMsec
  /\ UsecPerDay = (SecPerDay * MsecPerSec) * UsecPerMsec
  /\ SecPerDay * MsecPerSec \in Nat \ {0}
  /\ GpsUsecs \subseteq 0 .. UsecPerDay - 1
<1>1. UsecPerSec \in Nat \ {0} /\ UsecPerSec = MsecPerSec * UsecPerMsec
  BY StampConstants, ProductPositive DEF UsecPerSec
<1>2. SecPerMin * MinPerHour \in Nat \ {0}
  BY StampConstants, ProductPositive
<1>3. SecPerDay \in Nat \ {0}
  BY <1>2, StampConstants, ProductPositive DEF SecPerDay
<1>4. SecPerDay * MsecPerSec \in Nat \ {0}
  BY <1>3, StampConstants, ProductPositive
<1>5. UsecPerDay \in Nat \ {0} /\ UsecPerDay = SecPerDay * UsecPerSec
  BY <1>1, <1>3, ProductPositive DEF UsecPerDay
<1>6. SecPerDay * (MsecPerSec * UsecPerMsec) = (SecPerDay * MsecPerSec) * UsecPerMsec
  BY <1>3, StampConstants
<1>7. UsecPerDay = (SecPerDay * MsecPerSec) * UsecPerMsec
  BY <1>1, <1>5, <1>6
<1> QED BY <1>1, <1>3, <1>4, <1>5, <1>7, StampConstants

(* The spacing of packets is whole nanoseconds, and time_interval whole    *)
(* microseconds of it.                                                     *)
LEMMA Intervals ==
  /\ Spacing \in Nat /\ time_interval \in Nat
  /\ Spacing % NsecPerUsec \in Nat
  /\ Spacing = time_interval * NsecPerUsec + (Spacing % NsecPerUsec)
<1>1. T_RSL * NsecPerUsec \in Nat
  BY StampConstants, ProductNat
<1>2. (T_RSL * NsecPerUsec) \div NsecPerSample \in Nat
  BY <1>1, StampConstants, DivNat
<1>3. ((T_RSL * NsecPerUsec) \div NsecPerSample) \div SamplesPerFft \in Nat
  BY <1>2, StampConstants, DivNat
<1>4. (((T_RSL * NsecPerUsec) \div NsecPerSample) \div SamplesPerFft) * SamplesPerFft \in Nat
  BY <1>3, StampConstants, ProductNat
<1>5. Spacing \in Nat
  BY <1>4, StampConstants, ProductNat DEF Spacing
<1>6. time_interval \in Nat
  BY <1>5, StampConstants, DivNat DEF time_interval
<1>7. Spacing = time_interval * NsecPerUsec + (Spacing % NsecPerUsec) /\ Spacing % NsecPerUsec \in Nat
  BY <1>5, StampConstants, DivMod DEF time_interval
<1> QED BY <1>5, <1>6, <1>7

-----------------------------------------------------------------------------
(* The calendar.                                                           *)

(* Days before a year, and the days of it before a month.                  *)
NewYear(y) == 365 * (y - 1) + (y - 1) \div 4 - (y - 1) \div 100 + (y - 1) \div 400

LeapDay(y) == IF Leap(y) THEN 1 ELSE 0

Months == 0 .. 11

DaysInto(y, m) ==
  IF m = 0 THEN 0 ELSE IF m = 1 THEN 31 ELSE
  LeapDay(y) + (IF m = 2 THEN 59 ELSE IF m = 3 THEN 90 ELSE IF m = 4 THEN 120
                ELSE IF m = 5 THEN 151 ELSE IF m = 6 THEN 181 ELSE IF m = 7 THEN 212
                ELSE IF m = 8 THEN 243 ELSE IF m = 9 THEN 273 ELSE IF m = 10 THEN 304
                ELSE IF m = 11 THEN 334 ELSE 365)

(* The types of what a year is made of.                                    *)
LEMMA YearTypes ==
  ASSUME NEW y \in Int
  PROVE  NewYear(y) \in Int /\ LeapDay(y) \in {0, 1}
BY DEF NewYear, LeapDay

(* Days before a month are those before its year and those of its year     *)
(* before it.                                                              *)
LEMMA DaysBeforeIs ==
  ASSUME NEW y \in Int, NEW m \in Months
  PROVE  DaysBefore(y, m) = NewYear(y) + DaysInto(y, m)
<1>1. m \div 12 = 0 /\ m % 12 = m /\ y + 0 = y
  BY DEF Months
<1> DEFINE cum == <<0, 31, 59, 90, 120, 151, 181, 212, 243, 273, 304, 334>>
<1>2. DaysBefore(y, m) = NewYear(y) + cum[m + 1] + (IF m > 1 /\ Leap(y) THEN 1 ELSE 0)
  BY <1>1 DEF DaysBefore, NewYear
<1>3. cum[m + 1] + (IF m > 1 /\ Leap(y) THEN 1 ELSE 0) = DaysInto(y, m) /\ cum[m + 1] \in Int
  BY DEF DaysInto, LeapDay, Months
<1> QED BY <1>2, <1>3, YearTypes

(* The length of a year.                                                   *)
LEMMA NextYear ==
  ASSUME NEW y \in Int
  PROVE  NewYear(y + 1) = NewYear(y) + 365 + LeapDay(y)
BY DEF NewYear, LeapDay, Leap

(* A later year starts no earlier than an earlier one ends.                *)
LEMMA LaterYear ==
  ASSUME NEW y \in Int, NEW z \in Int, y < z
  PROVE  NewYear(y + 1) <= NewYear(z)
BY DEF NewYear

(* The length of a month.                                                  *)
LEMMA MonthSum ==
  ASSUME NEW y \in Int, NEW m \in Months
  PROVE  DaysInto(y, m + 1) = DaysInto(y, m) + MonthLength(y, m) /\ DaysInto(y, m) \in 0 .. 365
<1>1. \/ m = 0 \/ m = 1 \/ m = 2 \/ m = 3 \/ m = 4 \/ m = 5 \/ m = 6 \/ m = 7 \/ m = 8
      \/ m = 9 \/ m = 10 \/ m = 11
  BY DEF Months
<1> QED BY ONLY <1>1, SMT, YearTypes DEF DaysInto, MonthLength, LeapDay

(* A month starts where the one before it ends, also over the end of a     *)
(* year.                                                                   *)
LEMMA NextMonth ==
  ASSUME NEW y \in Int, NEW m \in Months
  PROVE  DaysBefore(y, m + 1) = DaysBefore(y, m) + MonthLength(y, m)
<1>1. CASE m # 11
  <2>1. m + 1 \in Months
    BY <1>1 DEF Months
  <2>2. DaysBefore(y, m + 1) = NewYear(y) + DaysInto(y, m + 1)
    BY ONLY <2>1, DaysBeforeIs, y \in Int
  <2>3. DaysBefore(y, m) = NewYear(y) + DaysInto(y, m)
    BY DaysBeforeIs
  <2>4. MonthLength(y, m) \in Int
    BY DEF MonthLength
  <2> QED BY ONLY <2>2, <2>3, <2>4, MonthSum, YearTypes, y \in Int, m \in Months
<1>2. CASE m = 11
  <2>1. DaysBefore(y, 12) = DaysBefore(y + 1, 0)
    <3>1. 12 \div 12 = 1 /\ 12 % 12 = 0
      BY SMT
    <3>2. 0 \div 12 = 0 /\ 0 % 12 = 0 /\ y + 1 + 0 = y + 1
      BY SMT
    <3> QED BY ONLY <3>1, <3>2, SMT DEF DaysBefore
  <2>2. DaysBefore(y + 1, 0) = NewYear(y + 1) + DaysInto(y + 1, 0)
    BY DaysBeforeIs DEF Months
  <2>3. NewYear(y + 1) = NewYear(y) + 365 + LeapDay(y)
    BY NextYear
  <2>4. DaysBefore(y, 11) = NewYear(y) + DaysInto(y, 11)
    BY <1>2, DaysBeforeIs
  <2> QED BY ONLY <1>2, <2>1, <2>2, <2>3, <2>4, YearTypes, y \in Int, SMT DEF DaysInto, MonthLength
<1> QED BY <1>1, <1>2

(* The month before the first of a year is the last of the year before.    *)
LEMMA MonthBack ==
  ASSUME NEW z \in Int
  PROVE  DaysBefore(z + 1, -1) = DaysBefore(z, 11)
<1>1. (-1) \div 12 = -1 /\ (-1) % 12 = 11
  <2>1. PICK k \in Int : k = -1
    BY SMT
  <2>2. (k * 12 + 11) % 12 = 11 /\ (k * 12 + 11) \div 12 = k
    BY ModOfMultiple, SMT
  <2>3. k * 12 + 11 = k
    BY ONLY <2>1, SMT
  <2> QED BY ONLY <2>1, <2>2, <2>3, SMT
<1>2. 11 \div 12 = 0 /\ 11 % 12 = 11 /\ z + 0 = z /\ (z + 1) + -1 = z
  BY SMT
<1> QED BY ONLY <1>1, <1>2, SMT DEF DaysBefore

(* Turning to the next month, also at the end of a year.                   *)
LEMMA Turn ==
  ASSUME NEW y \in Int, NEW m \in Months,
         NEW z, z = y + (m + 1) \div 12, NEW k, k = (m + 1) % 12
  PROVE  /\ z \in Int /\ k \in Months
         /\ (z + 1900) = (y + 1900) + (m + 1) \div 12
         /\ DaysBefore(z, k) = DaysBefore(y, m) + MonthLength(y, m)
         /\ DaysBefore(z, k - 1) = DaysBefore(y, m)
<1>1. CASE m # 11
  <2>1. (m + 1) \div 12 = 0 /\ k = m + 1 /\ z = y
    BY <1>1, SMT DEF Months
  <2>2. DaysBefore(y, m + 1) = DaysBefore(y, m) + MonthLength(y, m)
    BY NextMonth
  <2>3. k \in Months /\ k - 1 = m
    BY <1>1, <2>1, SMT DEF Months
  <2> QED BY <2>1, <2>2, <2>3, SMT
<1>2. CASE m = 11
  <2>1. (m + 1) \div 12 = 1 /\ k = 0 /\ z = y + 1
    BY <1>2, SMT
  <2>2. DaysBefore(y + 1, 0) = DaysBefore(y, m) + MonthLength(y, m)
    <3>1. DaysBefore(y, 12) = DaysBefore(y, m) + MonthLength(y, m)
      BY <1>2, NextMonth, SMT
    <3>2. DaysBefore(y, 12) = DaysBefore(y + 1, 0)
      <4>1. 12 \div 12 = 1 /\ 12 % 12 = 0
        BY SMT
      <4>2. 0 \div 12 = 0 /\ 0 % 12 = 0 /\ y + 1 + 0 = y + 1
        BY SMT
      <4> QED BY ONLY <4>1, <4>2, SMT DEF DaysBefore
    <3> QED BY ONLY <3>1, <3>2
  <2>3. DaysBefore(y + 1, -1) = DaysBefore(y, 11)
    BY MonthBack, SMT
  <2>4. 0 - 1 = -1 /\ 0 \in Months /\ y + 1 \in Int /\ (y + 1) + 1900 = (y + 1900) + 1
    BY SMT DEF Months
  <2> QED BY ONLY <1>2, <2>1, <2>2, <2>3, <2>4
<1> QED BY <1>1, <1>2

(* UTCtoJD counts days as the calendar does, from the month before the one *)
(* it is given, which may be month 0.                                      *)
LEMMA JulianDay ==
  ASSUME NEW y \in Int, NEW m \in Months, NEW d \in Int
  PROVE  UTCtoJD(y, m, d) = DaysBefore(y, m - 1) + d + 1721425
<1>1. CASE m = 0
  <2>1. DaysBefore(y, -1) = DaysBefore(y - 1, 11)
    <3>1. y - 1 \in Int /\ y - 1 + 1 = y
      BY SMT
    <3>2. DaysBefore(y - 1 + 1, -1) = DaysBefore(y - 1, 11)
      BY <3>1, MonthBack
    <3> QED BY ONLY <3>1, <3>2
  <2>2. DaysBefore(y - 1, 11) = NewYear(y - 1) + DaysInto(y - 1, 11)
    BY DaysBeforeIs DEF Months
  <2>3. UTCtoJD(y, 0, d) = NewYear(y - 1) + DaysInto(y - 1, 11) + d + 1721425
    BY SMT DEF UTCtoJD, NewYear, DaysInto, LeapDay, Leap
  <2> QED BY ONLY <1>1, <2>1, <2>2, <2>3, SMT
<1>2. CASE m # 0
  <2>1. m - 1 \in Months
    BY <1>2 DEF Months
  <2>2. DaysBefore(y, m - 1) = NewYear(y) + DaysInto(y, m - 1)
    BY ONLY <2>1, DaysBeforeIs, y \in Int
  <2>3. UTCtoJD(y, m, d) = NewYear(y) + DaysInto(y, m - 1) + d + 1721425
    <3>1. CASE m \in {1, 2}
      BY <3>1, SMT DEF UTCtoJD, NewYear, DaysInto, LeapDay, Leap
    <3>2. CASE m \in {3, 4, 5, 6, 7, 8, 9, 10, 11}
      <4>1. (14 - m) \div 12 = 0
        BY <3>2, SMT
      <4>2. DaysInto(y, m - 1) = LeapDay(y) + 59 + ((153 * (m - 3) + 2) \div 5)
        BY <3>2, YearTypes, SMT DEF DaysInto
      <4>3. PICK c \in Int : c = (153 * (m - 3) + 2) \div 5
        BY <3>2, SMT
      <4>4. /\ (y + 4800) \div 4 = (y \div 4) + 1200
            /\ (y + 4800) \div 100 = (y \div 100) + 48
            /\ (y + 4800) \div 400 = (y \div 400) + 12
        <5>1. (1200 * 4 + y) \div 4 = 1200 + (y \div 4)
          BY DivAdd, SMT
        <5>2. (48 * 100 + y) \div 100 = 48 + (y \div 100)
          BY DivAdd, SMT
        <5>3. (12 * 400 + y) \div 400 = 12 + (y \div 400)
          BY DivAdd, SMT
        <5> QED BY ONLY <5>1, <5>2, <5>3, SMT, y \in Int
      <4>5. NewYear(y + 1) = NewYear(y) + 365 + LeapDay(y)
        BY NextYear
      <4>6. NewYear(y + 1) = 365 * y + (y \div 4) - (y \div 100) + (y \div 400)
        BY SMT DEF NewYear
      <4>7. UTCtoJD(y, m, d) = d + c + 365 * (y + 4800) + ((y + 4800) \div 4)
                                 - ((y + 4800) \div 100) + ((y + 4800) \div 400) - 32045
        <5>1. y + 4800 - 0 = y + 4800 /\ m + 12 * 0 - 3 = m - 3
          BY <3>2, SMT
        <5> DEFINE u == UTCtoJD(y, m, d)
                   x == y + 4800
        <5>2. u = d + (153 * (m - 3) + 2) \div 5 + 365 * x + x \div 4 - x \div 100 + x \div 400 - 32045
          BY ONLY <4>1, <5>1, SMT DEF UTCtoJD
        <5> QED BY ONLY <5>2, <4>3, SMT
      <4> QED BY ONLY <4>2, <4>3, <4>4, <4>5, <4>6, <4>7, YearTypes, SMT, y \in Int, d \in Int
    <3> QED BY <1>2, <3>1, <3>2 DEF Months
  <2> QED BY ONLY <2>2, <2>3, SMT
<1> QED BY <1>1, <1>2

-----------------------------------------------------------------------------
(* A year of the 400-year cycle: the digits of a day in centuries, groups  *)
(* of four years and years.                                                *)
IsYear(x, n, c, q, e) ==
  /\ n \in Int /\ c \in 0 .. 3 /\ q \in 0 .. 24 /\ e \in 0 .. 3
  /\ x = 400 * n + 100 * c + 4 * q + e

(* What the calendar asks of a year, in the digits of the cycle.           *)
LEMMA YearDigits ==
  ASSUME NEW x, NEW n, NEW c, NEW q, NEW e, IsYear(x, n, c, q, e)
  PROVE  /\ x \in Int
         /\ x \div 4 = 100 * n + 25 * c + q /\ x % 4 = e
         /\ x \div 100 = 4 * n + c /\ x % 100 = 4 * q + e
         /\ x \div 400 = n /\ x % 400 = 100 * c + 4 * q + e
<1> USE DEF IsYear
<1>1. x \in Int
  BY SMT
<1>2. x \div 4 = 100 * n + 25 * c + q /\ x % 4 = e
  BY SMT
<1>3. x \div 100 = 4 * n + c /\ x % 100 = 4 * q + e
  BY SMT
<1>4. x \div 400 = n /\ x % 400 = 100 * c + 4 * q + e
  BY SMT
<1> QED BY <1>1, <1>2, <1>3, <1>4, SMT

(* The first day of a year, in the digits of the cycle.                    *)
LEMMA YearStart ==
  ASSUME NEW x, NEW n, NEW c, NEW q, NEW e, IsYear(x, n, c, q, e)
  PROVE  /\ NewYear(x + 1) = 146097 * n + 36524 * c + 1461 * q + 365 * e
         /\ LeapDay(x + 1) = IF e = 3 /\ (q # 24 \/ c = 3) THEN 1 ELSE 0
<1>1. x + 1 - 1 = x /\ x \in Int
  BY YearDigits, SMT
<1>2. NewYear(x + 1) = 365 * x + (x \div 4) - (x \div 100) + (x \div 400)
  BY ONLY <1>1, SMT DEF NewYear
<1>3. NewYear(x + 1) = 146097 * n + 36524 * c + 1461 * q + 365 * e
  BY ONLY <1>1, <1>2, YearDigits, SMT, IsYear(x, n, c, q, e) DEF IsYear
<1>4. Leap(x + 1) <=> e = 3 /\ (q # 24 \/ c = 3)
  BY ONLY <1>1, YearDigits, SMT, IsYear(x, n, c, q, e) DEF IsYear, Leap
<1> QED BY ONLY <1>3, <1>4, SMT DEF LeapDay

(* Every day lies in a year.                                               *)
LEMMA YearOf ==
  ASSUME NEW days \in Nat
  PROVE  \E y \in Int : NewYear(y) <= days /\ days < NewYear(y + 1)
<1>1. PICK n \in Nat, r \in Nat : days = n * 146097 + r /\ r < 146097
  <2>1. PICK m \in Nat \ {0} : m = 146097
    BY SMT
  <2>2. PICK q \in Nat, s \in Nat : days = q * m + s /\ s < m
    BY ONLY DigitsBelow, m \in Nat \ {0}, days \in Nat
  <2>3. days = q * 146097 + s /\ s < 146097
    BY ONLY <2>1, <2>2, q \in Nat, s \in Nat, SMT
  <2> QED BY ONLY <2>3, q \in Nat, s \in Nat, SMT
<1>2. PICK c \in Nat, r2 \in Nat :
        r = c * 36524 + r2 /\ c <= 3 /\ r2 <= 36524 /\ (c < 3 => r2 < 36524)
  <2> DEFINE k == IF r < 36524 THEN 0 ELSE IF r < 73048 THEN 1 ELSE IF r < 109572 THEN 2 ELSE 3
             s == r - k * 36524
  <2>1. k \in Nat /\ s \in Nat /\ r = k * 36524 + s /\ k <= 3 /\ s <= 36524 /\ (k < 3 => s < 36524)
    BY <1>1, SMT
  <2> HIDE DEF k, s
  <2> QED BY ONLY <2>1, SMT
<1>3. PICK q \in Nat, r3 \in Nat : r2 = q * 1461 + r3 /\ r3 < 1461
  <2>1. PICK m \in Nat \ {0} : m = 1461
    BY SMT
  <2>2. PICK q \in Nat, s \in Nat : r2 = q * m + s /\ s < m
    BY ONLY DigitsBelow, m \in Nat \ {0}, r2 \in Nat
  <2>3. r2 = q * 1461 + s /\ s < 1461
    BY ONLY <2>1, <2>2, q \in Nat, s \in Nat, SMT
  <2> QED BY ONLY <2>3, q \in Nat, s \in Nat, SMT
<1>4. q <= 24 /\ (q = 24 /\ c < 3 => r3 < 1460)
  BY <1>2, <1>3, SMT
<1>5. PICK e \in Nat, r4 \in Nat :
        r3 = e * 365 + r4 /\ e <= 3 /\ r4 <= 365 /\ (e < 3 => r4 < 365)
  <2> DEFINE k == IF r3 < 365 THEN 0 ELSE IF r3 < 730 THEN 1 ELSE IF r3 < 1095 THEN 2 ELSE 3
             s == r3 - k * 365
  <2>1. k \in Nat /\ s \in Nat /\ r3 = k * 365 + s /\ k <= 3 /\ s <= 365 /\ (k < 3 => s < 365)
    BY <1>3, SMT
  <2> HIDE DEF k, s
  <2> QED BY ONLY <2>1, SMT
<1>6. PICK x \in Int : IsYear(x, n, c, q, e)
  BY <1>2, <1>4, <1>5, SMT DEF IsYear
<1>7. NewYear(x + 1) = days - r4
  BY <1>1, <1>2, <1>3, <1>5, <1>6, YearStart, SMT
<1>8. r4 = 365 => LeapDay(x + 1) = 1
  <2>1. r4 = 365 => e = 3 /\ r3 = 1460
    BY <1>3, <1>5, SMT
  <2>2. r4 = 365 => e = 3 /\ (q # 24 \/ c = 3)
    BY <1>2, <1>4, <2>1, SMT
  <2> QED BY <1>6, <2>2, YearStart, SMT
<1>9. NewYear(x + 1 + 1) = NewYear(x + 1) + 365 + LeapDay(x + 1) /\ LeapDay(x + 1) \in {0, 1}
  BY <1>6, NextYear, YearTypes, SMT
<1>10. NewYear(x + 1) <= days /\ days < NewYear(x + 1 + 1)
  BY ONLY <1>5, <1>7, <1>8, <1>9, SMT, days \in Nat
<1> QED BY <1>6, <1>10, SMT

(* The types of what a month is made of.                                   *)
LEMMA MonthTypes ==
  ASSUME NEW y \in Int, NEW m \in Months
  PROVE  /\ MonthLength(y, m) \in 28 .. 31 /\ DaysBefore(y, m) \in Int
         /\ DaysInto(y, m) \in Int /\ DaysInto(y, m + 1) \in Int
<1>1. MonthLength(y, m) \in 28 .. 31
  BY SMT DEF MonthLength
<1>2. DaysInto(y, m) \in Int /\ DaysInto(y, m + 1) \in Int
  BY <1>1, MonthSum, SMT
<1>3. DaysBefore(y, m) \in Int
  BY <1>2, DaysBeforeIs, YearTypes, SMT
<1> QED BY <1>1, <1>2, <1>3

(* A later month of a year starts no earlier than an earlier one ends.     *)
LEMMA MonthOrder ==
  ASSUME NEW y \in Int, NEW m \in Months, NEW k \in Months, m < k
  PROVE  DaysInto(y, m + 1) <= DaysInto(y, k)
<1>1. LeapDay(y) \in {0, 1}
  BY YearTypes
<1>2. k = 1 \/ k = 2 \/ k = 3 \/ k = 4 \/ k = 5 \/ k = 6 \/ k = 7 \/ k = 8 \/ k = 9 \/ k = 10 \/ k = 11
  BY SMT DEF Months
<1>3. m = 0 \/ m = 1 \/ m = 2 \/ m = 3 \/ m = 4 \/ m = 5 \/ m = 6 \/ m = 7 \/ m = 8 \/ m = 9 \/ m = 10
  BY SMT DEF Months
<1> QED BY ONLY <1>1, <1>2, <1>3, SMT, m < k DEF DaysInto

(* Every day of a year lies in a month.                                    *)
LEMMA MonthOf ==
  ASSUME NEW y \in Int, NEW days \in Int, NewYear(y) <= days, days < NewYear(y + 1)
  PROVE  \E m \in Months : DaysBefore(y, m) <= days /\ days < DaysBefore(y, m + 1)
<1>1. PICK l \in {0, 1} : l = LeapDay(y)
  BY YearTypes
<1>2. PICK s \in Nat : s = days - NewYear(y) /\ s < 365 + l
  BY <1>1, NextYear, YearTypes, SMT
<1>3. \E m \in Months : DaysInto(y, m) <= s /\ s < DaysInto(y, m + 1)
  <2> DEFINE mo == IF s < 31 THEN 0 ELSE IF s < 59 + l THEN 1 ELSE IF s < 90 + l THEN 2
                   ELSE IF s < 120 + l THEN 3 ELSE IF s < 151 + l THEN 4 ELSE IF s < 181 + l THEN 5
                   ELSE IF s < 212 + l THEN 6 ELSE IF s < 243 + l THEN 7 ELSE IF s < 273 + l THEN 8
                   ELSE IF s < 304 + l THEN 9 ELSE IF s < 334 + l THEN 10 ELSE 11
  <2>1. mo \in Months
    BY SMT DEF Months
  <2>2. DaysInto(y, mo) <= s /\ s < DaysInto(y, mo + 1)
    BY <1>1, <1>2, SMT DEF DaysInto
  <2> HIDE DEF mo
  <2> QED BY <2>1, <2>2, SMT
<1>4. PICK m \in Months : DaysInto(y, m) <= s /\ s < DaysInto(y, m + 1)
  BY <1>3
<1>5. DaysBefore(y, m) = NewYear(y) + DaysInto(y, m)
  BY DaysBeforeIs
<1>6. DaysBefore(y, m + 1) = NewYear(y) + DaysInto(y, m + 1)
  BY <1>5, NextMonth, MonthSum, MonthTypes, YearTypes, SMT
<1> QED BY <1>2, <1>4, <1>5, <1>6, MonthTypes, YearTypes, SMT

(* A later month begins after the end of an earlier one.                   *)
Later(y, m, z, k) == y < z \/ (y = z /\ m < k)

(* The same of months of any two years.                                    *)
LEMMA LaterMonth ==
  ASSUME NEW y \in Int, NEW m \in Months, NEW z \in Int, NEW k \in Months, Later(y, m, z, k)
  PROVE  DaysBefore(y, m + 1) <= DaysBefore(z, k)
<1>1. DaysBefore(y, m + 1) = NewYear(y) + DaysInto(y, m + 1)
  BY DaysBeforeIs, NextMonth, MonthSum, MonthTypes, YearTypes, SMT
<1>2. DaysBefore(z, k) = NewYear(z) + DaysInto(z, k)
  BY DaysBeforeIs
<1>3. CASE y = z /\ m < k
  BY <1>1, <1>2, <1>3, MonthOrder, MonthTypes, YearTypes, SMT
<1>4. CASE y < z
  <2>1. NewYear(y) + 365 + LeapDay(y) <= NewYear(z)
    BY <1>4, NextYear, LaterYear, SMT
  <2>2. DaysInto(y, m + 1) <= 365 + LeapDay(y)
    <3>1. m = 11 \/ m < 11
      BY SMT DEF Months
    <3>2. DaysInto(y, 11 + 1) = 365 + LeapDay(y)
      BY YearTypes, SMT DEF DaysInto
    <3>3. m < 11 => DaysInto(y, m + 1) <= DaysInto(y, 11)
      BY MonthOrder, SMT DEF Months
    <3>4. DaysInto(y, 11) <= DaysInto(y, 11 + 1) /\ DaysInto(y, 11) \in Int
      BY YearTypes, SMT DEF DaysInto
    <3> QED BY <3>1, <3>2, <3>3, <3>4, MonthTypes, YearTypes, SMT
  <2>3. 0 <= DaysInto(z, k)
    BY YearTypes, SMT DEF DaysInto
  <2> QED BY <1>1, <1>2, <2>1, <2>2, <2>3, MonthTypes, YearTypes, SMT
<1> QED BY <1>3, <1>4 DEF Later

(* The year and the month that Civil chooses are there to be chosen.       *)
IsDate(c, days) ==
  /\ c = [year |-> c.year, mon |-> c.mon, mday |-> c.mday]
  /\ c.year \in Int /\ c.mon \in Months
  /\ c.mday = days - DaysBefore(c.year, c.mon) + 1
  /\ DaysBefore(c.year, c.mon) <= days /\ days < DaysBefore(c.year, c.mon + 1)

(* The year of a day is among those that Civil chooses from.               *)
LEMMA YearBounds ==
  ASSUME NEW days \in Nat, NEW y \in Int, NewYear(y) <= days, days < NewYear(y + 1)
  PROVE  y \in days \div 366 .. days \div 365 + 1
<1>1. y >= 1
  BY SMT DEF NewYear
<1>2. 365 * (y - 1) <= NewYear(y) /\ NewYear(y + 1) <= 366 * y /\ NewYear(y) \in Int
  BY <1>1, SMT DEF NewYear
<1>3. (y - 1) * 365 <= days /\ days < 366 * y
  BY <1>2, YearTypes, SMT
<1>4. y - 1 <= days \div 365
  BY <1>3, SMT
<1>5. days \div 366 <= y
  BY <1>3, SMT
<1> QED BY <1>4, <1>5, SMT

(* The date of a day is the date the day lies in.                          *)
LEMMA CivilIsDate ==
  ASSUME NEW days \in Nat
  PROVE  IsDate(Civil(days), days)
<1> DEFINE Years == days \div 366 .. days \div 365 + 1
           InYear(y) == DaysBefore(y, 0) <= days /\ days < DaysBefore(y + 1, 0)
           year == CHOOSE y \in Years : InYear(y)
           InMonth(m) == DaysBefore(year, m) <= days /\ days < DaysBefore(year, m + 1)
           mon == CHOOSE m \in 0 .. 11 : InMonth(m)
<1>1. \A y \in Int : DaysBefore(y, 0) = NewYear(y)
  <2> TAKE y \in Int
  <2>1. DaysBefore(y, 0) = NewYear(y) + DaysInto(y, 0) /\ DaysInto(y, 0) = 0
    BY DaysBeforeIs, SMT DEF Months, DaysInto
  <2> QED BY <2>1, YearTypes, SMT
<1>2. Years \subseteq Int
  BY SMT
<1>3. \E y \in Years : InYear(y)
  <2>1. PICK y \in Int : NewYear(y) <= days /\ days < NewYear(y + 1)
    BY YearOf
  <2>2. y \in Years
    BY <2>1, YearBounds
  <2>3. InYear(y)
    <3>1. y + 1 \in Int
      BY SMT
    <3> QED BY <2>1, <1>1, <3>1
  <2> QED BY <2>2, <2>3
<1> HIDE DEF Years, InYear
<1>4. year \in Years /\ InYear(year)
  BY <1>3
<1> HIDE DEF year
<1>5. year \in Int /\ year + 1 \in Int
  <2>1. year \in Int
    BY <1>2, <1>4
  <2> QED BY ONLY <2>1, SMT
<1>6. NewYear(year) <= days /\ days < NewYear(year + 1)
  BY <1>1, <1>4, <1>5 DEF InYear
<1>7. \E m \in 0 .. 11 : InMonth(m)
  BY <1>5, <1>6, MonthOf DEF Months
<1> HIDE DEF InMonth
<1>8. mon \in 0 .. 11 /\ InMonth(mon)
  BY <1>7
<1>9. Civil(days) = [year |-> year, mon |-> mon, mday |-> days - DaysBefore(year, mon) + 1]
  BY DEF Civil, year, mon, InMonth, Years, InYear
<1> HIDE DEF mon
<1> QED BY <1>5, <1>8, <1>9 DEF IsDate, InMonth, Months

(* The types of what a date is made of.                                    *)
LEMMA DateTypes ==
  ASSUME NEW days \in Nat, NEW c, IsDate(c, days)
  PROVE  c.year \in Int /\ c.mon \in Months /\ c.mday \in Int
<1>1. c.year \in Int /\ c.mon \in Months
  BY DEF IsDate
<1>2. DaysBefore(c.year, c.mon) \in Int
  BY <1>1, MonthTypes
<1>3. c.mday = days - DaysBefore(c.year, c.mon) + 1
  BY DEF IsDate
<1> QED BY ONLY <1>1, <1>2, <1>3, SMT, days \in Nat

(* Dates are in the order of their days.                                   *)
LEMMA DatesOrdered ==
  ASSUME NEW a \in Int, NEW b \in Int, a <= b, NEW c, NEW d, IsDate(c, a), IsDate(d, b)
  PROVE  \/ Later(c.year, c.mon, d.year, d.mon)
         \/ c.year = d.year /\ c.mon = d.mon /\ d.mday - c.mday = b - a
<1>1. PICK y \in Int, m \in Months : y = c.year /\ m = c.mon
  BY DEF IsDate
<1>2. PICK z \in Int, k \in Months : z = d.year /\ k = d.mon
  BY DEF IsDate
<1>3. CASE Later(z, k, y, m)
  <2>1. DaysBefore(z, k + 1) <= DaysBefore(y, m) /\ DaysBefore(y, m) \in Int
    BY <1>3, LaterMonth, MonthTypes
  <2>2. b < DaysBefore(z, k + 1) /\ DaysBefore(y, m) <= a
    BY <1>1, <1>2 DEF IsDate
  <2>3. DaysBefore(z, k + 1) \in Int
    BY NextMonth, MonthTypes, SMT
  <2> QED BY <2>1, <2>2, <2>3, SMT
<1>4. CASE y = z /\ m = k
  <2>1. /\ c.mday = a - DaysBefore(y, m) + 1 /\ d.mday = b - DaysBefore(y, m) + 1
        /\ DaysBefore(y, m) \in Int
    BY <1>1, <1>2, <1>4, MonthTypes DEF IsDate
  <2> QED BY <1>1, <1>2, <1>4, <2>1, SMT
<1>5. CASE ~Later(z, k, y, m) /\ ~(y = z /\ m = k)
  <2>1. Later(y, m, z, k)
    BY <1>5, SMT DEF Later, Months
  <2> QED BY <1>1, <1>2, <2>1
<1> QED BY <1>3, <1>4, <1>5

(* A day that lies in a month is a day of that month.                      *)
LEMMA DateIs ==
  ASSUME NEW y \in Int, NEW m \in Months, NEW d \in 1 .. MonthLength(y, m),
         DaysBefore(y, m) + d - 1 \in Nat
  PROVE  Civil(DaysBefore(y, m) + d - 1) = [year |-> y, mon |-> m, mday |-> d]
<1> DEFINE days == DaysBefore(y, m) + d - 1
           date == [year |-> y, mon |-> m, mday |-> d]
           c == Civil(days)
<1>1. IsDate(c, days)
  BY CivilIsDate
<1>2. IsDate(date, days)
  BY NextMonth, MonthTypes, SMT DEF IsDate
<1>3. ~Later(c.year, c.mon, y, m) \/ ~Later(y, m, c.year, c.mon)
  BY <1>1, SMT DEF Later, IsDate, Months
<1>4. c.year = y /\ c.mon = m /\ c.mday = d
  <2>1. /\ Later(c.year, c.mon, y, m) \/ (c.year = y /\ c.mon = m /\ d - c.mday = days - days)
        /\ Later(y, m, c.year, c.mon) \/ (c.year = y /\ c.mon = m /\ c.mday - d = days - days)
    <3> HIDE DEF c
    <3>1. days \in Int /\ days <= days
      BY SMT
    <3> HIDE DEF days
    <3> QED BY <1>1, <1>2, <3>1, DatesOrdered
  <2>2. days \in Int /\ c.mday \in Int /\ d \in Int
    BY <1>1, MonthTypes, SMT DEF IsDate
  <2> HIDE DEF c, days
  <2> QED BY <1>3, <2>1, <2>2, SMT
<1> HIDE DEF c, days
<1> QED BY <1>1, <1>4 DEF IsDate, c, days

-----------------------------------------------------------------------------
(* Hours, minutes and seconds are the seconds they were made of.           *)
SecondOfDay(clock) == (clock.hour * MinPerHour + clock.min) * SecPerMin + clock.sec

LEMMA ClockExact ==
  ASSUME NEW secs \in Nat
  PROVE  /\ SecondOfDay(Clock(secs)) = secs
         /\ Clock(secs).hour \in Nat /\ Clock(secs).min \in 0 .. MinPerHour - 1
         /\ Clock(secs).sec \in 0 .. SecPerMin - 1
<1>0. SecPerMin \in Nat \ {0} /\ MinPerHour \in Nat \ {0}
  BY StampConstants
<1>1. PICK b \in Nat, c \in 0 .. SecPerMin - 1 :
        secs = b * SecPerMin + c /\ b = secs \div SecPerMin /\ c = secs % SecPerMin
  BY <1>0, DigitsOf
<1>2. PICK h \in Nat, m \in 0 .. MinPerHour - 1 :
        b = h * MinPerHour + m /\ h = b \div MinPerHour /\ m = b % MinPerHour
  BY <1>0, DigitsOf
<1>3. secs \div (MinPerHour * SecPerMin) = h
  <2>1. secs \div (MinPerHour * SecPerMin) = (secs \div SecPerMin) \div MinPerHour
    BY ONLY <1>0, DivTwice, secs \in Nat
  <2> QED BY ONLY <2>1, <1>1, <1>2
<1>4. Clock(secs).hour = h /\ Clock(secs).min = m /\ Clock(secs).sec = c
  BY ONLY <1>1, <1>2, <1>3 DEF Clock
<1>5. (h * MinPerHour + m) * SecPerMin + c = secs
  BY ONLY <1>1, <1>2
<1> QED BY ONLY <1>1, <1>2, <1>4, <1>5 DEF SecondOfDay

(* An int holds what is less than half its range.                          *)
LEMMA Int32Id ==
  ASSUME NEW n \in Nat, n < I32 \div 2
  PROVE  Int32(n) = n
<1>1. PICK h \in Nat : h = I32 \div 2
  BY HalfOfInts
<1>2. n + h \in 0 .. I32 - 1
  BY <1>1, HalfOfInts
<1>3. (n + h) % I32 = n + h
  BY <1>2, HalfOfInts, ModId
<1> QED BY <1>1, <1>3 DEF Int32
-----------------------------------------------------------------------------
(* The carries of time_calculate.                                          *)

(* The microsecond of the day that a stamp names.                          *)
TimeOfDay(t) ==
  (((t.Hour * MinPerHour + t.Min) * SecPerMin + t.Sec) * MsecPerSec + t.Msec)
    * UsecPerMsec + t.Usec

(* What the digits of two numbers in the units P (microseconds of a        *)
(* millisecond) and M (milliseconds of a second) are carried to when the   *)
(* numbers are added.                                                      *)
LEMMA Carried ==
  ASSUME NEW P \in Nat \ {0}, NEW M \in Nat \ {0},
         NEW s0 \in Nat, NEW m0 \in 0 .. M - 1, NEW a \in Nat, NEW b \in 0 .. P - 1,
         a = s0 * M + m0,
         NEW w \in Nat, NEW e \in Nat, NEW f \in 0 .. P - 1, b + w = e * P + f,
         NEW g \in Nat, NEW k \in 0 .. M - 1, m0 + e = g * M + k
  PROVE  /\ (a * P + b) + w = ((s0 + g) * M + k) * P + f
         /\ g * (M * P) <= M * P + w
<1>1. a + e = (s0 + g) * M + k
  <2>1. (s0 + g) * M = s0 * M + g * M /\ s0 * M \in Int /\ g * M \in Int
    OBVIOUS
  <2> QED BY <2>1
<1>2. (a + e) * P = a * P + e * P /\ a * P \in Int /\ e * P \in Int
  OBVIOUS
<1>3. (a * P + b) + w = (a + e) * P + f
  BY ONLY <1>2, b + w = e * P + f, b \in 0 .. P - 1, w \in Nat, f \in 0 .. P - 1, P \in Nat \ {0}
<1>5. (M - 1 + e) * P = (M * P - P) + e * P /\ M * P \in Int
  OBVIOUS
<1>6. (g * M) * P <= (M - 1 + e) * P
  <2>1. g * M \in Int /\ g * M <= M - 1 + e
    OBVIOUS
  <2> QED BY ONLY <2>1, ProductOrder, M \in Nat \ {0}, e \in Nat, P \in Nat \ {0}
<1>7. g * (M * P) = (g * M) * P /\ g * (M * P) \in Int
  OBVIOUS
<1>8. e * P <= b + w
  BY <1>2
<1>9. g * (M * P) <= (M * P - P) + (b + w)
  BY ONLY <1>2, <1>5, <1>6, <1>7, <1>8, b \in 0 .. P - 1, w \in Nat, P \in Nat \ {0}
<1>10. g * (M * P) <= M * P + w
  BY ONLY <1>5, <1>7, <1>9, b \in 0 .. P - 1, w \in Nat, P \in Nat \ {0}
<1> QED BY ONLY <1>1, <1>3, <1>10

(* Only the day is lost of what is carried.                                *)
OnlyDayLost(P, M, d, s, k, f) ==
  ((s * M + k) * P + f) % ((d * M) * P) = ((s % d) * M + k) * P + f

LEMMA DayLost ==
  ASSUME NEW P \in Nat \ {0}, NEW M \in Nat \ {0}, NEW d \in Nat \ {0},
         NEW s \in Nat, NEW k \in 0 .. M - 1, NEW f \in 0 .. P - 1
  PROVE  OnlyDayLost(P, M, d, s, k, f)
<1>1. (s * M + k) % (d * M) = (s % d) * M + k
  BY CarryMod
<1>2. d * M \in Nat \ {0} /\ s * M + k \in Nat
  <2>1. d * M \in Nat \ {0}
    BY ProductPositive
  <2>2. s * M \in Nat
    BY ProductNat
  <2> QED BY <2>1, <2>2
<1>3. ((s * M + k) * P + f) % ((d * M) * P) = ((s * M + k) % (d * M)) * P + f
  BY ONLY <1>2, CarryMod, P \in Nat \ {0}, f \in 0 .. P - 1
<1> QED BY ONLY <1>1, <1>3 DEF OnlyDayLost
GpsTimes == [date : GpsDates, usec : GpsUsecs]

(* The stamp of what happens elapsed microseconds after the start of the   *)
(* day that time is on: the date is the one mktime makes of the fields.    *)
DaySeen(time) ==
  DaysBefore(FileYear(time.date.year) + 1900, time.date.mon + 1) + time.date.mday - 1

IsStamp(t, time, elapsed) ==
  LET secs  == elapsed \div UsecPerSec
      date  == Civil(DaySeen(time) + secs \div SecPerDay)
      clock == Clock(secs % SecPerDay)
  IN  t = [Year |-> date.year - 1900, Month |-> date.mon, Day |-> date.mday,
           Hour |-> clock.hour, Min |-> clock.min, Sec |-> clock.sec,
           Msec |-> (elapsed \div UsecPerMsec) % MsecPerSec,
           Usec |-> elapsed % UsecPerMsec]

(* A file named for counter n of a run that was started at time is stamped *)
(* with what lies n intervals after it: no carry is lost.                  *)
LEMMA StampFields ==
  ASSUME RunFits, NEW time \in GpsTimes, NEW n \in 0 .. MaxMcnt
  PROVE  /\ IsStamp(time_calculate(Fields(time), n), time, time.usec + n * time_interval)
         /\ time.usec + n * time_interval \in Nat
<1> DEFINE P == UsecPerMsec
           M == MsecPerSec
<1>1. P \in Nat \ {0} /\ M \in Nat \ {0} /\ SecPerDay \in Nat \ {0} /\ MaxMcnt \in Nat
  BY StampConstants, Units
<1>2. UsecPerSec = M * P /\ UsecPerDay = (SecPerDay * M) * P /\ UsecPerSec \in Nat \ {0}
  BY Units
<1>3. U64 \in Nat \ {0} /\ time_interval \in Nat
  BY StampConstants, Intervals
<1>4. PICK u \in Nat : u = time.usec
  <2>1. time.usec \in 0 .. UsecPerDay - 1
    BY Units DEF GpsTimes
  <2> QED BY <2>1
<1> HIDE DEF P, M
<1>5. PICK a \in Nat, b \in 0 .. P - 1 : u = a * P + b /\ a = u \div P /\ b = u % P
  BY ONLY <1>1, DigitsOf, u \in Nat
<1>6. PICK s0 \in Nat, m0 \in 0 .. M - 1 : a = s0 * M + m0 /\ s0 = a \div M /\ m0 = a % M
  BY ONLY <1>1, DigitsOf, a \in Nat
<1>7. u \div UsecPerSec = s0
  <2>1. u \div (M * P) = (u \div P) \div M
    BY ONLY <1>1, DivTwice, u \in Nat
  <2> QED BY ONLY <2>1, <1>2, <1>5, <1>6
<1> DEFINE gps == Fields(time)
           c0 == Clock(s0)
<1>8. /\ gps.Hour = c0.hour /\ gps.Min = c0.min /\ gps.Sec = c0.sec
      /\ gps.Msec = m0 /\ gps.Usec = b
      /\ gps.Year = FileYear(time.date.year) /\ gps.Month = time.date.mon + 1 /\ gps.Day = time.date.mday
  <2>1. gps = [Year |-> FileYear(time.date.year), Month |-> time.date.mon + 1, Day |-> time.date.mday,
               Hour |-> c0.hour, Min |-> c0.min, Sec |-> c0.sec, Msec |-> m0, Usec |-> b]
    BY ONLY <1>4, <1>5, <1>6, <1>7 DEF Fields, P, M
  <2> QED BY ONLY <2>1
<1>9. PICK w \in Nat : w = n * time_interval /\ w <= MaxMcnt * time_interval
  <2>1. n * time_interval \in Nat /\ n * time_interval <= MaxMcnt * time_interval
    BY <1>1, <1>3, ProductNat, ProductOrder
  <2> QED BY <2>1
<1>10. PICK top \in Nat : top = MaxMcnt * time_interval /\ w <= top
  BY <1>1, <1>3, <1>9, ProductNat
<1>11. P + top <= U64
  BY <1>10 DEF RunFits, P
<1>12. (b + ((n * time_interval) % U64)) % U64 = b + w
  <2>1. w \in 0 .. U64 - 1 /\ b + w \in 0 .. U64 - 1
    BY ONLY <1>1, <1>3, <1>10, <1>11, b \in 0 .. P - 1, w \in Nat
  <2>2. w % U64 = w /\ (b + w) % U64 = b + w
    BY ONLY <2>1, <1>3, ModId
  <2> QED BY ONLY <2>2, <1>9
<1>13. PICK e \in Nat, f \in 0 .. P - 1 :
         b + w = e * P + f /\ e = (b + w) \div P /\ f = (b + w) % P
  <2>1. b + w \in Nat
    BY ONLY <1>1, b \in 0 .. P - 1, w \in Nat
  <2> QED BY ONLY <1>1, <2>1, DigitsOf
<1>14. PICK g \in Nat, k \in 0 .. M - 1 :
         m0 + e = g * M + k /\ g = (m0 + e) \div M /\ k = (m0 + e) % M
  <2>1. m0 + e \in Nat
    BY ONLY <1>1, m0 \in 0 .. M - 1, e \in Nat
  <2> QED BY ONLY <1>1, <2>1, DigitsOf
<1>15. u + w = ((s0 + g) * M + k) * P + f /\ g * (M * P) <= M * P + w
  <2>1. a = s0 * M + m0 /\ b + w = e * P + f /\ m0 + e = g * M + k /\ u = a * P + b
    BY ONLY <1>5, <1>6, <1>13, <1>14
  <2>2. (a * P + b) + w = ((s0 + g) * M + k) * P + f /\ g * (M * P) <= M * P + w
    BY ONLY <1>1, <2>1, Carried, s0 \in Nat, m0 \in 0 .. M - 1, a \in Nat, b \in 0 .. P - 1,
            w \in Nat, e \in Nat, f \in 0 .. P - 1, g \in Nat, k \in 0 .. M - 1
  <2> QED BY ONLY <2>1, <2>2
<1>16. /\ SecondOfDay(c0) = s0 /\ c0.hour \in Nat /\ c0.min \in 0 .. MinPerHour - 1
       /\ c0.sec \in 0 .. SecPerMin - 1
  BY ClockExact
<1>17. Seconds(gps, b + w) = c0.sec + g
  <2>1. PICK long \in Int : long = (UsecPerSec + top) \div UsecPerSec
    BY <1>2, DivMod
  <2>2. g * UsecPerSec <= UsecPerSec + top /\ UsecPerSec + top \in Int
    BY <1>2, <1>10, <1>15
  <2>3. g <= long
    BY ONLY <2>1, <2>2, <1>2, DivAtLeast, g \in Nat
  <2>4. SecPerMin + long <= I32 \div 2
    BY <2>1, <1>10 DEF RunFits
  <2>5. PICK half \in Nat : half = I32 \div 2
    BY HalfOfInts
  <2>6. c0.sec + g \in Nat /\ c0.sec + g < half
    <3>1. SecPerMin \in Nat
      BY StampConstants
    <3> QED BY ONLY <1>16, <2>1, <2>3, <2>4, <2>5, <3>1, g \in Nat
  <2>7. Int32(c0.sec + g) = c0.sec + g
    BY ONLY <2>5, <2>6, Int32Id
  <2>8. gps.Sec + (gps.Msec + (b + w) \div UsecPerMsec) \div MsecPerSec = c0.sec + g
    BY ONLY <1>8, <1>13, <1>14 DEF P, M
  <2> QED BY ONLY <2>7, <2>8 DEF Seconds
<1> DEFINE day == (s0 + g) % SecPerDay
           c1 == Clock(day)
           t == time_calculate(gps, n)
           date == Civil(DaySeen(time) + (s0 + g) \div SecPerDay)
<1>18. (c0.hour * MinPerHour + c0.min) * SecPerMin + (c0.sec + g) = s0 + g
  <2>1. PICK y \in Int : y = (c0.hour * MinPerHour + c0.min) * SecPerMin
    BY <1>16, StampConstants
  <2>2. y + c0.sec = s0 /\ c0.sec \in Int
    BY <1>16, <2>1, StampConstants DEF SecondOfDay
  <2>3. y + (c0.sec + g) = s0 + g
    BY ONLY <2>2, g \in Nat, s0 \in Nat, y \in Int
  <2> QED BY ONLY <2>1, <2>3
<1>19. t = [Year |-> date.year - 1900, Month |-> date.mon, Day |-> date.mday,
            Hour |-> c1.hour, Min |-> c1.min, Sec |-> c1.sec, Msec |-> k, Usec |-> f]
  <2>1. (gps.Usec + ((n * time_interval) % U64)) % U64 = b + w
    BY ONLY <1>8, <1>12
  <2>2. /\ (gps.Msec + (b + w) \div UsecPerMsec) % MsecPerSec = k
        /\ (b + w) % UsecPerMsec = f
    BY ONLY <1>8, <1>13, <1>14 DEF P, M
  <2> DEFINE tm == mktime(gps.Year, gps.Month, gps.Day, gps.Hour, gps.Min, c0.sec + g)
  <2>3. tm = [date |-> [date EXCEPT !.year = @ - 1900], clock |-> c1]
    BY ONLY <1>8, <1>18 DEF mktime, DaySeen
  <2>4. date = [year |-> date.year, mon |-> date.mon, mday |-> date.mday]
    BY DEF Civil
  <2> HIDE DEF tm, gps, c1, date
  <2>5. /\ tm.date.year = date.year - 1900 /\ tm.date.mon = date.mon /\ tm.date.mday = date.mday
        /\ tm.clock = c1
    BY ONLY <2>3, <2>4
  <2>6. t = [Year |-> tm.date.year, Month |-> tm.date.mon, Day |-> tm.date.mday,
             Hour |-> c1.hour, Min |-> c1.min, Sec |-> c1.sec, Msec |-> k, Usec |-> f]
    BY ONLY <1>17, <2>1, <2>2, <2>5 DEF time_calculate, tm
  <2> QED BY ONLY <2>5, <2>6
<1>20. PICK all \in Nat : all = u + w
  OBVIOUS
<1>21. PICK x \in Nat : x = (s0 + g) * M + k
  <2>1. (s0 + g) * M \in Nat
    BY <1>1, ProductNat
  <2> QED BY <2>1, <1>1
<1>22. all = x * P + f
  BY ONLY <1>15, <1>20, <1>21
<1>23. all \div P = x /\ all % P = f
  BY ONLY <1>1, <1>22, ModOfMultiple, x \in Nat, f \in 0 .. P - 1
<1>24. x \div M = s0 + g /\ x % M = k
  <2>1. PICK s \in Nat : s = s0 + g
    OBVIOUS
  <2>2. x = s * M + k
    BY ONLY <1>21, <2>1
  <2> QED BY ONLY <1>1, <2>1, <2>2, ModOfMultiple, s \in Nat, k \in 0 .. M - 1
<1>25. all \div UsecPerSec = s0 + g
  <2>1. all \div (M * P) = (all \div P) \div M
    BY ONLY <1>1, DivTwice, all \in Nat
  <2> QED BY ONLY <1>2, <1>23, <1>24, <2>1
<1>26. IsStamp(t, time, all)
  BY ONLY <1>19, <1>23, <1>24, <1>25 DEF IsStamp, P, M
<1> QED BY ONLY <1>4, <1>9, <1>20, <1>26

(* The time of day of a stamp loses nothing but the days.                  *)
LEMMA StampIsExact ==
  ASSUME NEW t, NEW time, NEW elapsed \in Nat, IsStamp(t, time, elapsed)
  PROVE  TimeOfDay(t) = elapsed % UsecPerDay
<1> DEFINE P == UsecPerMsec
           M == MsecPerSec
<1>1. /\ P \in Nat \ {0} /\ M \in Nat \ {0} /\ SecPerDay \in Nat \ {0}
      /\ UsecPerSec = M * P /\ UsecPerDay = (SecPerDay * M) * P
  BY StampConstants, Units
<1> HIDE DEF P, M
<1>2. PICK x \in Nat, f \in 0 .. P - 1 :
        elapsed = x * P + f /\ x = elapsed \div P /\ f = elapsed % P
  BY ONLY <1>1, DigitsOf, elapsed \in Nat
<1>3. PICK s \in Nat, k \in 0 .. M - 1 : x = s * M + k /\ s = x \div M /\ k = x % M
  BY ONLY <1>1, DigitsOf, x \in Nat
<1>4. elapsed \div UsecPerSec = s
  <2>1. elapsed \div (M * P) = (elapsed \div P) \div M
    BY ONLY <1>1, DivTwice, elapsed \in Nat
  <2> QED BY ONLY <2>1, <1>1, <1>2, <1>3
<1>5. PICK day \in Nat : day = s % SecPerDay
  BY ONLY <1>1, ModRange, s \in Nat
<1> DEFINE c == Clock(day)
<1>6. t.Hour = c.hour /\ t.Min = c.min /\ t.Sec = c.sec /\ t.Msec = k /\ t.Usec = f
  <2> DEFINE date == Civil(DaySeen(time) + (elapsed \div UsecPerSec) \div SecPerDay)
  <2>1. Clock((elapsed \div UsecPerSec) % SecPerDay) = c
    BY ONLY <1>4, <1>5
  <2>2. (elapsed \div UsecPerMsec) % MsecPerSec = k /\ elapsed % UsecPerMsec = f
    BY ONLY <1>2, <1>3 DEF P, M
  <2> HIDE DEF c
  <2>3. t = [Year |-> date.year - 1900, Month |-> date.mon, Day |-> date.mday,
             Hour |-> c.hour, Min |-> c.min, Sec |-> c.sec, Msec |-> k, Usec |-> f]
    BY ONLY <2>1, <2>2, IsStamp(t, time, elapsed) DEF IsStamp
  <2> QED BY ONLY <2>3
<1>7. SecondOfDay(c) = day
  BY ClockExact
<1>8. TimeOfDay(t) = (day * M + k) * P + f
  BY ONLY <1>6, <1>7 DEF TimeOfDay, SecondOfDay, M, P
<1>9. OnlyDayLost(P, M, SecPerDay, s, k, f)
  BY ONLY <1>1, DayLost, s \in Nat, k \in 0 .. M - 1, f \in 0 .. P - 1
<1> QED BY ONLY <1>1, <1>2, <1>3, <1>5, <1>8, <1>9 DEF OnlyDayLost

-----------------------------------------------------------------------------
(* The order of stamps.                                                    *)

(* Numbers of two digits are ordered by the higher one first.              *)
LEMMA DigitOrder ==
  ASSUME NEW n \in Nat \ {0}, NEW a \in Int, NEW b \in 0 .. n - 1,
         NEW c \in Int, NEW d \in 0 .. n - 1, a * n + b < c * n + d
  PROVE  a < c \/ (a = c /\ b < d)
<1>1. a * n \in Int /\ c * n \in Int
  BY SMT
<1>2. CASE c < a
  <2>1. c + 1 <= a /\ c + 1 \in Int
    BY <1>2, SMT
  <2>2. (c + 1) * n <= a * n
    BY ONLY <2>1, ProductOrder, n \in Nat \ {0}, a \in Int, SMT
  <2>3. (c + 1) * n = c * n + n
    BY SMT
  <2> QED BY ONLY <1>1, <2>2, <2>3, SMT, a * n + b < c * n + d, n \in Nat \ {0},
                  b \in 0 .. n - 1, d \in 0 .. n - 1
<1>3. CASE a = c
  BY ONLY <1>1, <1>3, SMT, a * n + b < c * n + d, n \in Nat \ {0}, b \in 0 .. n - 1, d \in 0 .. n - 1
<1> QED BY <1>2, <1>3, SMT

(* A later second of the day is later by the clock.                        *)
LEMMA ClockOrder ==
  ASSUME NEW a \in Nat, NEW b \in Nat, a < b, NEW c, c = Clock(a), NEW d, d = Clock(b)
  PROVE  \/ c.hour < d.hour
         \/ c.hour = d.hour /\ (c.min < d.min \/ (c.min = d.min /\ c.sec < d.sec))
<1>1. SecPerMin \in Nat \ {0} /\ MinPerHour \in Nat \ {0}
  BY StampConstants
<1>2. PICK h \in Nat, m \in 0 .. MinPerHour - 1, s \in 0 .. SecPerMin - 1 :
        h = c.hour /\ m = c.min /\ s = c.sec
  BY ClockExact
<1>3. PICK i \in Nat, n \in 0 .. MinPerHour - 1, t \in 0 .. SecPerMin - 1 :
        i = d.hour /\ n = d.min /\ t = d.sec
  BY ClockExact
<1>4. (h * MinPerHour + m) * SecPerMin + s < (i * MinPerHour + n) * SecPerMin + t
  <2>1. SecondOfDay(c) = a /\ SecondOfDay(d) = b
    BY ClockExact
  <2> QED BY ONLY <2>1, <1>2, <1>3, a < b DEF SecondOfDay
<1>5. PICK x \in Int, y \in Int : x = h * MinPerHour + m /\ y = i * MinPerHour + n
  BY ONLY <1>1, SMT, h \in Nat, i \in Nat, m \in 0 .. MinPerHour - 1, n \in 0 .. MinPerHour - 1
<1>6. x < y \/ (x = y /\ s < t)
  <2>1. x * SecPerMin + s < y * SecPerMin + t
    BY ONLY <1>4, <1>5
  <2> QED BY ONLY <1>1, <2>1, DigitOrder, x \in Int, y \in Int, s \in 0 .. SecPerMin - 1,
                  t \in 0 .. SecPerMin - 1
<1>7. x < y => h < i \/ (h = i /\ m < n)
  BY ONLY <1>1, <1>5, DigitOrder, h \in Nat, i \in Nat, m \in 0 .. MinPerHour - 1,
          n \in 0 .. MinPerHour - 1
<1>8. x = y => h = i /\ m = n
  <2>1. x = y => (x \div MinPerHour = y \div MinPerHour /\ x % MinPerHour = y % MinPerHour)
    OBVIOUS
  <2>2. x \div MinPerHour = h /\ x % MinPerHour = m
    BY ONLY <1>1, <1>5, ModOfMultiple, h \in Nat, m \in 0 .. MinPerHour - 1
  <2>3. y \div MinPerHour = i /\ y % MinPerHour = n
    BY ONLY <1>1, <1>5, ModOfMultiple, i \in Nat, n \in 0 .. MinPerHour - 1
  <2> QED BY ONLY <2>1, <2>2, <2>3
<1> QED BY ONLY <1>2, <1>3, <1>6, <1>7, <1>8

(* The script writes a year, if not the right one.                         *)
LEMMA YearNat ==
  ASSUME RealDates, NEW time \in GpsTimes
  PROVE  FileYear(time.date.year) \in Nat
<1>1. PICK y \in 2000 .. 2099 : y = time.date.year
  BY DEF RealDates, GpsTimes
<1>2. y % 100 \in Nat
  BY SMT
<1> QED BY ONLY <1>1, <1>2, SMT DEF FileYear

(* The day mktime sees is one the calendar has.                            *)
LEMMA DaySeenNat ==
  ASSUME RealDates, NEW time \in GpsTimes
  PROVE  DaySeen(time) \in Nat
<1>1. PICK y \in Nat, m \in Months, d \in 1 .. 31 :
        y = FileYear(time.date.year) /\ m = time.date.mon /\ d = time.date.mday
  BY YearNat DEF RealDates, GpsTimes, Months
<1>2. PICK z \in Int : z = y + 1900 /\ z >= 1
  BY SMT
<1>3. DaysBefore(z, m + 1) = DaysBefore(z, m) + MonthLength(z, m)
  BY NextMonth
<1>4. DaysBefore(z, m) = NewYear(z) + DaysInto(z, m)
  BY DaysBeforeIs
<1>5. 0 <= NewYear(z) /\ NewYear(z) \in Int
  BY <1>2, SMT DEF NewYear
<1>6. 0 <= DaysInto(z, m) /\ DaysInto(z, m) \in Int
  <2>1. 0 <= DaysInto(z, m)
    BY YearTypes, SMT DEF DaysInto
  <2>2. DaysInto(z, m) \in Int
    BY MonthTypes
  <2> QED BY <2>1, <2>2
<1>7. MonthLength(z, m) \in 28 .. 31
  BY MonthTypes
<1>8. DaysBefore(z, m + 1) \in Nat
  BY ONLY <1>3, <1>4, <1>5, <1>6, <1>7, SMT
<1> QED BY ONLY <1>1, <1>2, <1>8, SMT, d \in 1 .. 31 DEF DaySeen

(* The first place where two stamps differ.                                *)
Differ(t, u) ==
  \/ t.Year < u.Year
  \/ /\ t.Year = u.Year
     /\ \/ t.Month < u.Month
        \/ /\ t.Month = u.Month
           /\ \/ t.Day < u.Day
              \/ /\ t.Day = u.Day
                 /\ \/ t.Hour < u.Hour
                    \/ t.Hour = u.Hour
                         /\ (t.Min < u.Min \/ (t.Min = u.Min /\ t.Sec < u.Sec))

LEMMA DifferBefore ==
  ASSUME NEW t, NEW u, Differ(t, u)
  PROVE  Before(t, u)
<1> DEFINE a == <<t.Year, t.Month, t.Day, t.Hour, t.Min, t.Sec>>
           b == <<u.Year, u.Month, u.Day, u.Hour, u.Min, u.Sec>>
           First(i) == /\ \A j \in 1 .. i - 1 : a[j] = b[j]
                       /\ a[i] < b[i]
<1>1. (\E i \in 1 .. 6 : First(i)) => Before(t, u)
  BY DEF Before
<1>2. CASE t.Year < u.Year
  BY <1>1, <1>2
<1>3. CASE t.Year = u.Year /\ t.Month < u.Month
  BY <1>1, <1>3
<1>4. CASE t.Year = u.Year /\ t.Month = u.Month /\ t.Day < u.Day
  BY <1>1, <1>4
<1>5. CASE t.Year = u.Year /\ t.Month = u.Month /\ t.Day = u.Day /\ t.Hour < u.Hour
  BY <1>1, <1>5
<1>6. CASE t.Year = u.Year /\ t.Month = u.Month /\ t.Day = u.Day /\ t.Hour = u.Hour
           /\ t.Min < u.Min
  BY <1>1, <1>6
<1>7. CASE t.Year = u.Year /\ t.Month = u.Month /\ t.Day = u.Day /\ t.Hour = u.Hour
           /\ t.Min = u.Min /\ t.Sec < u.Sec
  BY <1>1, <1>7
<1> HIDE DEF First, a, b
<1> QED BY <1>2, <1>3, <1>4, <1>5, <1>6, <1>7 DEF Differ

(* A later second is stamped later.                                        *)
LEMMA StampsOrdered ==
  ASSUME RealDates, NEW time \in GpsTimes, NEW e \in Nat, NEW f \in Nat,
         e \div UsecPerSec < f \div UsecPerSec,
         NEW t, NEW u, IsStamp(t, time, e), IsStamp(u, time, f)
  PROVE  Before(t, u)
<1>1. UsecPerSec \in Nat \ {0} /\ SecPerDay \in Nat \ {0}
  BY Units
<1>2. PICK r \in Nat, s \in Nat : r = e \div UsecPerSec /\ s = f \div UsecPerSec /\ r < s
  BY <1>1, DivNat
<1>3. PICK a \in Nat, p \in 0 .. SecPerDay - 1 :
        r = a * SecPerDay + p /\ a = r \div SecPerDay /\ p = r % SecPerDay
  BY ONLY <1>1, DigitsOf, r \in Nat
<1>4. PICK b \in Nat, q \in 0 .. SecPerDay - 1 :
        s = b * SecPerDay + q /\ b = s \div SecPerDay /\ q = s % SecPerDay
  BY ONLY <1>1, DigitsOf, s \in Nat
<1>5. a < b \/ (a = b /\ p < q)
  <2>1. a * SecPerDay + p < b * SecPerDay + q
    BY ONLY <1>2, <1>3, <1>4
  <2> QED BY ONLY <1>1, <2>1, DigitOrder, a \in Nat, b \in Nat, p \in 0 .. SecPerDay - 1,
                  q \in 0 .. SecPerDay - 1
<1>6. PICK base \in Nat : base = DaySeen(time)
  BY DaySeenNat
<1>7. PICK c : c = Civil(base + a)
  OBVIOUS
<1>8. PICK d : d = Civil(base + b)
  OBVIOUS
<1>9. PICK k : k = Clock(p)
  OBVIOUS
<1>10. PICK l : l = Clock(q)
  OBVIOUS
<1>11. /\ t.Year = c.year - 1900 /\ t.Month = c.mon /\ t.Day = c.mday
       /\ t.Hour = k.hour /\ t.Min = k.min /\ t.Sec = k.sec
  <2>1. Civil(DaySeen(time) + (e \div UsecPerSec) \div SecPerDay) = c
        /\ Clock((e \div UsecPerSec) % SecPerDay) = k
    BY ONLY <1>2, <1>3, <1>6, <1>7, <1>9
  <2> QED BY ONLY <2>1, IsStamp(t, time, e) DEF IsStamp
<1>12. /\ u.Year = d.year - 1900 /\ u.Month = d.mon /\ u.Day = d.mday
       /\ u.Hour = l.hour /\ u.Min = l.min /\ u.Sec = l.sec
  <2>1. Civil(DaySeen(time) + (f \div UsecPerSec) \div SecPerDay) = d
        /\ Clock((f \div UsecPerSec) % SecPerDay) = l
    BY ONLY <1>2, <1>4, <1>6, <1>8, <1>10
  <2> QED BY ONLY <2>1, IsStamp(u, time, f) DEF IsStamp
<1>13. IsDate(c, base + a) /\ IsDate(d, base + b)
  BY <1>7, <1>8, CivilIsDate
<1>14. \/ Later(c.year, c.mon, d.year, d.mon)
       \/ c.year = d.year /\ c.mon = d.mon /\ d.mday - c.mday = (base + b) - (base + a)
  <2>1. PICK m \in Int, n \in Int : m = base + a /\ n = base + b /\ m <= n
    BY <1>5
  <2> QED BY ONLY <1>13, <2>1, DatesOrdered
<1>15. /\ c.year \in Int /\ c.mday \in Int /\ d.year \in Int /\ d.mday \in Int
  <2>1. base + a \in Nat /\ base + b \in Nat
    OBVIOUS
  <2> QED BY ONLY <2>1, <1>13, DateTypes
<1>16. CASE Later(c.year, c.mon, d.year, d.mon)
  <2>1. t.Year < u.Year \/ (t.Year = u.Year /\ t.Month < u.Month)
    BY ONLY <1>11, <1>12, <1>15, <1>16, SMT DEF Later
  <2> QED BY <2>1, DifferBefore DEF Differ
<1>17. CASE c.year = d.year /\ c.mon = d.mon /\ d.mday - c.mday = (base + b) - (base + a)
  <2>1. t.Year = u.Year /\ t.Month = u.Month
    BY ONLY <1>11, <1>12, <1>17
  <2>2. a < b => t.Day < u.Day
    BY ONLY <1>11, <1>12, <1>15, <1>17, SMT, a \in Nat, b \in Nat, base \in Nat
  <2>3. a = b => t.Day = u.Day
    BY ONLY <1>11, <1>12, <1>15, <1>17, SMT, a \in Nat, b \in Nat, base \in Nat
  <2>4. p < q => \/ t.Hour < u.Hour
                 \/ t.Hour = u.Hour /\ (t.Min < u.Min \/ (t.Min = u.Min /\ t.Sec < u.Sec))
    <3>1. p \in Nat /\ q \in Nat
      BY <1>1
    <3> QED BY ONLY <3>1, <1>9, <1>10, <1>11, <1>12, ClockOrder
  <2>5. Differ(t, u)
    BY ONLY <1>5, <2>1, <2>2, <2>3, <2>4 DEF Differ
  <2> QED BY <2>5, DifferBefore
<1> QED BY <1>14, <1>16, <1>17

(* The stamps of packets lag behind them by what the intervals lack.       *)
LEMMA LagOfStamp ==
  ASSUME NEW n \in Nat, NEW u \in Nat
  PROVE  (u + (n * Spacing) \div NsecPerUsec) - ((n * (Spacing % NsecPerUsec)) \div NsecPerUsec)
           = u + n * time_interval
<1>1. NsecPerUsec \in Nat \ {0}
  BY StampConstants
<1>2. PICK t \in Nat, r \in Nat, x \in Nat :
        /\ t = time_interval /\ r = Spacing % NsecPerUsec /\ x = Spacing
        /\ x = t * NsecPerUsec + r
  BY Intervals
<1>3. n * (t * NsecPerUsec + r) = (n * t) * NsecPerUsec + n * r
  <2>1. n * (t * NsecPerUsec + r) = n * (t * NsecPerUsec) + n * r
    BY ONLY <1>1, n \in Nat, t \in Nat, r \in Nat
  <2>2. n * (t * NsecPerUsec) = (n * t) * NsecPerUsec
    BY ONLY <1>1, n \in Nat, t \in Nat
  <2> QED BY ONLY <2>1, <2>2
<1>4. n * t \in Int /\ n * r \in Int
  BY ONLY n \in Nat, t \in Nat, r \in Nat
<1>5. ((n * t) * NsecPerUsec + n * r) \div NsecPerUsec = n * t + ((n * r) \div NsecPerUsec)
  BY ONLY <1>1, <1>4, DivAdd
<1>6. PICK y \in Int : y = (n * r) \div NsecPerUsec
  BY ONLY <1>1, <1>4, DivMod
<1>7. (n * Spacing) \div NsecPerUsec = n * t + y
  BY ONLY <1>2, <1>3, <1>5, <1>6
<1>8. (n * (Spacing % NsecPerUsec)) \div NsecPerUsec = y
  BY ONLY <1>2, <1>6
<1>9. (u + (n * t + y)) - y = u + n * t
  BY ONLY <1>4, u \in Nat, y \in Int
<1> QED BY ONLY <1>2, <1>7, <1>8, <1>9

-----------------------------------------------------------------------------
(* The inductive invariant: a file that exists was written from the last   *)
(* start with both boards ready, and while the thread runs it has read     *)
(* that file, names files from nothing else, and makes tstart of the name. *)
Running == ts_pc \in {"wait", "header"}

StampInv ==
  /\ started \in GpsTimes /\ trig \in GpsTimes
  /\ gps_file \in {NoTime, Fields(trig)}
  /\ Running => GPS_time = Fields(trig)
  /\ file_mcnt \in 0 .. MaxMcnt
  /\ Stamped => Running /\ File_time = time_calculate(GPS_time, file_mcnt)
  /\ Stamped /\ ts_pc = "wait" => tstart = current_MJD(File_time)

LEMMA StampStart == StampInit => StampInv
BY StampConstants DEF StampInit, StampInv, GpsTimes, Running, Stamped

LEMMA StampStep == StampInv /\ [StampNext]_stamp_vars => StampInv'
<1> SUFFICES ASSUME StampInv, [StampNext]_stamp_vars
             PROVE  StampInv'
  OBVIOUS
<1> USE DEF StampInv, Running, Stamped
<1>1. CASE sys_trig
  <2>1. UNCHANGED <<GPS_time, File_time, file_mcnt, tstart>> /\ ~Running /\ ~Running'
    BY <1>1 DEF sys_trig
  <2>2. started' \in GpsTimes
    BY <1>1 DEF sys_trig, GpsTimes
  <2>3. PICK adc_valid \in [{1, 2} -> BOOLEAN] :
          /\ gps_file' = IF Ready(adc_valid) THEN Fields(started') ELSE gps_file
          /\ trig' = IF adc_valid[1] /\ adc_valid[2] THEN started' ELSE trig
    BY <1>1 DEF sys_trig
  <2>4. Ready(adc_valid) <=> adc_valid[1] /\ adc_valid[2]
    BY DEF Ready
  <2>5. trig' \in GpsTimes /\ gps_file' \in {NoTime, Fields(trig')}
    BY <2>2, <2>3, <2>4
  <2>6. File_time' = NoTime
    BY <2>1
  <2> QED BY <2>1, <2>2, <2>5, <2>6
<1>2. CASE ReadGPSTime
  BY <1>2 DEF ReadGPSTime, script_vars
<1>3. CASE NameFile
  BY <1>3 DEF NameFile, script_vars
<1>4. CASE WriteTstart
  BY <1>4 DEF WriteTstart, script_vars
<1>5. CASE Stop
  BY <1>5, StampConstants DEF Stop, script_vars
<1>6. CASE UNCHANGED stamp_vars
  BY <1>6 DEF stamp_vars, script_vars
<1> QED BY <1>1, <1>2, <1>3, <1>4, <1>5, <1>6 DEF StampNext

(* What a stamp says is what has elapsed, and what has elapsed depends on  *)
(* nothing but the start and the counter.                                  *)
LEMMA ElapsedIs ==
  ASSUME NEW n \in 0 .. MaxMcnt, NEW time \in GpsTimes
  PROVE  /\ (time.usec + (n * Spacing) \div NsecPerUsec) - ((n * (Spacing % NsecPerUsec)) \div NsecPerUsec)
              = time.usec + n * time_interval
         /\ n \in Nat /\ time.usec \in Nat
<1>1. n \in Nat
  BY StampConstants
<1>2. time.usec \in Nat
  <2>1. time.usec \in 0 .. UsecPerDay - 1
    BY Units DEF GpsTimes
  <2> QED BY <2>1
<1> QED BY <1>1, <1>2, LagOfStamp

LEMMA StampOfElapsed ==
  ASSUME RunFits, StampInv
  PROVE  /\ Elapsed \in Nat /\ Elapsed = trig.usec + file_mcnt * time_interval
         /\ Stamped => IsStamp(File_time, trig, Elapsed)
<1>1. Elapsed = trig.usec + file_mcnt * time_interval
  BY ElapsedIs DEF StampInv, Elapsed, TrueElapsed, Lag
<1>2. IsStamp(time_calculate(Fields(trig), file_mcnt), trig, Elapsed) /\ Elapsed \in Nat
  BY <1>1, StampFields DEF StampInv
<1>3. Stamped => File_time = time_calculate(Fields(trig), file_mcnt)
  BY DEF StampInv
<1> QED BY <1>1, <1>2, <1>3

LEMMA StampExact == RunFits /\ StampInv => TimeOfDayExact
<1> SUFFICES ASSUME RunFits, StampInv, Stamped
             PROVE  TimeOfDay(File_time) = Elapsed % UsecPerDay
  BY DEF TimeOfDayExact, TimeOfDay, Elapsed
<1> QED BY StampOfElapsed, StampIsExact

(* The time of day in the name and in the header of a file is that of the  *)
(* file's packet, behind by what the intervals lack, counted from the last *)
(* start at which both boards were ready (time_calculate, sys_trig.py).    *)
THEOREM StampsExact == StampSpec => []TimeOfDayExact
<1>1. StampInit => StampInv
  BY StampStart
<1>2. StampInv /\ [StampNext]_stamp_vars => StampInv'
  BY StampStep
<1>3. StampInv => TimeOfDayExact
  BY StampExact, RunAssumption
<1> QED BY <1>1, <1>2, <1>3, PTL DEF StampSpec

-----------------------------------------------------------------------------
(* The step of NamesSort.                                                  *)
NamesSortStep ==
  Stamped /\ File_time' # File_time
       /\ Elapsed' \div UsecPerSec > Elapsed \div UsecPerSec
    => Before(File_time, File_time')

LEMMA NamesSorted ==
  ASSUME RunFits, RealDates, StampInv, [StampNext]_stamp_vars
  PROVE  NamesSortStep
<1> SUFFICES ASSUME Stamped, File_time' # File_time,
                    Elapsed' \div UsecPerSec > Elapsed \div UsecPerSec
             PROVE  Before(File_time, File_time')
  BY DEF NamesSortStep
<1>1. Running /\ trig \in GpsTimes
  BY DEF StampInv
<1>2. Elapsed \in Nat /\ Elapsed = trig.usec + file_mcnt * time_interval
      /\ IsStamp(File_time, trig, Elapsed)
  BY StampOfElapsed
<1>3. CASE NameFile
  <2>1. PICK n \in 0 .. MaxMcnt :
          file_mcnt' = n /\ File_time' = time_calculate(GPS_time, n) /\ trig' = trig
    BY <1>3 DEF NameFile, script_vars
  <2>2. GPS_time = Fields(trig)
    BY <1>1 DEF StampInv
  <2>3. Elapsed' = trig.usec + n * time_interval
    BY <1>1, <2>1, ElapsedIs DEF Elapsed, TrueElapsed, Lag
  <2>4. IsStamp(File_time', trig, Elapsed') /\ Elapsed' \in Nat
    BY <1>1, <2>1, <2>2, <2>3, StampFields
  <2>5. PICK e \in Nat, f \in Nat : e = Elapsed /\ f = Elapsed'
    BY <1>2, <2>4
  <2>6. e \div UsecPerSec \in Nat /\ f \div UsecPerSec \in Nat
    BY Units, DivNat
  <2>7. e \div UsecPerSec < f \div UsecPerSec
    BY ONLY <2>5, <2>6, Elapsed' \div UsecPerSec > Elapsed \div UsecPerSec
  <2> QED BY <1>1, <1>2, <2>4, <2>5, <2>7, StampsOrdered
<1>4. CASE Stop
  <2>1. file_mcnt' = 0 /\ trig' = trig
    BY <1>4 DEF Stop, script_vars
  <2>2. Elapsed' = trig.usec + 0 * time_interval
    BY <1>1, <2>1, ElapsedIs, StampConstants DEF Elapsed, TrueElapsed, Lag
  <2>3. PICK u \in Nat, w \in Nat : u = trig.usec /\ w = file_mcnt * time_interval
    BY <1>1, ElapsedIs, Intervals, ProductNat DEF StampInv
  <2>4. Elapsed = u + w /\ Elapsed' = u
    BY <1>2, <2>2, <2>3, Intervals
  <2>5. UsecPerSec \in Nat \ {0}
    BY Units
  <2>6. PICK a \in Nat : a = u \div UsecPerSec
    BY <2>5, DivNat
  <2>7. a * UsecPerSec <= u
    BY ONLY <2>5, <2>6, DivMod, u \in Nat
  <2>8. a * UsecPerSec <= u + w /\ u + w \in Int
    BY <2>5, <2>7
  <2>9. a <= (u + w) \div UsecPerSec
    BY ONLY <2>5, <2>8, DivAtLeast, a \in Nat
  <2>10. (u + w) \div UsecPerSec \in Int
    BY ONLY <2>5, <2>8, DivMod
  <2> QED BY ONLY <2>4, <2>6, <2>9, <2>10, a \in Nat,
                  Elapsed' \div UsecPerSec > Elapsed \div UsecPerSec
<1>5. CASE sys_trig \/ ReadGPSTime
  BY <1>1, <1>5 DEF Running, sys_trig, ReadGPSTime
<1>6. CASE WriteTstart \/ UNCHANGED stamp_vars
  BY <1>6 DEF WriteTstart, stamp_vars
<1> QED BY <1>3, <1>4, <1>5, <1>6 DEF StampNext

(* A file stamped with a later second sorts after the one before it, over  *)
(* any number of days, months and years: time_calculate never steps back.  *)
THEOREM NamesInOrder == StampSpec => NamesSort
<1>1. StampInit => StampInv
  BY StampStart
<1>2. StampInv /\ [StampNext]_stamp_vars => StampInv'
  BY StampStep
<1>3. StampInv /\ [StampNext]_stamp_vars => NamesSortStep
  BY NamesSorted, RunAssumption
<1>4. StampInv /\ [StampNext]_stamp_vars => [NamesSortStep]_stamp_vars
  BY <1>3
<1> QED BY <1>1, <1>2, <1>4, PTL DEF StampSpec, NamesSort, NamesSortStep

-----------------------------------------------------------------------------
(* What tstart says.                                                       *)

(* Julian days begin at noon.                                              *)
LEMMA HalfDay ==
  /\ UsecPerDay = 2 * (UsecPerDay \div 2) /\ UsecPerDay \div 2 \in Nat
  /\ (((HoursPerDay \div 2) * MinPerHour) * SecPerMin) * UsecPerSec = UsecPerDay \div 2
  /\ HoursPerDay \div 2 \in Nat
<1>1. PICK k \in Nat : HoursPerDay = 2 * k /\ HoursPerDay \div 2 = k
  <2>1. PICK k \in 1 .. 12 : HoursPerDay = 2 * k
    BY UnitAssumption
  <2>2. HoursPerDay \div 2 = k /\ k \in Nat
    BY <2>1
  <2> QED BY <2>1, <2>2
<1>2. PICK a \in Nat, b \in Nat, c \in Nat : a = MinPerHour /\ b = SecPerMin /\ c = UsecPerSec
  BY StampConstants, Units
<1>3. UsecPerDay = ((b * a) * (2 * k)) * c
  BY ONLY <1>1, <1>2 DEF UsecPerDay, SecPerDay
<1>4. PICK h \in Nat : h = ((k * a) * b) * c
  BY ProductNat
<1>5. ((b * a) * (2 * k)) * c = 2 * h
  <2>1. (b * a) * (2 * k) = 2 * ((k * a) * b)
    BY ONLY a \in Nat, b \in Nat, k \in Nat
  <2>2. PICK x \in Nat : x = (k * a) * b
    BY ProductNat
  <2>3. (2 * x) * c = 2 * (x * c)
    BY ONLY x \in Nat, c \in Nat
  <2> QED BY ONLY <1>4, <2>1, <2>2, <2>3
<1>6. UsecPerDay = 2 * h /\ UsecPerDay \div 2 = h
  BY ONLY <1>3, <1>5, h \in Nat
<1> QED BY <1>1, <1>2, <1>4, <1>6

(* current_MJD counts from the midnight before, and leaves out the         *)
(* milliseconds.                                                           *)
MjdIs(t, jd, elapsed) ==
  /\ t.Msec * UsecPerMsec \in Int
  /\ current_MJD(t) = (jd - 2400001) * UsecPerDay + (elapsed % UsecPerDay)
                         - t.Msec * UsecPerMsec

LEMMA MjdOf ==
  ASSUME NEW t, NEW time, NEW elapsed \in Nat, IsStamp(t, time, elapsed),
         NEW jd \in Int, jd = UTCtoJD(t.Year, t.Month, t.Day)
  PROVE  MjdIs(t, jd, elapsed)
<1>1. PICK P \in Nat \ {0}, M \in Nat \ {0}, U \in Nat \ {0}, D \in Nat \ {0} :
        P = UsecPerMsec /\ M = MsecPerSec /\ U = UsecPerSec /\ D = UsecPerDay
  BY StampConstants, Units
<1>2. U = M * P
  BY ONLY <1>1, Units
<1>3. PICK a \in Nat, b \in Nat : a = MinPerHour /\ b = SecPerMin
  BY StampConstants
<1>4. PICK e \in Nat, half \in Nat :
        /\ e = HoursPerDay \div 2 /\ half = D \div 2 /\ D = 2 * half
        /\ ((e * a) * b) * U = half
  BY ONLY HalfDay, <1>1, <1>3
<1>5. PICK h \in Nat, m \in Nat, s \in Nat, ms \in Nat, us \in Nat :
        /\ t.Hour = h /\ t.Min = m /\ t.Sec = s /\ t.Msec = ms /\ t.Usec = us
  <2>1. PICK day \in Nat : day = (elapsed \div UsecPerSec) % SecPerDay
    <3>1. PICK secs \in Nat : secs = elapsed \div UsecPerSec
      BY Units, DivNat
    <3>2. PICK n \in Nat \ {0} : n = SecPerDay
      BY Units
    <3>3. secs % n \in Nat
      BY ModRange
    <3> QED BY ONLY <3>1, <3>2, <3>3
  <2>2. /\ Clock(day).hour \in Nat /\ Clock(day).min \in Nat /\ Clock(day).sec \in Nat
    BY ClockExact, StampConstants
  <2>3. (elapsed \div UsecPerMsec) % MsecPerSec \in Nat /\ elapsed % UsecPerMsec \in Nat
    BY StampConstants, DivNat, ModRange
  <2>4. /\ t.Hour = Clock(day).hour /\ t.Min = Clock(day).min /\ t.Sec = Clock(day).sec
        /\ t.Msec = (elapsed \div UsecPerMsec) % MsecPerSec /\ t.Usec = elapsed % UsecPerMsec
    BY ONLY <2>1, IsStamp(t, time, elapsed) DEF IsStamp
  <2> QED BY <2>2, <2>3, <2>4
<1>6. PICK sod \in Int : sod = (h * a + m) * b + s
  BY SMT
<1>7. PICK x \in Int : x = sod * U
  BY SMT
<1>8. elapsed % D = x + ms * P + us
  <2>1. TimeOfDay(t) = elapsed % UsecPerDay
    BY StampIsExact
  <2>2. TimeOfDay(t) = (sod * M + ms) * P + us
    BY ONLY <1>1, <1>3, <1>5, <1>6 DEF TimeOfDay
  <2>3. (sod * M + ms) * P = sod * (M * P) + ms * P
    BY ONLY SMT, sod \in Int, M \in Nat \ {0}, P \in Nat \ {0}, ms \in Nat
  <2> QED BY ONLY <1>1, <1>2, <1>7, <2>1, <2>2, <2>3
<1>9. ((((h - e) * a + m) * b) + s) * U = x - half
  <2>1. (((h - e) * a + m) * b) + s = sod - (e * a) * b
    <3>1. (h - e) * a = h * a - e * a /\ h * a \in Int /\ e * a \in Int
      BY SMT
    <3>2. (h * a - e * a + m) * b = (h * a + m) * b - (e * a) * b
      BY ONLY <3>1, SMT, m \in Nat, b \in Nat
    <3>3. (h * a + m) * b \in Int /\ (e * a) * b \in Int
      BY ONLY <3>1, SMT, m \in Nat, b \in Nat
    <3> QED BY ONLY <1>6, <3>1, <3>2, <3>3, SMT, s \in Nat
  <2>2. PICK k \in Int : k = (e * a) * b
    BY SMT
  <2>3. (sod - k) * U = sod * U - k * U
    BY ONLY SMT, sod \in Int, k \in Int, U \in Nat \ {0}
  <2> QED BY ONLY <1>4, <1>7, <2>1, <2>2, <2>3
<1>10. current_MJD(t) = (jd - 2400000) * D + (x - half) + us - half
  <2>1. current_MJD(t) = (jd - 2400000) * D + ((((h - e) * a + m) * b) + s) * U + us - half
    BY ONLY <1>1, <1>3, <1>4, <1>5, SMT, jd = UTCtoJD(t.Year, t.Month, t.Day) DEF current_MJD
  <2> QED BY ONLY <1>9, <2>1
<1>11. (jd - 2400000) * D = (jd - 2400001) * D + D /\ (jd - 2400001) * D \in Int
  <2>1. PICK k \in Int : k = jd - 2400001 /\ jd - 2400000 = k + 1
    BY SMT
  <2>2. (k + 1) * D = k * D + D /\ k * D \in Int
    BY ONLY SMT, k \in Int, D \in Nat \ {0}
  <2> QED BY ONLY <2>1, <2>2
<1>12. PICK y \in Int : y = (jd - 2400001) * D
  BY <1>11
<1>13. ms * P \in Int
  BY SMT
<1>14. current_MJD(t) = y + (elapsed % D) - ms * P
  BY ONLY <1>4, <1>8, <1>10, <1>11, <1>12, <1>13, SMT, y \in Int, x \in Int, half \in Nat,
          D \in Nat \ {0}, us \in Nat
<1> QED BY ONLY <1>1, <1>5, <1>12, <1>13, <1>14, SMT DEF MjdIs

(* The day that UTCtoJD finds for a stamp, if the month mktime saw was the *)
(* one after (y, mo), and the stamp is of the dd-th of it.                 *)
DaysOff(y, mo, dd) ==
  LET seen == MonthLength(y + 1900 + (mo + 1) \div 12, (mo + 1) % 12)
  IN  IF dd <= seen THEN 0 ELSE seen - MonthLength(y, mo)

(* Up to the end of that month and of the next one.                        *)
LEMMA DateSeen ==
  ASSUME NEW y \in Nat, NEW mo \in Months, NEW dd \in Nat \ {0},
         dd <= MonthLength(y + 1900 + (mo + 1) \div 12, (mo + 1) % 12) + 28,
         NEW c, c = Civil(DaysBefore(y + 1900, mo + 1) + dd - 1)
  PROVE  UTCtoJD(c.year - 1900, c.mon, c.mday)
           = DaysBefore(y, mo) + dd - DaysOff(y, mo, dd) + 1721425
<1>1. PICK z, k : z = y + (mo + 1) \div 12 /\ k = (mo + 1) % 12
  OBVIOUS
<1>2. /\ z \in Int /\ k \in Months /\ z + 1900 = (y + 1900) + (mo + 1) \div 12
      /\ DaysBefore(z, k) = DaysBefore(y, mo) + MonthLength(y, mo)
      /\ DaysBefore(z, k - 1) = DaysBefore(y, mo)
  BY <1>1, Turn
<1>3. PICK s \in 28 .. 31 : s = MonthLength(z + 1900, k) /\ dd <= s + 28
  <2>1. z + 1900 \in Int
    BY <1>2, SMT
  <2>2. MonthLength(z + 1900, k) \in 28 .. 31
    BY <1>2, <2>1, MonthTypes
  <2>3. MonthLength(y + 1900 + (mo + 1) \div 12, (mo + 1) % 12) = MonthLength(z + 1900, k)
    BY ONLY <1>1, <1>2
  <2> QED BY <2>2, <2>3
<1>4. PICK v \in Int : v = y + 1900
  BY SMT
<1>5. DaysBefore(v, mo + 1) = DaysBefore(z + 1900, k)
  <2>1. DaysBefore(v, mo + 1) = DaysBefore(v, mo) + MonthLength(v, mo)
    BY NextMonth
  <2>2. DaysBefore(v + (mo + 1) \div 12, (mo + 1) % 12) = DaysBefore(v, mo) + MonthLength(v, mo)
    BY Turn
  <2>3. z + 1900 = v + (mo + 1) \div 12
    BY ONLY <1>2, <1>4
  <2> QED BY ONLY <1>1, <2>1, <2>2, <2>3
<1>6. PICK w \in Int : w = z + 1900
  BY <1>2, SMT
<1>7. PICK before \in Int : before = DaysBefore(y, mo)
  BY MonthTypes
<1>8. PICK len \in Int : len = MonthLength(y, mo)
  BY MonthTypes, SMT
<1>9. DaysOff(y, mo, dd) = IF dd <= s THEN 0 ELSE s - len
  <2>1. MonthLength(y + 1900 + (mo + 1) \div 12, (mo + 1) % 12) = s
    BY ONLY <1>1, <1>2, <1>3
  <2> QED BY ONLY <1>8, <2>1 DEF DaysOff
<1>10. PICK start \in Int : start = DaysBefore(w, k) /\ start >= 0
  <2>1. w >= 1
    <3>1. (mo + 1) \div 12 >= 0 /\ (mo + 1) \div 12 \in Int
      BY SMT DEF Months
    <3> QED BY ONLY <1>1, <1>6, <3>1, SMT, y \in Nat
  <2>2. DaysBefore(w, k) = NewYear(w) + DaysInto(w, k) /\ DaysBefore(w, k) \in Int
    BY <1>2, DaysBeforeIs, MonthTypes
  <2>3. 0 <= DaysInto(w, k) /\ DaysInto(w, k) \in Int
    <3>1. 0 <= DaysInto(w, k)
      BY YearTypes, SMT DEF DaysInto
    <3> QED BY <1>2, <3>1, MonthTypes
  <2>4. 0 <= NewYear(w) /\ NewYear(w) \in Int
    BY <2>1, SMT DEF NewYear
  <2> QED BY ONLY <2>2, <2>3, <2>4, SMT
<1>11. c = Civil(start + dd - 1)
  BY ONLY <1>4, <1>5, <1>6, <1>10, c = Civil(DaysBefore(y + 1900, mo + 1) + dd - 1)
<1>12. CASE dd <= s
  <2>1. dd \in 1 .. MonthLength(w, k) /\ DaysBefore(w, k) + dd - 1 \in Nat
    BY <1>3, <1>6, <1>10, <1>12, SMT
  <2>2. c = [year |-> w, mon |-> k, mday |-> dd]
    BY ONLY <1>2, <1>10, <1>11, <2>1, DateIs, w \in Int
  <2>3. c.year - 1900 = z /\ c.mon = k /\ c.mday = dd
    <3>1. w - 1900 = z
      BY ONLY <1>2, <1>6, SMT
    <3> QED BY ONLY <2>2, <3>1
  <2>4. UTCtoJD(z, k, dd) = DaysBefore(z, k - 1) + dd + 1721425
    BY ONLY <1>2, JulianDay, SMT, dd \in Nat \ {0}
  <2> QED BY ONLY <1>2, <1>7, <1>9, <1>12, <2>3, <2>4, SMT, before \in Int, dd \in Nat \ {0}
<1>13. CASE s < dd
  <2>1. PICK z2, k2 : z2 = z + (k + 1) \div 12 /\ k2 = (k + 1) % 12
    OBVIOUS
  <2>2. /\ z2 \in Int /\ k2 \in Months /\ z2 + 1900 = (z + 1900) + (k + 1) \div 12
        /\ DaysBefore(z2, k2 - 1) = DaysBefore(z, k)
    BY ONLY <1>2, <2>1, Turn
  <2>3. PICK w2 \in Int : w2 = z2 + 1900 /\ w2 = w + (k + 1) \div 12
    BY ONLY <1>6, <2>2, SMT
  <2>4. DaysBefore(w2, k2) = start + s
    BY ONLY <1>2, <1>3, <1>6, <1>10, <2>1, <2>3, Turn, w \in Int
  <2>5. PICK d2 \in 1 .. 28 : d2 = dd - s
    BY ONLY <1>3, <1>13, SMT, dd \in Nat \ {0}
  <2>6. d2 \in 1 .. MonthLength(w2, k2) /\ DaysBefore(w2, k2) + d2 - 1 \in Nat
    <3>1. MonthLength(w2, k2) \in 28 .. 31
      BY ONLY <2>2, <2>3, MonthTypes
    <3> QED BY ONLY <1>3, <1>10, <2>4, <3>1, SMT, d2 \in 1 .. 28
  <2>7. DaysBefore(w2, k2) + d2 - 1 = start + dd - 1
    BY ONLY <1>3, <2>4, <2>5, SMT, start \in Int, dd \in Nat \ {0}
  <2>8. c = [year |-> w2, mon |-> k2, mday |-> d2]
    BY ONLY <1>11, <2>2, <2>6, <2>7, DateIs, w2 \in Int
  <2>9. c.year - 1900 = z2 /\ c.mon = k2 /\ c.mday = d2
    <3>1. w2 - 1900 = z2
      BY ONLY <2>2, <2>3, SMT
    <3> QED BY ONLY <2>8, <3>1
  <2>10. UTCtoJD(z2, k2, d2) = DaysBefore(z2, k2 - 1) + d2 + 1721425
    BY ONLY <2>2, JulianDay, SMT, d2 \in 1 .. 28
  <2> QED BY ONLY <1>2, <1>3, <1>7, <1>8, <1>9, <1>13, <2>2, <2>5, <2>9, <2>10, SMT,
                  before \in Int, len \in Int, dd \in Nat \ {0}
<1> QED BY <1>3, <1>12, <1>13, SMT

(* The days and the time of day of tstart together.                        *)
LEMMA TstartIs ==
  ASSUME RunFits, RealDates, StampInv
  PROVE  TstartExplained
<1> SUFFICES ASSUME Stamped, ts_pc = "wait", DayOfMonth <= MonthSeen + 28
             PROVE  TrueMjd - tstart =
                      File_time.Msec * UsecPerMsec + DaysMisread * UsecPerDay
                        + (IF DayOfMonth <= MonthSeen THEN 0
                           ELSE (MonthSeen - MonthLength(YearRead, trig.date.mon)) * UsecPerDay)
  BY DEF TstartExplained
<1>1. PICK y \in Nat, mo \in Months, md \in Nat \ {0} :
        /\ y = YearRead /\ y = FileYear(trig.date.year)
        /\ mo = trig.date.mon /\ md = trig.date.mday
  BY YearNat DEF YearRead, StampInv, GpsTimes, RealDates, Months
<1>2. PICK e \in Nat : e = Elapsed /\ IsStamp(File_time, trig, e)
  BY StampOfElapsed
<1>3. PICK D \in Nat \ {0}, U \in Nat \ {0}, S \in Nat \ {0} :
        D = UsecPerDay /\ U = UsecPerSec /\ S = SecPerDay /\ D = S * U
  BY Units DEF UsecPerDay
<1>4. PICK n \in Nat : n = e \div D
  BY DivNat
<1>5. (e \div U) \div S = n
  BY ONLY <1>3, <1>4, DivTwice, e \in Nat
<1>6. PICK dd \in Nat \ {0} : dd = md + n /\ dd = DayOfMonth
  BY ONLY <1>1, <1>2, <1>3, <1>4, SMT, md \in Nat \ {0}, n \in Nat DEF DayOfMonth
<1>7. PICK c : c = Civil(DaysBefore(y + 1900, mo + 1) + dd - 1)
  OBVIOUS
<1>8. File_time.Year = c.year - 1900 /\ File_time.Month = c.mon /\ File_time.Day = c.mday
  <2>1. DaySeen(trig) + (e \div UsecPerSec) \div SecPerDay = DaysBefore(y + 1900, mo + 1) + dd - 1
    <3>1. PICK b \in Int : b = DaysBefore(y + 1900, mo + 1)
      <4>1. y + 1900 \in Int
        BY SMT
      <4> QED BY <4>1, NextMonth, MonthTypes, SMT
    <3>2. DaySeen(trig) = b + md - 1
      BY ONLY <1>1, <3>1 DEF DaySeen
    <3>3. (e \div UsecPerSec) \div SecPerDay = n
      BY ONLY <1>3, <1>5
    <3>4. (b + md - 1) + n = b + dd - 1
      BY ONLY <1>6, SMT, md \in Nat \ {0}, n \in Nat, b \in Int
    <3> QED BY ONLY <3>1, <3>2, <3>3, <3>4
  <2> QED BY ONLY <1>2, <1>7, <2>1 DEF IsStamp
<1>9. PICK jd \in Int : jd = UTCtoJD(File_time.Year, File_time.Month, File_time.Day)
                          /\ jd = DaysBefore(y, mo) + dd - DaysOff(y, mo, dd) + 1721425
  <2>1. dd <= MonthLength(y + 1900 + (mo + 1) \div 12, (mo + 1) % 12) + 28
    BY ONLY <1>1, <1>6, DayOfMonth <= MonthSeen + 28 DEF MonthSeen
  <2>2. UTCtoJD(c.year - 1900, c.mon, c.mday)
          = DaysBefore(y, mo) + dd - DaysOff(y, mo, dd) + 1721425
    BY <1>7, <2>1, DateSeen
  <2>3. DaysBefore(y, mo) \in Int /\ DaysOff(y, mo, dd) \in Int
    <3>1. y + 1900 + (mo + 1) \div 12 \in Int /\ (mo + 1) % 12 \in Months
      BY SMT DEF Months
    <3>2. MonthLength(y, mo) \in Int
          /\ MonthLength(y + 1900 + (mo + 1) \div 12, (mo + 1) % 12) \in Int
      BY <3>1, MonthTypes, SMT
    <3> QED BY <3>2, MonthTypes, SMT DEF DaysOff
  <2> QED BY ONLY <1>8, <2>2, <2>3, SMT, dd \in Nat \ {0}
<1>10. PICK off \in Int : off = DaysOff(y, mo, dd)
         /\ off = IF DayOfMonth <= MonthSeen THEN 0 ELSE MonthSeen - MonthLength(YearRead, trig.date.mon)
  <2>1. DaysOff(y, mo, dd) \in Int
    <3>1. y + 1900 + (mo + 1) \div 12 \in Int /\ (mo + 1) % 12 \in Months
      BY SMT DEF Months
    <3>2. MonthLength(y, mo) \in Int
          /\ MonthLength(y + 1900 + (mo + 1) \div 12, (mo + 1) % 12) \in Int
      BY <3>1, MonthTypes, SMT
    <3> QED BY <3>2, SMT DEF DaysOff
  <2>2. DaysOff(y, mo, dd) =
          IF DayOfMonth <= MonthSeen THEN 0 ELSE MonthSeen - MonthLength(YearRead, trig.date.mon)
    BY ONLY <1>1, <1>6 DEF DaysOff, MonthSeen
  <2> QED BY <2>1, <2>2
<1>11. PICK before \in Int, lost \in Int :
         /\ before = DaysBefore(y, mo) /\ lost = DaysMisread
         /\ DaysBefore(trig.date.year, trig.date.mon) = before + lost
  <2>1. PICK ty \in 2000 .. 2099 : ty = trig.date.year
    BY DEF StampInv, GpsTimes, RealDates
  <2>2. PICK b \in Int, tb \in Int : b = DaysBefore(y, mo) /\ tb = DaysBefore(ty, mo)
    BY MonthTypes, SMT
  <2>3. DaysMisread = tb - b
    BY ONLY <1>1, <2>1, <2>2 DEF DaysMisread
  <2> QED BY ONLY <1>1, <2>1, <2>2, <2>3, SMT
<1>12. MjdIs(File_time, jd, e)
  <2>1. jd = UTCtoJD(File_time.Year, File_time.Month, File_time.Day)
    BY ONLY <1>9, SMT
  <2>2. IsStamp(File_time, trig, e)
    BY ONLY <1>2
  <2> QED BY ONLY <2>1, <2>2, MjdOf, e \in Nat, jd \in Int
<1>13. PICK ms \in Int, r \in Int :
         /\ ms = File_time.Msec * UsecPerMsec /\ r = e % D
         /\ tstart = (jd - 2400001) * D + r - ms
  <2>1. tstart = current_MJD(File_time)
    BY DEF StampInv
  <2>2. e % D \in Int
    BY ONLY <1>3, DivMod, e \in Nat
  <2>3. tstart = (jd - 2400001) * D + (e % D) - File_time.Msec * UsecPerMsec
        /\ File_time.Msec * UsecPerMsec \in Int
    <3>1. D = UsecPerDay
      BY ONLY <1>3
    <3>2. File_time.Msec * UsecPerMsec \in Int
      BY ONLY <1>12, SMT DEF MjdIs
    <3>3. current_MJD(File_time) = (jd - 2400001) * UsecPerDay + (e % UsecPerDay)
                                     - File_time.Msec * UsecPerMsec
      BY ONLY <1>12, SMT DEF MjdIs
    <3> QED BY ONLY <2>1, <3>1, <3>2, <3>3, SMT
  <2> QED BY ONLY <2>2, <2>3, SMT
<1>14. TrueMjd = (before + lost + md - 1 + n - 678575) * D + r
  BY ONLY <1>1, <1>2, <1>3, <1>4, <1>11, <1>13, SMT DEF TrueMjd, TrueDay
<1>15. before + lost + md - 1 + n - 678575 = ((jd - 2400001) + lost) + off
  BY ONLY <1>6, <1>9, <1>10, <1>11, SMT, md \in Nat \ {0}, n \in Nat
<1>16. PICK k \in Int : k = jd - 2400001
  BY SMT
<1>17. PICK a \in Int, b \in Int, l \in Int : a = k * D /\ b = off * D /\ l = lost * D
  BY SMT
<1>18. ((k + lost) + off) * D = (a + l) + b
  <2>1. ((k + lost) + off) * D = (k + lost) * D + off * D
    BY SMT
  <2>2. (k + lost) * D = k * D + lost * D
    BY SMT
  <2> QED BY ONLY <1>17, <2>1, <2>2, SMT
<1>19. TrueMjd - tstart = (ms + l) + b
  <2>1. tstart = a + r - ms
    BY ONLY <1>13, <1>16, <1>17, SMT
  <2>2. before + lost + md - 1 + n - 678575 = (k + lost) + off
    BY ONLY <1>15, <1>16
  <2>3. TrueMjd = ((a + l) + b) + r
    BY ONLY <1>14, <1>18, <2>2
  <2> QED BY ONLY <2>1, <2>3, SMT, ms \in Int, r \in Int, a \in Int, b \in Int, l \in Int
<1>20. DayOfMonth <= MonthSeen => b = 0
  BY ONLY <1>10, <1>17, SMT, D \in Nat \ {0}
<1> QED BY ONLY <1>3, <1>10, <1>11, <1>13, <1>17, <1>19, <1>20, SMT, ms \in Int, l \in Int

(* The tstart of a header is the time of its packet, but for the           *)
(* milliseconds and the centuries lost in the years 2000 to 2009, until    *)
(* the month ends that time_calculate takes for the present one, and from  *)
(* then on off by the difference between two months (sys_trig.py,          *)
(* time_calculate, UTCtoJD and WriteHeader together).                      *)
THEOREM TstartIsExplained == StampSpec => []TstartExplained
<1>1. StampInit => StampInv
  BY StampStart
<1>2. StampInv /\ [StampNext]_stamp_vars => StampInv'
  BY StampStep
<1>3. StampInv => TstartExplained
  BY TstartIs, RunAssumption
<1> QED BY <1>1, <1>2, <1>3, PTL DEF StampSpec
=============================================================================
