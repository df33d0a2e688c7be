----------------------------- MODULE TimeStamp -----------------------------
(***************************************************************************)
(* The time stamps of the filterbank files: the GPS time sys_trig.py wrote *)
(* when the run was started, the time time_calculate (TL_output_thread.c)  *)
(* derives from it for the counter a file is stamped with, the name made   *)
(* of that time, and the tstart that WriteHeader (filterbank.cpp) makes of *)
(* it for the header.  TL_init.sh runs the script and then the pipeline,   *)
(* whether the boards were ready or not.                                   *)
(*                                                                         *)
(* Julian dates are doubles in the program; here they are exact, and       *)
(* counted in microseconds.                                                *)
(***************************************************************************)
EXTENDS Calendar

CONSTANTS UsecPerMsec,
          T_RSL,              \* microseconds between packets: 150 in the code
          NsecPerUsec,        \* 1000
          NsecPerSample,      \* 4
          SamplesPerFft,      \* 2048
          U64, I32,           \* 2^64 and 2^32
          MaxMcnt,            \* bound on packet counters
          GpsDates,           \* dates a run may be started on: [year, mon, mday]
          GpsUsecs,           \* times of that day, in microseconds
          MaxRuns             \* bound on the number of runs

ASSUME StampAssumption ==
  /\ \A n \in {UsecPerMsec, NsecPerUsec, NsecPerSample, SamplesPerFft, U64} :
       n \in Nat \ {0}
  /\ I32 \in {2 * k : k \in 1 .. I32}
  /\ T_RSL \in Nat /\ MaxMcnt \in Nat /\ MaxMcnt < U64 /\ MaxRuns \in Nat
  /\ GpsUsecs \subseteq 0 .. SecPerDay * MsecPerSec * UsecPerMsec - 1

VARIABLES ts_pc,              \* what the script or the output thread does next
          runs,               \* runs started so far
          started,            \* when the boards sent packet 0 of this run
          gps_file,           \* GPS_File.txt
          GPS_time,           \* its eight fields, as the thread read them
          File_time,          \* filled by time_calculate, read by WriteHeader
          file_mcnt,          \* the counter the current file is stamped with
          tstart,             \* the header's tstart, a Julian date
          trig                \* history: the last start with both boards ready

script_vars == <<runs, started, gps_file, trig>>
stamp_vars == <<ts_pc, script_vars, GPS_time, File_time, file_mcnt, tstart>>

UsecPerSec == MsecPerSec * UsecPerMsec
UsecPerDay == SecPerDay * UsecPerSec

NoTime == [Year |-> 0, Month |-> 0, Day |-> 0, Hour |-> 0, Min |-> 0, Sec |-> 0,
           Msec |-> 0, Usec |-> 0]

-----------------------------------------------------------------------------
(* The calculations.                                                       *)

(* A packet sums whole transforms: what fits in T_RSL, in nanoseconds.     *)
Spacing ==
  (((T_RSL * NsecPerUsec) \div NsecPerSample) \div SamplesPerFft)
     * SamplesPerFft * NsecPerSample

(* uint64_t time_interval: the spacing of packets, cut to microseconds.    *)
time_interval == Spacing \div NsecPerUsec

(* A run is short enough for its microseconds to fit 64 bits and its       *)
(* seconds an int, which is 68 years in the code, and the dates the boards *)
(* send are dates of a century that two digits of the year can tell.       *)
RunFits ==
  /\ UsecPerMsec + MaxMcnt * time_interval <= U64
  /\ SecPerMin + ((UsecPerSec + MaxMcnt * time_interval) \div UsecPerSec) <= I32 \div 2

RealDates == GpsDates \subseteq [year : 2000 .. 2099, mon : 0 .. 11, mday : 1 .. 31]

ASSUME RunAssumption == RunFits /\ RealDates

(* Assignment to an int keeps the low 32 bits.                             *)
Int32(n) == ((n + (I32 \div 2)) % I32) - (I32 \div 2)

(* Mutated form: the milliseconds of the GPS time are not carried over.    *)
SecondsNoCarry(gps, us_Total) ==
  gps.Sec + (us_Total \div UsecPerMsec) \div MsecPerSec

(* SS + (ms + us_Total/1000)/1000                                          *)
Seconds(gps, us_Total) ==
  Int32(gps.Sec + (gps.Msec + us_Total \div UsecPerMsec) \div MsecPerSec)

(* Mutated form: the day is not carried.                                   *)
time_calculateDay(gps, netmcnt) ==
  LET us_Total == gps.Usec + netmcnt * time_interval
      clock == Clock(((gps.Hour * MinPerHour + gps.Min) * SecPerMin
                        + Seconds(gps, us_Total)) % SecPerDay)
  IN  [Year |-> gps.Year, Month |-> gps.Month, Day |-> gps.Day,
       Hour |-> clock.hour, Min |-> clock.min, Sec |-> clock.sec,
       Msec |-> (gps.Msec + us_Total \div UsecPerMsec) % MsecPerSec,
       Usec |-> us_Total % UsecPerMsec]

(* The fields are handed to mktime as they are: tm_year is the full year   *)
(* and tm_mon the month counted from 1, and what mktime makes of them is   *)
(* read back in the same way.                                              *)
time_calculate(gps, netmcnt) ==
  LET us_Total == (gps.Usec + ((netmcnt * time_interval) % U64)) % U64
      tm == mktime(gps.Year, gps.Month, gps.Day, gps.Hour, gps.Min,
                   Seconds(gps, us_Total))
  IN  [Year  |-> tm.date.year,
       Month |-> tm.date.mon,
       Day   |-> tm.date.mday,
       Hour  |-> tm.clock.hour,
       Min   |-> tm.clock.min,
       Sec   |-> tm.clock.sec,
       Msec  |-> (gps.Msec + us_Total \div UsecPerMsec) % MsecPerSec,
       Usec  |-> us_Total % UsecPerMsec]

(* Mutated form: January and February belong to the same year as March.    *)
UTCtoJDNoShift(year, month, day) ==
  day + (153 * (month - 3) + 2) \div 5 + 365 * (year + 4800) + (year + 4800) \div 4
      - (year + 4800) \div 100 + (year + 4800) \div 400 - 32045

UTCtoJD(year, month, day) ==
  LET a == (14 - month) \div 12
      y == year + 4800 - a
      m == month + 12 * a - 3
  IN  day + (153 * m + 2) \div 5 + 365 * y + y \div 4 - y \div 100 + y \div 400 - 32045

(* current_MJD of WriteHeader, in microseconds: milliseconds are left out. *)
current_MJD(t) ==
  (UTCtoJD(t.Year, t.Month, t.Day) - 2400000) * UsecPerDay
    + ((((t.Hour - (HoursPerDay \div 2)) * MinPerHour + t.Min) * SecPerMin) + t.Sec)
        * UsecPerSec
    + t.Usec - (UsecPerDay \div 2)

-----------------------------------------------------------------------------
StampInit ==
  /\ ts_pc = "off"
  /\ runs = 0
  /\ started \in [date : GpsDates, usec : GpsUsecs]
  /\ gps_file = NoTime
  /\ GPS_time = NoTime
  /\ File_time = NoTime
  /\ file_mcnt = 0
  /\ tstart = 0
  /\ trig = started

(* The script writes the file if both boards are ready.                    *)
Ready(adc_valid) == \A board \in {1, 2} : adc_valid[board]

(* The register holds two digits of the year, and the script puts '20' in  *)
(* front of the number they make: 2009 becomes 209.                        *)
FileYear(year) ==
  LET digits == year % 100
  IN  IF digits < 10 THEN 200 + digits ELSE 2000 + digits

(* The registers hold the time of day in binary coded decimals and the     *)
(* nanoseconds of the second; each field becomes a line of the file.  The  *)
(* script reads the first board, and a file it does not write is left as   *)
(* it was.                                                                 *)
Fields(time) ==
  LET clock == Clock(time.usec \div UsecPerSec)
  IN  [Year |-> FileYear(time.date.year), Month |-> time.date.mon + 1, Day |-> time.date.mday,
       Hour |-> clock.hour, Min |-> clock.min, Sec |-> clock.sec,
       Msec |-> (time.usec \div UsecPerMsec) % MsecPerSec,
       Usec |-> time.usec % UsecPerMsec]

sys_trig ==
  /\ ts_pc = "off"
  /\ runs < MaxRuns
  /\ runs' = runs + 1
  /\ IF runs = 0 THEN UNCHANGED started
     ELSE started' \in [date : GpsDates, usec : GpsUsecs]
  /\ \E adc_valid \in [{1, 2} -> BOOLEAN] :
       /\ gps_file' = IF Ready(adc_valid) THEN Fields(started') ELSE gps_file
       /\ trig' = IF adc_valid[1] /\ adc_valid[2] THEN started' ELSE trig
  /\ ts_pc' = "start"
  /\ UNCHANGED <<GPS_time, File_time, file_mcnt, tstart>>

(* The thread reads the file before it does anything else; without a file  *)
(* it dies in fgets.                                                       *)
ReadGPSTime ==
  /\ ts_pc = "start"
  /\ GPS_time' = gps_file
  /\ ts_pc' = IF gps_file = NoTime THEN "dead" ELSE "wait"
  /\ UNCHANGED <<script_vars, File_time, file_mcnt, tstart>>

(* A block starts a file, which is stamped with some counter: that of the  *)
(* second file of a run is smaller than that of the first.                 *)
NameFile ==
  /\ ts_pc = "wait"
  /\ \E netmcnt \in 0 .. MaxMcnt :
       /\ file_mcnt' = netmcnt
       /\ File_time' = time_calculate(GPS_time, netmcnt)
  /\ ts_pc' = "header"
  /\ UNCHANGED <<script_vars, GPS_time, tstart>>

WriteTstart ==
  /\ ts_pc = "header"
  /\ tstart' = current_MJD(File_time)
  /\ ts_pc' = "wait"
  /\ UNCHANGED <<script_vars, GPS_time, File_time, file_mcnt>>

(* The pipeline is killed; the file system stays.                          *)
Stop ==
  /\ ts_pc \in {"wait", "header", "dead"}
  /\ ts_pc' = "off"
  /\ GPS_time' = NoTime
  /\ File_time' = NoTime
  /\ file_mcnt' = 0
  /\ tstart' = 0
  /\ UNCHANGED script_vars

StampNext == sys_trig \/ ReadGPSTime \/ NameFile \/ WriteTstart \/ Stop

StampSpec == StampInit /\ [][StampNext]_stamp_vars

-----------------------------------------------------------------------------
(* Properties.                                                             *)

(* Packet file_mcnt of the run that trig started, in microseconds since    *)
(* the start of the day trig was on: when it was sent, and how far the     *)
(* stamps have fallen behind by then, because time_interval lacks the      *)
(* fraction of a microsecond.                                              *)
TrueElapsed == trig.usec + (file_mcnt * Spacing) \div NsecPerUsec
Lag         == (file_mcnt * (Spacing % NsecPerUsec)) \div NsecPerUsec
Elapsed     == TrueElapsed - Lag

TrueDay == DaysBefore(trig.date.year, trig.date.mon) + trig.date.mday - 1
             + (Elapsed \div UsecPerDay)

(* Modified Julian dates count days from the 17th of November 1858.        *)
TrueMjd == (TrueDay - 678575) * UsecPerDay + (Elapsed % UsecPerDay)

Stamped == File_time # NoTime

(* However many carries it takes from the microsecond up, the time of day  *)
(* in File_time, and in the file's name, is behind the time of day its     *)
(* packet was sent at by exactly the fraction of a microsecond per packet  *)
(* that time_interval lacks (0.456 in the code: over four minutes a day),  *)
(* also past midnight and past the end of a month or a year, counted from  *)
(* the last start at which both boards were ready: no file carries a time  *)
(* the boards did not vouch for.                                           *)
TimeOfDayExact ==
  Stamped =>
    (((File_time.Hour * MinPerHour + File_time.Min) * SecPerMin + File_time.Sec)
       * MsecPerSec + File_time.Msec) * UsecPerMsec + File_time.Usec
    = (TrueElapsed - Lag) % UsecPerDay

(* The month mktime sees is the one after the month meant, in the year     *)
(* 1900 after the one in the file.                                         *)
YearRead  == FileYear(trig.date.year)
MonthSeen == MonthLength(YearRead + 1900 + (trig.date.mon + 1) \div 12,
                         (trig.date.mon + 1) % 12)
DayOfMonth == trig.date.mday + Elapsed \div UsecPerDay

(* The days between the first of the month and the first of that month in  *)
(* the year in the file: none, but for the years the script cannot write.  *)
DaysMisread == DaysBefore(trig.date.year, trig.date.mon) - DaysBefore(YearRead, trig.date.mon)

(* What the header's tstart really says.  It is short of the MJD by the    *)
(* milliseconds, and by the eighteen centuries that the script loses in    *)
(* the years 2000 to 2009.  The date is right, even where the name says    *)
(* "the 31st of April" or, in December, month 0 of the next year, up to    *)
(* the length of the month mktime sees; from then on it is off by the      *)
(* difference between the lengths of the two months, until mktime's second *)
(* month ends.                                                             *)
TstartExplained ==
  Stamped /\ ts_pc = "wait" /\ DayOfMonth <= MonthSeen + 28 =>
    TrueMjd - tstart =
      File_time.Msec * UsecPerMsec + DaysMisread * UsecPerDay
        + (IF DayOfMonth <= MonthSeen THEN 0
           ELSE (MonthSeen - MonthLength(YearRead, trig.date.mon)) * UsecPerDay)

(* The name is the date from the year down, so that names are listed in    *)
(* the order of time: a file stamped with a later second sorts after       *)
(* the names before it, across all ends of days, months and years.         *)
Before(t, u) ==
  LET Key(x) == <<x.Year, x.Month, x.Day, x.Hour, x.Min, x.Sec>>
  IN  \E i \in 1 .. 6 : /\ \A j \in 1 .. i - 1 : Key(t)[j] = Key(u)[j]
                        /\ Key(t)[i] < Key(u)[i]

NamesSort ==
  [][Stamped /\ File_time' # File_time
       /\ Elapsed' \div UsecPerSec > Elapsed \div UsecPerSec
     => Before(File_time, File_time')]_stamp_vars

(* What WriteHeader's comment says is done, "let's use JD first then       *)
(* convert it into MJD": to the day, tstart is the Modified Julian Date of *)
(* the packet the file is stamped with.                                    *)
TstartIsMjd ==
  Stamped /\ ts_pc = "wait" => tstart \div UsecPerDay = TrueMjd \div UsecPerDay
=============================================================================
