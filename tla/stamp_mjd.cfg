SPECIFICATION StampSpec

CONSTANTS
  MsecPerSec = 2
  SecPerMin = 2
  MinPerHour = 2
  HoursPerDay = 2
  UsecPerMsec = 2
  T_RSL = 6
  NsecPerUsec = 4
  NsecPerSample = 1
  SamplesPerFft = 22
  U64 = 1048576
  I32 = 65536
  MaxMcnt = 30
  GpsDates <- MCWrittenDates
  GpsUsecs <- MCGpsUsecs
  MaxRuns = 2

INVARIANTS
  TstartIsMjd

CHECK_DEADLOCK FALSE
