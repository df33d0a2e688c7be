SPECIFICATION DataSpec

CONSTANTS
  Files <- MCFiles
  Nchans = 4
  Shifts <- MCShifts
  Unset = Unset
  MaxCalls = 4

INVARIANTS
  FilDataTypeOK
  DataRight
  AskedIsRead
  MeansOfOwnPol
  ZeroDMRight
  DedispersionConserves
  BoxRight

PROPERTIES
  UndefinedOnlyIf

CHECK_DEADLOCK FALSE
