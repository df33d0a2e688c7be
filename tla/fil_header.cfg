SPECIFICATION FilSpec

CONSTANTS
  Users <- MCUsers
  MaxChans = 2
  MaxString = 16
  NameSize = 16
  SampleCounts = {50, 1100}
  I32 = 2048
  MaxFiles = 2
  CutFiles = {1}

INVARIANTS
  FilTypeOK
  TrueIffComplete
  OverrunExplained
  ReadBack
  TableExplained
  SamplesExact

CHECK_DEADLOCK FALSE
