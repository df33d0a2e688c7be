SPECIFICATION BenchSpec

CONSTANTS
  N_SPEC_BUFF = 2
  N_OUTPUT_BLOCKS = 2
  N_BEAM_PER_PACK = 2
  SourceTypes = {0}
  BeamGroups = {1}
  MaxMcnt = 13
  N_SPEC_PER_FILE = 4
  U64 = 1000
  time_interval = 1
  us_per_ms = 2
  us_per_sec = 4
  GpsTimes = {0}
  NFilesInit = {0}
  MaxFailures = 0
  FirstFed = {0, 1}
  MaxChanges = 0
  MaxRestarts = 0
  MaxCleans = 0

INVARIANTS
  FilesCounted

CHECK_DEADLOCK FALSE
