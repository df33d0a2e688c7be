SPECIFICATION BenchSpec

CONSTANTS
  N_SPEC_BUFF = 2
  N_OUTPUT_BLOCKS = 1
  N_BEAM_PER_PACK = 2
  SourceTypes = {0, 1}
  BeamGroups = {1, 2}
  MaxMcnt = 7
  N_SPEC_PER_FILE = 4
  U64 = 1000
  time_interval = 1
  us_per_ms = 2
  us_per_sec = 4
  GpsTimes = {0, 5}
  NFilesInit = {0}
  MaxFailures = 1
  FirstFed = {1}
  MaxChanges = 1
  MaxRestarts = 1
  MaxCleans = 0

INVARIANTS
  FilComplete
  FilesContiguous

CHECK_DEADLOCK FALSE
