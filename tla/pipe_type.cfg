SPECIFICATION PipelineSpec

CONSTANTS
  N_SPEC_BUFF = 2
  N_INPUT_BLOCKS = 2
  N_OUTPUT_BLOCKS = 2
  N_BEAM_PER_PACK = 1
  SourceTypes = {0, 1}
  BeamGroups = {1}
  MaxMcnt = 7
  Word = 64
  CountMod = 64
  FirstMcnts = {0}
  MaxLoss = 3
  LateDelivery = FALSE
  WaitErrors = FALSE
  N_SPEC_PER_FILE = 4
  U64 = 100
  time_interval = 1
  us_per_ms = 2
  us_per_sec = 4
  GpsTimes = {0}
  NFilesInit = {0}
  MaxFailures = 0

INVARIANTS
  ForwardsOriginalData
