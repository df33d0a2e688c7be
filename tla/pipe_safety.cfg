SPECIFICATION PipelineSpec

CONSTANTS
  N_SPEC_BUFF = 2
  N_INPUT_BLOCKS = 2
  N_OUTPUT_BLOCKS = 2
  N_BEAM_PER_PACK = 1
  SourceTypes = {0}
  BeamGroups = {1}
  MaxMcnt = 9
  Word = 64
  CountMod = 64
  FirstMcnts = {0}
  MaxLoss = 3
  LateDelivery = FALSE
  WaitErrors = TRUE
  N_SPEC_PER_FILE = 4
  U64 = 100
  time_interval = 1
  us_per_ms = 2
  us_per_sec = 4
  GpsTimes = {0}
  NFilesInit = {0}
  MaxFailures = 0

INVARIANTS
  PipelineTypeOK
  Accounting
  InputWindow
  OutputWindow
  ReadersOwn
  LossFreeExact
  StreamOrdered
  StreamOpenAtWrite

CHECK_DEADLOCK FALSE
