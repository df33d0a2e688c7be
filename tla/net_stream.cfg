SPECIFICATION NetBenchSpec

CONSTANTS
  N_SPEC_BUFF = 4
  N_INPUT_BLOCKS = 2
  N_BEAM_PER_PACK = 2
  SourceTypes = {0}
  BeamGroups = {0}
  MaxMcnt = 14
  Word = 64
  CountMod = 6
  FirstMcnts = {1}
  MaxLoss = 6
  LateDelivery = TRUE
  WaitErrors = TRUE
  MaxReceived = 9

INVARIANTS
  NetTypeOK
  CurrentBlockFree
  AccountingAcrossWraps

PROPERTIES
  ExitIffLargeGap
  FilledImmutable
  PublishedInOrder

CHECK_DEADLOCK FALSE
