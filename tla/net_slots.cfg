SPECIFICATION NetSpec

CONSTANTS
  N_SPEC_BUFF = 4
  N_INPUT_BLOCKS = 2
  N_BEAM_PER_PACK = 2
  SourceTypes = {0}
  BeamGroups = {0}
  MaxMcnt = 17
  Word = 64
  CountMod = 64
  FirstMcnts = {0, 1}
  MaxLoss = 6
  LateDelivery = FALSE
  WaitErrors = FALSE

INVARIANTS
  SlotMatchesCounter

CHECK_DEADLOCK FALSE
