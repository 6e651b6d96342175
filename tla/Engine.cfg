SPECIFICATION EngineSpec
CONSTANTS
  Configs <- MCConfigs
  MaxPositions = 5
  TokensPerBlock = 3
  BytesPerBlock = 4
  FreeBlocks = {0, 1, 3}
  MaxCalls <- MCMaxCalls
INVARIANTS
  EngineInv
  StartEstablishes
  GraphsCoverBatches
  StaysInStep
PROPERTIES
  StartEnds
  CallReturns
CHECK_DEADLOCK FALSE
