SPECIFICATION OrderedSpec
CONSTANTS
  Seqs = {"a", "b", "c"}
  Order <- Three
  Token = {1, 2}
  Eos = 2
  BlockSize = 2
  GpuBlocks = {1, 2, 3, 4, 5}
  CpuBlocks = {7, 8}
  SsdBlocks = {9, 10}
  Prompt <- SmallPrompt
  MaxTokens <- LongMaxTokens
  Block <- MCBlock
  TierOf <- MCTierOf
  CacheTiers <- ThreeTiers
  EnablePrefixCache = FALSE
  NoSeq = "none"
  MaxSeqs = 2
  MaxBatchedTokens = 16
  MaxTransfer = 2
  HighGpu = 2
  LowGpu = 1
  HighCpu = 1
  LowCpu = 0
  High <- MCHigh
  Low <- MCLow
  TransfersMayFail = FALSE
INVARIANTS
  ActiveBounded
  BudgetRespected
PROPERTIES
  Served
