SPECIFICATION OrderedSpec
CONSTANTS
  Seqs = {"a", "b", "c", "d"}
  Order <- Four
  Token = {1}
  Eos = 2
  BlockSize = 2
  GpuBlocks = {1, 2, 3, 4, 5, 6}
  CpuBlocks = {7}
  SsdBlocks = {}
  Prompt <- LongPrompt
  MaxTokens <- LongMaxTokens
  Block <- MCBlock
  TierOf <- MCTierOf
  CacheTiers <- TwoTiers
  EnablePrefixCache = FALSE
  NoSeq = "none"
  MaxSeqs = 2
  MaxBatchedTokens = 4
  MaxTransfer <- Unlimited
  HighGpu = 6
  LowGpu = 3
  HighCpu = 1
  LowCpu = 0
  High <- MCHigh
  Low <- MCLow
  TransfersMayFail = FALSE
PROPERTIES
  Served
