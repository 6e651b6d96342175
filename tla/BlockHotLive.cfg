SPECIFICATION OrderedHotSpec
CONSTANTS
  Seqs = {"a", "b", "c"}
  Order <- Three
  Token = {1}
  Eos = 2
  BlockSize = 2
  GpuBlocks = {1, 2, 3, 4}
  CpuBlocks = {7, 8}
  SsdBlocks = {}
  Prompt <- HotPrompt
  MaxTokens <- HotMaxTokens
  Block <- MCBlock
  TierOf <- MCTierOf
  CacheTiers <- TwoTiers
  EnablePrefixCache = FALSE
  NoSeq = "none"
  MaxSeqs = 3
  MaxBatchedTokens = 6
  MaxTransfer <- Unlimited
  HighGpu = 4
  LowGpu = 2
  HighCpu = 1
  LowCpu = 0
  High <- MCHigh
  Low <- MCLow
  TransfersMayFail = FALSE
PROPERTIES
  Served
CHECK_DEADLOCK FALSE
