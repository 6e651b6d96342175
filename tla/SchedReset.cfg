SPECIFICATION SchedSpec
CONSTANTS
  Seqs = {"a", "b", "c"}
  Order <- Three
  Token = {1, 2}
  Eos = 2
  BlockSize = 2
  GpuBlocks = {g1, g2, g3}
  CpuBlocks = {c1, c2}
  SsdBlocks = {}
  Prompt <- BigPrompt
  MaxTokens <- BigMaxTokens
  Block <- MCBlock
  TierOf <- MCTierOf
  CacheTiers <- TwoTiers
  EnablePrefixCache = TRUE
  NoSeq = "none"
  MaxSeqs = 2
  MaxBatchedTokens = 4
  MaxTransfer <- Unlimited
  HighGpu = 3
  LowGpu = 2
  HighCpu = 1
  LowCpu = 0
  High <- MCHigh
  Low <- MCLow
  TransfersMayFail = FALSE
SYMMETRY BlockSymmetry
INVARIANTS
  ResetSafe
CHECK_DEADLOCK FALSE
