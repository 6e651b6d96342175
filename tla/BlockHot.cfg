SPECIFICATION HotSpec
CONSTANTS
  Seqs = {"a", "b", "c"}
  Order <- Three
  Token = {1, 2}
  Eos = 2
  BlockSize = 2
  GpuBlocks = {g1, g2, g3, g4}
  CpuBlocks = {c1}
  SsdBlocks = {d1}
  Prompt <- SharingPrompt
  MaxTokens <- TenTokens
  Block <- MCBlock
  TierOf <- MCTierOf
  CacheTiers <- ThreeTiers
  EnablePrefixCache = TRUE
  NoSeq = "none"
  MaxSeqs = 3
  MaxBatchedTokens = 4
  MaxTransfer = 5
  HighGpu = 3
  LowGpu = 2
  HighCpu = 1
  LowCpu = 0
  High <- MCHigh
  Low <- MCLow
  TransfersMayFail = TRUE
SYMMETRY BlockSymmetry
INVARIANTS
  HotIndInv
  HotPlaces
  HotSwapInNeverRaises
CHECK_DEADLOCK FALSE
