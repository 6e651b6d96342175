SPECIFICATION SchedSpec
CONSTANTS
  Seqs = {"a", "b", "c", "d"}
  Order <- BigLast
  Token = {1, 2}
  Eos = 2
  BlockSize = 2
  GpuBlocks = {g1, g2, g3, g4}
  CpuBlocks = {c1, c2}
  SsdBlocks = {d1}
  Prompt <- BigPrompt
  MaxTokens <- BigMaxTokens
  Block <- MCBlock
  TierOf <- MCTierOf
  CacheTiers <- ThreeTiers
  EnablePrefixCache = TRUE
  NoSeq = "none"
  MaxSeqs = 3
  MaxBatchedTokens = 2
  MaxTransfer <- Unlimited
  HighGpu = 3
  LowGpu = 2
  HighCpu = 1
  LowCpu = 0
  High <- MCHigh
  Low <- MCLow
  TransfersMayFail = TRUE
SYMMETRY BlockSymmetry
INVARIANTS
  SchedInv
  OneHome
  QueuesPlaceBlocks
  BatchExact
  SwapInNeverRaises
  LostOnlyScheduled
CHECK_DEADLOCK FALSE
