SPECIFICATION Spec
CONSTANTS
  Seqs = {"a", "b", "c"}
  Token = {1, 2}
  Eos = 2
  BlockSize = 2
  GpuBlocks = {g1, g2, g3}
  CpuBlocks = {c1, c2}
  SsdBlocks = {d1}
  Prompt <- ShortPrompt
  MaxTokens <- MCMaxTokens
  Block <- MCBlock
  TierOf <- MCTierOf
  CacheTiers <- ThreeTiers
  EnablePrefixCache = TRUE
  NoSeq = "none"
SYMMETRY BlockSymmetry
INVARIANTS TypeOK PoolPartition TagsAgree TableCoversTokens PlanSound BlockInv RefCountsExact PrefixIndexSound WriteExclusive ViewCorrect
PROPERTIES ImplementsKVView
