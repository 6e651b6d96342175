----------------------------- MODULE MCBlockHot -----------------------------
(* Instances of BlockHot for TLC. *)
EXTENDS BlockHot

CONSTANTS GpuBlocks, CpuBlocks, SsdBlocks, HighGpu, LowGpu, HighCpu, LowCpu

MCBlock == GpuBlocks \cup CpuBlocks \cup SsdBlocks
MCTierOf == [b \in MCBlock |-> IF b \in GpuBlocks THEN "gpu"
                               ELSE IF b \in CpuBlocks THEN "cpu" ELSE "ssd"]
TwoTiers == <<"gpu", "cpu">>
ThreeTiers == <<"gpu", "cpu", "ssd">>
Unlimited == -1
Three == <<"a", "b", "c">>
MCHigh == [t \in Tier |-> IF t = "gpu" THEN HighGpu
                          ELSE IF t = "cpu" THEN HighCpu ELSE Cardinality(SsdBlocks)]
MCLow == [t \in Tier |-> IF t = "gpu" THEN LowGpu ELSE IF t = "cpu" THEN LowCpu ELSE 0]
HotPrompt == [s \in Seqs |-> IF s = "b" THEN <<1, 1>> ELSE <<1, 1, 1>>]
HotMaxTokens == [s \in Seqs |-> IF s = "c" THEN 4 ELSE 9]
(* "c" starts with the prompt of "a" and grows beyond the GPU. *)
SharingPrompt == [s \in Seqs |-> IF s = "a" THEN <<1, 1>> ELSE IF s = "b" THEN <<2, 1>>
                                 ELSE [i \in 1 .. 8 |-> 1]]
TenTokens == [s \in Seqs |-> 10 - Len(Prompt[s])]
BlockSymmetry == Permutations(GpuBlocks) \cup Permutations(CpuBlocks) \cup Permutations(SsdBlocks)

Increasing(f) == \A i, j \in DOMAIN f : i < j => f[i] < f[j]
FirstFree ==
  /\ \A b \in free \ free', c \in free \cap free' : TierOf[b] = TierOf[c] => b < c
  /\ Increasing(plan'.dst) /\ \A s \in Seqs : table[s] = << >> => Increasing(table'[s])
OrderedHotNext == (HotEngine \/ ((ResetStats \/ \E s \in Seqs : Arrive(s)) /\ Unaged)) /\ FirstFree
OrderedHotSpec ==
  HotInit /\ [][OrderedHotNext]_hotVars /\ WF_hotVars(HotEngine /\ FirstFree)
=============================================================================
