----------------------------- MODULE MCScheduler -----------------------------
(* Instances of Scheduler for TLC. *)
EXTENDS Scheduler

CONSTANTS GpuBlocks, CpuBlocks, SsdBlocks, HighGpu, LowGpu, HighCpu, LowCpu

MCBlock == GpuBlocks \cup CpuBlocks \cup SsdBlocks
MCTierOf == [b \in MCBlock |-> IF b \in GpuBlocks THEN "gpu"
                               ELSE IF b \in CpuBlocks THEN "cpu" ELSE "ssd"]
TwoTiers == <<"gpu", "cpu">>
ThreeTiers == <<"gpu", "cpu", "ssd">>
Unlimited == -1
Three == <<"a", "b", "c">>
BigLast == <<"a", "b", "d", "c">>

MCHigh == [t \in Tier |-> IF t = "gpu" THEN HighGpu
                          ELSE IF t = "cpu" THEN HighCpu ELSE Cardinality(SsdBlocks)]
MCLow == [t \in Tier |-> IF t = "gpu" THEN LowGpu ELSE IF t = "cpu" THEN LowCpu ELSE 0]

SmallPrompt == [s \in Seqs |-> IF s = "b" THEN <<2>> ELSE IF s = "a" THEN <<1, 1>> ELSE <<2, 2, 2>>]
(* "c" alone is larger than four blocks, "a" grows past them. *)
BigPrompt == [s \in Seqs |-> IF s = "a" THEN <<1, 1, 1>>
                             ELSE IF s = "b" THEN <<2>>
                             ELSE IF s = "d" THEN <<1, 1, 2>> ELSE [i \in 1 .. 9 |-> 1]]
BigMaxTokens == [s \in Seqs |-> IF s = "a" THEN 7 ELSE 3]

BlockSymmetry == Permutations(GpuBlocks) \cup Permutations(CpuBlocks)
                   \cup Permutations(SsdBlocks)

(* Without a prefix cache it does not matter which free block is popped.   *)
(* The runs about liveness, where symmetry is unsound, number the blocks   *)
(* and pop the first ones in order.                                        *)
Increasing(f) == \A i, j \in DOMAIN f : i < j => f[i] < f[j]
FirstFree ==
  /\ \A b \in free \ free', c \in free \cap free' : TierOf[b] = TierOf[c] => b < c
  /\ Increasing(plan'.dst) /\ \A s \in Seqs : table[s] = << >> => Increasing(table'[s])

OrderedNext == (Engine \/ ResetStats \/ \E s \in Seqs : Arrive(s)) /\ FirstFree
OrderedSpec ==
  SchedInit /\ [][OrderedNext]_allVars /\ WF_allVars(Engine /\ FirstFree)

Four == <<"a", "b", "c", "d">>
LongPrompt == [s \in Seqs |-> [i \in 1 .. CASE s = "a" -> 7 [] s = "d" -> 5 [] OTHER -> 1 |-> 1]]
LongMaxTokens == [s \in Seqs |-> CASE s = "c" -> 8 [] s = "d" -> 6 [] OTHER -> 4]
=============================================================================
