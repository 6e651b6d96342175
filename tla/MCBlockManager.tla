--------------------------- MODULE MCBlockManager ---------------------------
(***************************************************************************)
(* An instance of BlockManager for TLC.  The three requests share their    *)
(* first block of two tokens and differ in the second.                     *)
(***************************************************************************)
EXTENDS BlockManager, TLC

CONSTANTS GpuBlocks, CpuBlocks, SsdBlocks

MCBlock == GpuBlocks \cup CpuBlocks \cup SsdBlocks
MCTierOf == [b \in MCBlock |-> IF b \in GpuBlocks THEN "gpu"
                               ELSE IF b \in CpuBlocks THEN "cpu" ELSE "ssd"]
ThreeTiers == <<"gpu", "cpu", "ssd">>

MCMaxTokens == [s \in Seqs |-> IF s = "a" THEN 2 ELSE 1]
ShortPrompt == [s \in Seqs |-> IF s = "a" THEN <<1, 1, 1>> ELSE <<1, 1, 2>>]

(* Blocks of one tier are interchangeable. *)
BlockSymmetry == Permutations(GpuBlocks) \cup Permutations(CpuBlocks)
                   \cup Permutations(SsdBlocks)
=============================================================================
