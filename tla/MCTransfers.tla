----------------------------- MODULE MCTransfers -----------------------------
(* Instances of Transfers for TLC. *)
EXTENDS Transfers, TLC

MCPlace == {"g1", "s1"} \cup RemoteIds
MCPlaceTier == [p \in MCPlace |-> CASE p = "g1" -> "gpu" [] p = "s1" -> "ssd" [] OTHER -> "remote"]
TransferSymmetry == Permutations(Conns) \cup Permutations(Data) \cup Permutations(RemoteIds)
=============================================================================
