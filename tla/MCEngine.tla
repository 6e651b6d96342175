------------------------------ MODULE MCEngine -------------------------------
(* An instance of Engine for TLC. *)
EXTENDS Engine

Share(l, h) == [t \in {"gpu", "cpu", "ssd", "remote"} |-> IF h THEN 90 ELSE l]
NoBytes == [cpu |-> 0, ssd |-> 0, remote |-> 0]
Unset == [cpu |-> -1, ssd |-> -1, remote |-> -1]
Plain == [engine |-> 1, tp |-> 1, gpu |-> 2, bytes |-> NoBytes, blocks |-> Unset, transfer |-> -1,
          len |-> 6, seqs |-> 8, eager |-> FALSE, low |-> Share(70, FALSE), high |-> Share(70, TRUE)]

(* One rank: sizes of the tiers, of the transfer budget and of the batch. *)
Tiered == {[Plain EXCEPT !.engine = n, !.bytes = b, !.blocks = k, !.transfer = x] :
             n \in {2, 4}, x \in {-1, 1, 2},
             b \in {NoBytes, [cpu |-> 9, ssd |-> 8, remote |-> 3], [cpu |-> 9, ssd |-> 9, remote |-> 4]},
             k \in {Unset, [cpu |-> 2, ssd |-> 1, remote |-> 1], [cpu |-> 2, ssd |-> 0, remote |-> -1]}}
Batches == {[Plain EXCEPT !.seqs = n, !.eager = e] :
              n \in {1, 3, 8, 9, 16, 20, 32, 511, 512, 600}, e \in BOOLEAN}
Refused == {[Plain EXCEPT !.engine = 2, !.tp = 2], [Plain EXCEPT !.low = Share(90, FALSE)],
            [Plain EXCEPT !.bytes.ssd = -1], [Plain EXCEPT !.blocks.cpu = -2]}
Parallel == {[Plain EXCEPT !.tp = n, !.eager = (n = 3)] : n \in {2, 3}}
MCConfigs == Tiered \cup Batches \cup Refused \cup Parallel

MCMaxCalls == [n \in 1 .. 8 |-> CASE n = 1 -> 2 [] n = 2 -> 4 [] n = 3 -> 2 [] OTHER -> 0]
=============================================================================
