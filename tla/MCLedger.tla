------------------------------ MODULE MCLedger -------------------------------
(* Instances of Ledger for TLC. *)
EXTENDS Ledger

MCLevels == <<1, 2, 4>>
MCSweeps == {<<1, 2>>, <<2, 1>>}
MCSweepsInOrder == {<<1, 2>>}
Setting(source, args, policy) == [source |-> source, args |-> args, policy |-> policy]
MCSettings == {Setting("s", "x", "strict"), Setting("t", "y", "strict"),
               Setting("s", "x", "task-quality")}
Result(v, tiers, tokens) == [valid |-> v, tiers |-> tiers, tokens |-> tokens]
MCResults == {Result(TRUE, "used", "m"), Result(TRUE, "used", "n"), Result(FALSE, "used", "m"),
              Result(TRUE, "forbidden", "m"), Result(TRUE, "idle", "short")}
=============================================================================
