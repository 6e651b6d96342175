------------------------------- MODULE Ledger --------------------------------
(***************************************************************************)
(* The ledgers of experiments/run_ablation.py and sweep_thresholds.py: one *)
(* row for each configuration, rewritten after every benchmark, read again *)
(* by later invocations with --resume.                                     *)
(*                                                                         *)
(* A result is what the tools look at in it, a setting what an invocation  *)
(* is given: source stands for the fingerprints of source, model and       *)
(* workload, args for the arguments the benchmarks of levels above 1       *)
(* depend on.  Of the result a row points to it keeps the output tokens,   *)
(* or NoResult; rate says that exact_token_rate was computed.  An          *)
(* invocation that is refused changes nothing and is no step.  "invalid"   *)
(* and the like are the values of the column status.                       *)
(***************************************************************************)
EXTENDS Integers, SequencesExt

CONSTANTS
  Tools,     \* "ablation", "sweep"
  Levels,    \* the configurations of the ablation, in their order
  Sweeps,    \* sequences of configurations a sweep may be asked for
  Settings,  \* records [source, args, policy]
  Results,   \* records [valid, tiers, tokens]
  NoResult,
  Nobody     \* no invocation

Torn == "torn"
ASSUME LedgerAssumption ==
  /\ Tools \subseteq {"ablation", "sweep"}
  /\ Levels \in Seq(1 .. 4) /\ Sweeps \subseteq Seq(1 .. 4)
  /\ \A i, j \in DOMAIN Levels : Levels[i] = Levels[j] => i = j
  /\ \A s \in Settings : s.source # Torn /\ s.args # Torn
  /\ NoResult \notin Results /\ \A r \in Results : r.tokens # NoResult
  /\ \A r \in Results : r.tiers \in {"forbidden", "idle", "used"}

VARIABLES
  tool,
  ledger,   \* the rows of the file
  run,      \* the invocation in progress
  cut       \* a crash hit the file while it was written

ledgerVars == <<tool, ledger, run, cut>>

NoCommand == [args |-> Torn, namespace |-> Torn]
(* A row whose end is lost, from the command on, from the result on, or    *)
(* from within its identifier on. *)
CutRow(row) ==
  LET torn == [row EXCEPT !.command = NoCommand, !.source = Torn, !.rate = FALSE]
  IN {torn, [torn EXCEPT !.result = NoResult],
      [torn EXCEPT !.result = NoResult, !.status = Torn, !.policy = Torn, !.level = 0]}

Strict(s) == s.policy = "strict"
Command(level, s) == [args |-> IF level > 1 THEN s.args ELSE "any",
                      namespace |-> IF level = 4 THEN s.source ELSE "none"]

LedgerInit == tool \in Tools /\ ledger = << >> /\ run = Nobody /\ cut = FALSE

-----------------------------------------------------------------------------
(* Reading the ledger.                                                     *)

(* previous: the last row of each config_id *)
Rows(rows, level) == {i \in DOMAIN rows : rows[i].level = level}
HasRow(rows, level) == Rows(rows, level) # {}
LastRow(rows, level) == rows[Max(Rows(rows, level))]

(* What the row of the GPU-only baseline says to a resumed invocation.     *)
BaselineOf(rows) == IF HasRow(rows, 1) THEN LastRow(rows, 1).result ELSE NoResult
BaselineAccepted(rows, s) ==
  HasRow(rows, 1) =>
    LET row == LastRow(rows, 1)
    IN /\ row.status = "ok" => row.result # NoResult
       /\ row.result # NoResult => row.status = "ok" /\ row.source = s.source

Invoke(s, levels) ==
  /\ run = Nobody
  /\ levels \in (IF tool = "ablation" THEN {Levels} ELSE Sweeps)
  /\ BaselineAccepted(ledger, s)
  /\ tool = "sweep" => BaselineOf(ledger) # NoResult \/ 1 \in ToSet(levels)
  /\ run' = [pc |-> "loop", setting |-> s, todo |-> levels, rows |-> ledger,
             baseline |-> BaselineOf(ledger)]
  /\ UNCHANGED <<tool, ledger, cut>>

-----------------------------------------------------------------------------
(* The loop over the configurations.                                       *)

Current == Head(run.todo)
Old == LastRow(run.rows, Current)
AtConfig == run # Nobody /\ run.pc = "loop" /\ run.todo # << >>

SameSetupARGS(row, s) == row.command = Command(row.level, s)
SameSetup(row, s) ==
  row.command = Command(row.level, s) /\ row.source = s.source /\ row.policy = s.policy
SkippedNEVER(row) == FALSE
Skipped(row) == row.status \in {"ok", "inactive", "quality_not_evaluated", "quality_failed"}

(* "... different run arguments", "... different source" and so on *)
Differs ==
  /\ AtConfig /\ HasRow(run.rows, Current) /\ ~ SameSetup(Old, run.setting)
  /\ run' = Nobody /\ UNCHANGED <<tool, ledger, cut>>

Skip ==
  /\ AtConfig /\ HasRow(run.rows, Current) /\ SameSetup(Old, run.setting) /\ Skipped(Old)
  /\ run' = [run EXCEPT !.todo = Tail(@)] /\ UNCHANGED <<tool, ledger, cut>>

(* How bench.py and, for level 4, clearing the namespace around it ended.  *)
(* A bench.py that exits with 0 has printed the path of its result; one    *)
(* that fails in exiting, or is killed at its timeout, may have, and an    *)
(* error in clearing the namespace turns ok into error.                    *)
Ended == [status : {"ok"}, result : Results]
           \cup [status : {"error", "timeout"}, result : Results \cup {NoResult}]

Calibrated(r, status) ==
  CASE r.tiers = "forbidden" -> "miscalibrated"
    [] r.tiers = "idle" -> "inactive"
    [] r.tiers = "used" -> status
Judged(r, status) == IF ~ r.valid THEN "invalid" ELSE Calibrated(r, status)

(* first_output_mismatch and exact_token_rate; the latter raises for       *)
(* outputs of different lengths. *)
MismatchNEVER(r, b) == FALSE
Mismatch(r, b) == r.tokens # b
Compared(level, r, status) ==
  /\ level > 1 /\ run.baseline # NoResult
  /\ tool = "sweep" => status \notin {"error", "timeout"}
Comparable(r, b) == r.tokens = "short" <=> b = "short"

(* quality_evidence, by the first of its checks that fails; "engine",      *)
(* "baseline" and "report" raise.                                          *)
Evidence == {"missing", "engine", "runtime", "baseline", "setup", "io", "report",
             "unverified", "margin", "none"}
Raises(q) == q \in {"engine", "baseline", "report"}
Quality(level, q) ==
  CASE q \in {"missing", "runtime", "setup"} -> "quality_not_evaluated"
    [] q = "io" -> "quality_failed"
    [] q \in {"unverified", "margin"} /\ level > 1 -> "quality_failed"
    [] OTHER -> "quality_pass"

WithQuality(level, status, q) ==
  IF status \in {"ok", "inactive"} /\ Quality(level, q) # "quality_pass"
  THEN Quality(level, q) ELSE status

(* The new row replaces the old one or goes to the end. *)
PlacedLAST(row) == Append(run.rows, row)
Placed(row) ==
  IF HasRow(run.rows, Current) THEN [run.rows EXCEPT ![Max(Rows(run.rows, Current))] = row]
                               ELSE Append(run.rows, row)

TokensOf(o) == IF o.result = NoResult THEN NoResult ELSE o.result.tokens
NewRow(o, status, compared) ==
  [level |-> Current, status |-> status, result |-> TokensOf(o), rate |-> compared,
   policy |-> run.setting.policy, source |-> run.setting.source,
   command |-> Command(Current, run.setting)]

Runs == AtConfig /\ (HasRow(run.rows, Current) => SameSetup(Old, run.setting) /\ ~ Skipped(Old))
Recorded(row, b) ==
  run' = [run EXCEPT !.pc = "writing", !.rows = Placed(row), !.baseline = b]

BenchWithoutResult ==
  /\ Runs
  /\ \E o \in Ended :
       o.result = NoResult /\ Recorded(NewRow(o, o.status, FALSE), run.baseline)
  /\ UNCHANGED <<tool, ledger, cut>>

Bench ==
  /\ Runs
  /\ \E o \in Ended, q \in IF Strict(run.setting) THEN {"none"} ELSE Evidence :
       /\ o.result # NoResult
       /\ LET judged == Judged(o.result, o.status)
              compared == Compared(Current, o.result, judged)
              status == IF compared /\ Strict(run.setting) /\ Mismatch(o.result, run.baseline)
                        THEN "invalid" ELSE judged
          IN /\ compared => Comparable(o.result, run.baseline)
             /\ Strict(run.setting) \/ ~ Raises(q)
             /\ Recorded(NewRow(o, IF Strict(run.setting) THEN status
                                   ELSE WithQuality(Current, status, q), compared),
                         IF Current = 1 THEN TokensOf(o) ELSE run.baseline)
  /\ UNCHANGED <<tool, ledger, cut>>

(* The file was truncated and is complete again.  An invalid baseline      *)
(* stops the tool, and in a sweep --stop-on-invalid and a timeout without  *)
(* --continue-on-timeout do.                                               *)
StopsLATER(row) == tool = "sweep" /\ row.status = "timeout"
Stops(row) == row.level = 1 /\ row.status = "invalid"
MayStop(row) == tool = "sweep" /\ row.status \in {"invalid", "quality_failed", "timeout"}
Written ==
  /\ run # Nobody /\ run.pc = "writing"
  /\ ledger' = run.rows
  /\ \/ (Stops(Old) \/ MayStop(Old)) /\ run' = Nobody
     \/ /\ ~ Stops(Old)
        /\ run' = [run EXCEPT !.pc = "loop", !.todo = Tail(@)]
  /\ UNCHANGED <<tool, cut>>

Finish ==
  /\ run # Nobody /\ run.pc = "loop" /\ run.todo = << >>
  /\ run' = Nobody /\ UNCHANGED <<tool, ledger, cut>>

(* The process ends at any time: killed, or an error of exact_token_rate,  *)
(* quality_evidence or of reading a result.  Once the file was truncated,  *)
(* a part of the new one is left; that happens once at most (the bound of  *)
(* the model).                                                             *)
Crash ==
  /\ run # Nobody
  /\ run' = Nobody /\ UNCHANGED <<tool, ledger, cut>>

CrashWriting ==
  /\ run # Nobody /\ run.pc = "writing" /\ ~ cut
  /\ \E n \in 0 .. Len(run.rows) :
       \/ ledger' = SubSeq(run.rows, 1, n)
       \/ n > 0 /\ \E torn \in CutRow(run.rows[n]) :
            ledger' = Append(SubSeq(run.rows, 1, n - 1), torn)
  /\ cut' = TRUE /\ run' = Nobody /\ UNCHANGED tool

LedgerNext ==
  \/ \E s \in Settings, levels \in {Levels} \cup Sweeps : Invoke(s, levels)
  \/ Differs \/ Skip \/ BenchWithoutResult \/ Bench \/ Written \/ Finish
  \/ Crash \/ CrashWriting
LedgerSpec == LedgerInit /\ [][LedgerNext]_ledgerVars

-----------------------------------------------------------------------------
Statuses == {"ok", "error", "timeout", "invalid", "miscalibrated", "inactive",
             "quality_not_evaluated", "quality_failed"}
Whole(row) == row.command # NoCommand
WholeRows == {row \in ToSet(ledger) : Whole(row)}

RowSet ==
  [level : 0 .. 4, status : Statuses \cup {Torn},
   result : {r.tokens : r \in Results} \cup {NoResult}, rate : BOOLEAN,
   policy : {s.policy : s \in Settings} \cup {Torn},
   source : {s.source : s \in Settings} \cup {Torn},
   command : {Command(l, s) : l \in 1 .. 4, s \in Settings} \cup {NoCommand}]
RunSet ==
  [pc : {"loop", "writing"}, setting : Settings, todo : Seq(1 .. 4), rows : Seq(RowSet),
   baseline : {r.tokens : r \in Results} \cup {NoResult}]

(* A configuration has one row, and a row is judged by its result.         *)
RowsOK(rows) ==
  /\ rows \in Seq(RowSet)
  /\ \A i, j \in DOMAIN rows :
       rows[i].level = rows[j].level /\ rows[i].level # 0 => i = j
  /\ \A i \in DOMAIN rows : Whole(rows[i]) =>
       /\ rows[i].level # 0
       /\ rows[i].status = "invalid" => rows[i].result # NoResult

(* What an invocation has in memory is what the file has whenever it is    *)
(* not writing. *)
LedgerTypeOK ==
  /\ tool \in Tools /\ cut \in BOOLEAN /\ RowsOK(ledger)
  /\ run # Nobody =>
       /\ run \in RunSet /\ RowsOK(run.rows)
       /\ run.pc = "loop" => run.rows = ledger
       /\ run.pc = "writing" => run.todo # << >>

(* The rows of an ablation can be put into one table: all of them come     *)
(* from one source and policy and, where they depend on them, from one set *)
(* of arguments, however often the tool was interrupted and started again  *)
(* with something else.                                                    *)
OneSetting ==
  tool = "ablation" =>
    \A p, q \in WholeRows :
      /\ p.source = q.source /\ p.policy = q.policy
      /\ p.level > 1 /\ q.level > 1 => p.command.args = q.command.args

(* A row under the strict policy whose outputs were compared and that is   *)
(* "ok" has the outputs of the baseline in the same file, also after       *)
(* restarts: the baseline is not exchanged under rows compared with it.    *)
ExactWithBaseline ==
  ~ cut =>
    \A p, q \in WholeRows :
      (p.status = "ok" /\ p.policy = "strict" /\ p.rate /\ q.level = 1) =>
        p.result = q.result

(* An "ok" row is neither lost nor changed by any later invocation, except *)
(* by a crash while the file is written.                                   *)
OkRowsKept ==
  [][CrashWriting \/ \A row \in WholeRows : row.status = "ok" => row \in ToSet(ledger')]_ledgerVars

(* Once the baseline is invalid nothing is added to its file.              *)
InvalidBaselineEnds ==
  [][(\E row \in WholeRows : row.level = 1 /\ row.status = "invalid") =>
      CrashWriting \/ ledger' = ledger]_ledgerVars

(* With the strict policy an "ok" row of a file with a valid baseline was  *)
(* compared with a baseline.                                               *)
OkMeansCompared ==
  (~ cut /\ \E q \in WholeRows : q.level = 1 /\ q.status = "ok") =>
    \A p \in WholeRows :
      (p.level > 1 /\ p.status = "ok" /\ p.policy = "strict") => p.rate

(* The inductive invariants behind the properties.                         *)

Alike(p, q) ==
  /\ p.source = q.source /\ p.policy = q.policy
  /\ p.level > 1 /\ q.level > 1 => p.command.args = q.command.args

(* The rows of an ablation are alike and were added in the order of the    *)
(* levels. *)
InOrder(rows) ==
  /\ \A p, q \in ToSet(rows) : Whole(p) /\ Whole(q) => Alike(p, q)
  /\ \A i \in DOMAIN rows : rows[i].level # 0 =>
       \E k \in DOMAIN Levels :
         /\ rows[i].level = Levels[k]
         /\ \A j \in 1 .. (k - 1) : \E h \in 1 .. (i - 1) : rows[h].level = Levels[j]

(* What is to do is a rest of the levels, and the rows of those done have  *)
(* the invocation's setting. *)
Passed == Len(Levels) - Len(run.todo)
AblationRun ==
  /\ InOrder(run.rows) /\ Passed >= 0
  /\ \A i \in DOMAIN run.todo : run.todo[i] = Levels[Passed + i]
  /\ \A k \in 1 .. Passed :
       HasRow(run.rows, Levels[k]) /\ SameSetup(LastRow(run.rows, Levels[k]), run.setting)

BadBaseline(row) == Whole(row) /\ row.level = 1 /\ row.status = "invalid"
WritingRun ==
  /\ HasRow(run.rows, Current) /\ SameSetup(Old, run.setting)
  /\ \A row \in WholeRows : row.status = "ok" => row \in ToSet(run.rows)
  /\ \A row \in ToSet(run.rows) : BadBaseline(row) => Current = 1

LedgerInv ==
  /\ LedgerTypeOK
  /\ tool = "ablation" => InOrder(ledger)
  /\ run # Nobody =>
       /\ tool = "ablation" => AblationRun
       /\ \A row \in ToSet(ledger) : ~ BadBaseline(row)
       /\ run.pc = "writing" => WritingRun

(* What was compared was compared with the baseline in the file, which is  *)
(* still to be run only if it has no result yet.                           *)
ComparedOK(rows) ==
  \A p \in ToSet(rows) : p.rate =>
    /\ BaselineOf(rows) # NoResult
    /\ p.status = "ok" /\ p.policy = "strict" => p.result = BaselineOf(rows)
Ahead == IF run.pc = "loop" THEN run.todo ELSE Tail(run.todo)
BaselineInv ==
  ~ cut =>
    /\ ComparedOK(ledger)
    /\ run # Nobody =>
         /\ ComparedOK(run.rows) /\ run.baseline = BaselineOf(run.rows)
         /\ \A i, j \in DOMAIN run.todo : run.todo[i] = 1 /\ run.todo[j] = 1 => i = j
         /\ 1 \in ToSet(Ahead) /\ HasRow(run.rows, 1) /\ LastRow(run.rows, 1).result # NoResult =>
              LastRow(run.rows, 1).status = "ok"
CheckedInv == LedgerInv /\ BaselineInv
=============================================================================
