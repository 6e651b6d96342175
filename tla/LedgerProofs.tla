----------------------------- MODULE LedgerProofs -----------------------------
(***************************************************************************)
(* Theorems about Ledger: the rows of an ablation are alike, compared rows *)
(* agree with the baseline of their file, finished rows are kept and an    *)
(* invalid baseline is final, for any configurations, settings, results    *)
(* and number of invocations.                                              *)
(***************************************************************************)
EXTENDS Ledger, TLAPS

-----------------------------------------------------------------------------
(***************************************************************************)
(* Rows.                                                                   *)
(***************************************************************************)
LEMMA Appended ==
  ASSUME NEW S, NEW s \in Seq(S), NEW x \in S
  PROVE  /\ Append(s, x) \in Seq(S) /\ DOMAIN Append(s, x) = DOMAIN s \cup {Len(s) + 1}
         /\ Append(s, x)[Len(s) + 1] = x /\ \A i \in DOMAIN s : Append(s, x)[i] = s[i]
         /\ Len(s) + 1 \notin DOMAIN s /\ Len(Append(s, x)) = Len(s) + 1
         /\ DOMAIN s = 1 .. Len(s) /\ Len(s) \in Nat
OBVIOUS

LEMMA Tails ==
  ASSUME NEW S, NEW s \in Seq(S), s # << >>
  PROVE  /\ Tail(s) \in Seq(S) /\ Len(Tail(s)) = Len(s) - 1 /\ Head(s) = s[1] /\ 1 \in DOMAIN s
         /\ Head(s) \in S /\ DOMAIN Tail(s) = 1 .. (Len(s) - 1) /\ DOMAIN s = 1 .. Len(s)
         /\ \A i \in DOMAIN Tail(s) : Tail(s)[i] = s[i + 1] /\ i + 1 \in DOMAIN s
         /\ Len(s) \in Nat
OBVIOUS

LEMMA PrefixRows ==
  ASSUME NEW S, NEW s \in Seq(S), NEW n \in 0 .. Len(s)
  PROVE  /\ SubSeq(s, 1, n) \in Seq(S) /\ Len(SubSeq(s, 1, n)) = n
         /\ DOMAIN SubSeq(s, 1, n) = 1 .. n /\ DOMAIN s = 1 .. Len(s)
         /\ \A i \in 1 .. n : SubSeq(s, 1, n)[i] = s[i]
OBVIOUS

(* A configuration's row is the last one with its identifier. *)
LEMMA TheRow ==
  ASSUME NEW rows, RowsOK(rows), NEW i \in DOMAIN rows, rows[i].level # 0
  PROVE  /\ Rows(rows, rows[i].level) = {i} /\ Max(Rows(rows, rows[i].level)) = i
         /\ HasRow(rows, rows[i].level) /\ LastRow(rows, rows[i].level) = rows[i]
<1>1. Rows(rows, rows[i].level) = {i}
  BY DEF RowsOK, Rows
<1>2. i \in Nat
  BY DEF RowsOK
<1>3. Max({i}) = i
  BY <1>2 DEF Max
<1> QED BY <1>1, <1>3 DEF HasRow, LastRow

LEMMA RowExists ==
  ASSUME NEW rows, RowsOK(rows), NEW l \in 1 .. 4, HasRow(rows, l)
  PROVE  \E i \in DOMAIN rows : /\ rows[i].level = l /\ LastRow(rows, l) = rows[i]
                                /\ Max(Rows(rows, l)) = i
<1>1. PICK i \in DOMAIN rows : rows[i].level = l
  BY DEF HasRow, Rows
<1> QED BY <1>1, TheRow

LEMMA SettingTypes ==
  ASSUME NEW s \in Settings, NEW l \in 1 .. 4
  PROVE  /\ Command(l, s) # NoCommand
         /\ Command(l, s) \in {Command(k, t) : k \in 1 .. 4, t \in Settings}
         /\ l > 1 => Command(l, s).args = s.args
<1>1. Command(l, s).args = (IF l > 1 THEN s.args ELSE "any") /\ NoCommand.args = Torn
  BY DEF Command, NoCommand
<1>2. (IF l > 1 THEN s.args ELSE "any") # Torn
  BY LedgerAssumption DEF Torn
<1> QED BY <1>1, <1>2

(* Placing a row changes only the row of its configuration. *)
LEMMA PlacedRow ==
  ASSUME RowsOK(run.rows), NEW row \in RowSet, row.level = Current, Current \in 1 .. 4
  PROVE  \E i \in 1 .. (Len(run.rows) + 1) :
           /\ Placed(row) \in Seq(RowSet) /\ Placed(row)[i] = row
           /\ DOMAIN Placed(row) = DOMAIN run.rows \cup {i}
           /\ \A j \in DOMAIN run.rows \ {i} : Placed(row)[j] = run.rows[j]
           /\ \A j \in DOMAIN run.rows \ {i} : run.rows[j].level # Current
           /\ IF HasRow(run.rows, Current)
              THEN i \in DOMAIN run.rows /\ Old = run.rows[i] /\ Old.level = Current
              ELSE i = Len(run.rows) + 1 /\ i \notin DOMAIN run.rows
<1>1. PICK rows : rows = run.rows
  OBVIOUS
<1>2. rows \in Seq(RowSet) /\ RowsOK(rows)
  BY <1>1 DEF RowsOK
<1>3. CASE HasRow(rows, Current)
  <2>1. PICK i \in DOMAIN rows :
          rows[i].level = Current /\ Old = rows[i] /\ Max(Rows(rows, Current)) = i
    BY <1>1, <1>2, <1>3, RowExists DEF Old
  <2>2. Placed(row) = [rows EXCEPT ![i] = row]
    BY <1>1, <1>3, <2>1 DEF Placed
  <2>3. \A j \in DOMAIN rows \ {i} : rows[j].level # Current
    BY <1>2, <2>1 DEF RowsOK
  <2>4. DOMAIN rows = 1 .. Len(rows) /\ Len(rows) \in Nat
    BY <1>2
  <2> QED BY <1>1, <1>2, <1>3, <2>1, <2>2, <2>3, <2>4
<1>4. CASE ~ HasRow(rows, Current)
  <2>1. Placed(row) = Append(rows, row)
    BY <1>1, <1>4 DEF Placed
  <2>2. \A j \in DOMAIN rows : rows[j].level # Current
    BY <1>4 DEF HasRow, Rows
  <2> QED BY <1>1, <1>2, <1>4, <2>1, <2>2, Appended
<1> QED BY <1>1, <1>3, <1>4

(* The rows of a file without a part of its end.                           *)
LEMMA CutRows ==
  ASSUME NEW row \in RowSet, NEW torn \in CutRow(row)
  PROVE  torn \in RowSet /\ ~ Whole(torn) /\ ~ torn.rate /\ torn.level \in {0, row.level}
<1> DEFINE R == {r.tokens : r \in Results}
           P == {s.policy : s \in Settings}
           S == {s.source : s \in Settings}
           C == {Command(l, s) : l \in 1 .. 4, s \in Settings}
<1>1. RowSet = [level : 0 .. 4, status : Statuses \cup {Torn}, result : R \cup {NoResult},
                  rate : BOOLEAN, policy : P \cup {Torn}, source : S \cup {Torn},
                  command : C \cup {NoCommand}]
  BY DEF RowSet
<1> HIDE DEF R, P, S, C
<1> DEFINE t == [row EXCEPT !.command = NoCommand, !.source = Torn, !.rate = FALSE]
           u == [t EXCEPT !.result = NoResult]
           v == [t EXCEPT !.result = NoResult, !.status = Torn, !.policy = Torn, !.level = 0]
<1>2. t \in RowSet /\ t.command = NoCommand /\ t.rate = FALSE /\ t.level = row.level
  BY <1>1
<1>3. torn \in {t, u, v}
  BY DEF CutRow
<1> HIDE DEF t
<1>4. u \in RowSet /\ u.command = NoCommand /\ u.rate = FALSE /\ u.level = row.level
  BY <1>1, <1>2
<1>5. v \in RowSet /\ v.command = NoCommand /\ v.rate = FALSE /\ v.level = 0
  <2> DEFINE w == [t EXCEPT !.result = NoResult, !.status = Torn]
  <2>1. w \in RowSet /\ w.command = NoCommand /\ w.rate = FALSE
    BY <1>1, <1>2
  <2> DEFINE x == [w EXCEPT !.policy = Torn]
  <2>2. v = [x EXCEPT !.level = 0]
    BY <1>1, <1>2
  <2> HIDE DEF w, v
  <2>3. x \in RowSet /\ x.command = NoCommand /\ x.rate = FALSE
    BY <1>1, <2>1
  <2> HIDE DEF x
  <2>4. \A l \in 0 .. 4 : [x EXCEPT !.level = l] \in RowSet
    BY <1>1, <2>3
  <2>5. v \in RowSet
    BY <2>2, <2>4
  <2>6. v.command = NoCommand /\ v.rate = FALSE /\ v.level = 0
    BY <1>1, <2>2, <2>3
  <2> QED BY <2>5, <2>6
<1> HIDE DEF u, v
<1> QED BY <1>2, <1>3, <1>4, <1>5 DEF Whole

-----------------------------------------------------------------------------
(***************************************************************************)
(* Steps.                                                                  *)
(***************************************************************************)
LEMMA RunTypes ==
  ASSUME LedgerTypeOK, run # Nobody, run.todo # << >>
  PROVE  /\ Current \in 1 .. 4 /\ Current = run.todo[1] /\ run.setting \in Settings
         /\ run.todo \in Seq(1 .. 4) /\ run.rows \in Seq(RowSet)
<1>1. run.todo \in Seq(1 .. 4) /\ run.setting \in Settings /\ run.rows \in Seq(RowSet)
  BY DEF LedgerTypeOK, RunSet
<1> QED BY <1>1, Tails DEF Current

(* A truncated file is still in order. *)
LEMMA CutOrder ==
  ASSUME NEW rows, RowsOK(rows), NEW cutRows \in Seq(RowSet),
         \A i \in DOMAIN cutRows :
           /\ i \in DOMAIN rows
           /\ \/ cutRows[i] = rows[i]
              \/ i = Len(cutRows) /\ ~ Whole(cutRows[i]) /\ cutRows[i].level \in {0, rows[i].level}
  PROVE  RowsOK(cutRows) /\ (InOrder(rows) => InOrder(cutRows))
<1>1. \A i \in DOMAIN cutRows : cutRows[i].level # 0 => cutRows[i].level = rows[i].level
  OBVIOUS
<1>2. RowsOK(cutRows)
  BY <1>1 DEF RowsOK
<1>3. ASSUME InOrder(rows) PROVE InOrder(cutRows)
  <2>1. ASSUME NEW p \in ToSet(cutRows), NEW q \in ToSet(cutRows), Whole(p), Whole(q)
        PROVE  Alike(p, q)
    <3>1. p \in ToSet(rows) /\ q \in ToSet(rows)
      BY <2>1 DEF ToSet
    <3> QED BY <1>3, <2>1, <3>1 DEF InOrder
  <2>2. ASSUME NEW i \in DOMAIN cutRows, cutRows[i].level # 0
        PROVE  \E k \in DOMAIN Levels :
                 /\ cutRows[i].level = Levels[k]
                 /\ \A j \in 1 .. (k - 1) : \E h \in 1 .. (i - 1) : cutRows[h].level = Levels[j]
    <3>1. PICK k \in DOMAIN Levels :
            /\ rows[i].level = Levels[k]
            /\ \A j \in 1 .. (k - 1) : \E h \in 1 .. (i - 1) : rows[h].level = Levels[j]
      BY <1>1, <1>3, <2>2 DEF InOrder
    <3>2. \A h \in 1 .. (i - 1) : h \in DOMAIN cutRows /\ h # Len(cutRows) /\ cutRows[h] = rows[h]
      <4>1. PICK n \in Nat, m \in Nat :
              n = Len(cutRows) /\ m = i /\ m <= n /\ DOMAIN cutRows = 1 .. n
        OBVIOUS
      <4>2. \A h \in 1 .. (m - 1) : h \in 1 .. n /\ h # n
        BY <4>1
      <4> QED BY <4>1, <4>2
    <3> QED BY <1>1, <2>2, <3>1, <3>2
  <2> QED BY <2>1, <2>2 DEF InOrder
<1> QED BY <1>2, <1>3

(* The next configuration's turn, when the row of this one is as it should *)
(* be. *)
LEMMA NextTurn ==
  ASSUME LedgerTypeOK, run # Nobody, run.todo # << >>, AblationRun,
         HasRow(run.rows, Current), SameSetup(Old, run.setting),
         run'.rows = run.rows, run'.setting = run.setting, run'.todo = Tail(run.todo)
  PROVE  AblationRun'
<1>1. /\ run.todo \in Seq(1 .. 4) /\ Len(Tail(run.todo)) = Len(run.todo) - 1 /\ Len(run.todo) \in Nat
      /\ Current = run.todo[1] /\ 1 \in DOMAIN run.todo /\ DOMAIN run.todo = 1 .. Len(run.todo)
      /\ DOMAIN Tail(run.todo) = 1 .. (Len(run.todo) - 1)
      /\ \A i \in DOMAIN Tail(run.todo) : Tail(run.todo)[i] = run.todo[i + 1] /\ i + 1 \in DOMAIN run.todo
  BY RunTypes, Tails
<1>2. Passed \in Nat /\ Len(Levels) \in Nat /\ Len(run.todo) # 0
  BY <1>1, LedgerAssumption DEF Passed, AblationRun
<1>3. Passed' = Passed + 1
  <2>1. Passed' = Len(Levels) - (Len(run.todo) - 1) /\ Passed = Len(Levels) - Len(run.todo)
    BY <1>1 DEF Passed
  <2> QED BY <1>1, <1>2, <2>1
<1>4. Current = Levels[Passed + 1]
  BY <1>1, <1>2 DEF AblationRun
<1>5. InOrder(run.rows)'
  BY DEF AblationRun, InOrder
<1>6. \A i \in DOMAIN run'.todo : run'.todo[i] = Levels[Passed' + i]
  <2> TAKE i \in DOMAIN run'.todo
  <2>1. i \in Nat /\ run'.todo[i] = run.todo[i + 1] /\ i + 1 \in DOMAIN run.todo
    BY <1>1
  <2>2. run.todo[i + 1] = Levels[Passed + (i + 1)] /\ Passed + (i + 1) = Passed' + i
    BY <1>2, <1>3, <2>1 DEF AblationRun
  <2> QED BY <2>1, <2>2
<1>7. \A k \in 1 .. Passed' :
        HasRow(run.rows, Levels[k]) /\ SameSetup(LastRow(run.rows, Levels[k]), run.setting)
  BY <1>2, <1>3, <1>4 DEF AblationRun, Old
<1>8. \A k \in 1 .. Passed' :
        HasRow(run'.rows, Levels[k]) /\ SameSetup(LastRow(run'.rows, Levels[k]), run'.setting)
  BY <1>7
<1> QED BY <1>2, <1>3, <1>5, <1>6, <1>8 DEF AblationRun

LEMMA EndStep ==
  ASSUME LedgerInv, run' = Nobody, tool' = tool, cut' \in BOOLEAN,
         ledger' = ledger \/ (RowsOK(ledger') /\ (tool = "ablation" => InOrder(ledger')))
  PROVE  LedgerInv'
BY DEF LedgerInv, LedgerTypeOK, RowsOK, InOrder

LEMMA InvokeStep ==
  ASSUME LedgerInv, NEW s \in Settings, NEW levels \in {Levels} \cup Sweeps, Invoke(s, levels)
  PROVE  LedgerInv'
<1> DEFINE r == [pc |-> "loop", setting |-> s, todo |-> levels, rows |-> ledger,
                 baseline |-> BaselineOf(ledger)]
<1>1. /\ run' = r /\ tool' = tool /\ ledger' = ledger /\ cut' = cut
      /\ tool = "ablation" => levels = Levels
      /\ BaselineAccepted(ledger, s)
  BY DEF Invoke
<1>2. RowsOK(ledger) /\ ledger \in Seq(RowSet) /\ levels \in Seq(1 .. 4)
  BY LedgerAssumption DEF LedgerInv, LedgerTypeOK, RowsOK
<1>3. BaselineOf(ledger) \in {x.tokens : x \in Results} \cup {NoResult}
  <2>1. CASE HasRow(ledger, 1)
    <3>1. PICK i \in DOMAIN ledger : LastRow(ledger, 1) = ledger[i]
      BY <1>2, <2>1, RowExists
    <3>2. ledger[i] \in RowSet
      BY <1>2
    <3> QED BY <2>1, <3>1, <3>2 DEF BaselineOf, RowSet
  <2>2. CASE ~ HasRow(ledger, 1)
    BY <2>2 DEF BaselineOf
  <2> QED BY <2>1, <2>2
<1>4. r \in RunSet /\ r.pc = "loop" /\ r.rows = ledger /\ r.todo = levels
  BY <1>2, <1>3 DEF RunSet
<1> HIDE DEF r
<1>5. LedgerTypeOK'
  BY <1>1, <1>2, <1>4 DEF LedgerInv, LedgerTypeOK
<1>6. ASSUME tool = "ablation" PROVE AblationRun' /\ InOrder(ledger)'
  <2>1. InOrder(ledger)'
    BY <1>1, <1>6 DEF LedgerInv
  <2>2. Passed' = 0 /\ run'.todo = Levels /\ Len(Levels) \in Nat
    BY <1>1, <1>4, <1>6, LedgerAssumption DEF Passed
  <2>3. \A i \in DOMAIN Levels : i = 0 + i
    BY LedgerAssumption
  <2>4. /\ Passed' >= 0
        /\ \A i \in DOMAIN run'.todo : run'.todo[i] = Levels[Passed' + i]
        /\ \A k \in 1 .. Passed' :
             HasRow(run'.rows, Levels[k]) /\ SameSetup(LastRow(run'.rows, Levels[k]), run'.setting)
    BY <2>2, <2>3
  <2>5. InOrder(run.rows)'
    BY <1>1, <1>4, <2>1 DEF InOrder
  <2> QED BY <2>1, <2>4, <2>5 DEF AblationRun
<1>7. ASSUME NEW row \in ToSet(ledger), BadBaseline(row) PROVE FALSE
  <2>1. PICK i \in DOMAIN ledger : row = ledger[i]
    BY DEF ToSet
  <2>2. row.result # NoResult /\ row.level = 1 /\ row.status = "invalid"
    BY <1>2, <1>7, <2>1 DEF RowsOK, BadBaseline
  <2>3. HasRow(ledger, 1) /\ LastRow(ledger, 1) = row
    BY <1>2, <2>1, <2>2, TheRow
  <2> QED BY <1>1, <2>2, <2>3 DEF BaselineAccepted
<1> QED BY <1>1, <1>4, <1>5, <1>6, <1>7 DEF LedgerInv, ToSet

LEMMA SkipStep ==
  ASSUME LedgerInv, Skip
  PROVE  LedgerInv'
<1> DEFINE r == [run EXCEPT !.todo = Tail(@)]
<1>1. /\ run # Nobody /\ run.pc = "loop" /\ run.todo # << >>
      /\ HasRow(run.rows, Current) /\ SameSetup(Old, run.setting)
      /\ run' = r /\ tool' = tool /\ ledger' = ledger /\ cut' = cut
  BY DEF Skip, AtConfig
<1>2. run \in RunSet /\ LedgerTypeOK
  BY <1>1 DEF LedgerInv, LedgerTypeOK
<1>3. /\ r \in RunSet /\ r.pc = "loop" /\ r.rows = run.rows /\ r.setting = run.setting
      /\ r.todo = Tail(run.todo)
  <2>1. Tail(run.todo) \in Seq(1 .. 4)
    BY <1>1, <1>2, RunTypes, Tails
  <2> QED BY <1>1, <1>2, <2>1 DEF RunSet
<1> HIDE DEF r
<1>4. LedgerTypeOK'
  BY <1>1, <1>2, <1>3 DEF LedgerTypeOK
<1>5. tool = "ablation" => AblationRun'
  BY <1>1, <1>2, <1>3, NextTurn DEF LedgerInv
<1> QED BY <1>1, <1>3, <1>4, <1>5 DEF LedgerInv, InOrder, ToSet

LEMMA WrittenStep ==
  ASSUME LedgerInv, Written
  PROVE  LedgerInv'
<1> DEFINE r == [run EXCEPT !.pc = "loop", !.todo = Tail(@)]
<1>1. /\ run # Nobody /\ run.pc = "writing" /\ run.todo # << >> /\ WritingRun
      /\ ledger' = run.rows /\ tool' = tool /\ cut' = cut
      /\ run' = Nobody \/ (~ Stops(Old) /\ run' = r)
  BY DEF Written, LedgerInv, LedgerTypeOK
<1>2. run \in RunSet /\ LedgerTypeOK /\ RowsOK(run.rows)
  BY <1>1 DEF LedgerInv, LedgerTypeOK
<1>3. RowsOK(ledger)' /\ (tool = "ablation" => InOrder(ledger)')
  BY <1>1, <1>2 DEF LedgerInv, AblationRun, InOrder, RowsOK
<1>4. CASE run' = Nobody
  BY <1>1, <1>2, <1>3, <1>4 DEF LedgerInv, LedgerTypeOK
<1>5. CASE ~ Stops(Old) /\ run' = r
  <2>1. /\ r \in RunSet /\ r.pc = "loop" /\ r.rows = run.rows /\ r.setting = run.setting
        /\ r.todo = Tail(run.todo)
    <3>1. Tail(run.todo) \in Seq(1 .. 4)
      BY <1>1, <1>2, RunTypes, Tails
    <3> QED BY <1>2, <3>1 DEF RunSet
  <2> HIDE DEF r
  <2>2. LedgerTypeOK'
    BY <1>1, <1>2, <1>3, <1>5, <2>1 DEF LedgerTypeOK
  <2>3. tool = "ablation" => AblationRun'
    BY <1>1, <1>2, <1>5, <2>1, NextTurn DEF LedgerInv, WritingRun
  <2>4. ASSUME NEW row \in ToSet(run.rows), BadBaseline(row) PROVE FALSE
    <3>1. PICK i \in DOMAIN run.rows : row = run.rows[i]
      BY DEF ToSet
    <3>2. Current = 1 /\ row.level = 1 /\ row.status = "invalid"
      BY <1>1, <2>4 DEF WritingRun, BadBaseline
    <3>3. Old = row
      BY <1>2, <3>1, <3>2, TheRow DEF Old
    <3> QED BY <1>5, <3>2, <3>3 DEF Stops
  <2> QED BY <1>1, <1>3, <1>5, <2>1, <2>2, <2>3, <2>4 DEF LedgerInv, ToSet
<1> QED BY <1>1, <1>4, <1>5

LEMMA CrashWritingStep ==
  ASSUME LedgerInv, CrashWriting
  PROVE  LedgerInv'
<1>1. /\ run # Nobody /\ run.pc = "writing" /\ run' = Nobody /\ tool' = tool /\ cut' = TRUE
  BY DEF CrashWriting
<1>2. PICK rows \in Seq(RowSet) : rows = run.rows /\ RowsOK(rows)
  BY <1>1 DEF LedgerInv, LedgerTypeOK, RowsOK
<1>3. tool = "ablation" => InOrder(rows)
  BY <1>1, <1>2 DEF LedgerInv, AblationRun
<1>4. PICK n \in 0 .. Len(rows) :
        \/ ledger' = SubSeq(rows, 1, n)
        \/ n > 0 /\ \E torn \in CutRow(rows[n]) : ledger' = Append(SubSeq(rows, 1, n - 1), torn)
  BY <1>2 DEF CrashWriting
<1>5. RowsOK(ledger') /\ (tool = "ablation" => InOrder(ledger'))
  <2>1. CASE ledger' = SubSeq(rows, 1, n)
    <3> DEFINE c == SubSeq(rows, 1, n)
    <3>1. c \in Seq(RowSet) /\ \A i \in DOMAIN c : i \in DOMAIN rows /\ c[i] = rows[i]
      BY PrefixRows
    <3>2. ledger' = c
      BY <2>1
    <3> HIDE DEF c
    <3> QED BY <1>2, <1>3, <3>1, <3>2, CutOrder
  <2>2. ASSUME n > 0, NEW torn \in CutRow(rows[n]), ledger' = Append(SubSeq(rows, 1, n - 1), torn)
        PROVE  RowsOK(ledger') /\ (tool = "ablation" => InOrder(ledger'))
    <3>1. /\ n \in DOMAIN rows /\ rows[n] \in RowSet
          /\ torn \in RowSet /\ ~ Whole(torn) /\ torn.level \in {0, rows[n].level}
      BY <2>2, CutRows
    <3>2. PICK m \in 0 .. Len(rows) : m = n - 1 /\ m + 1 = n
      BY <2>2
    <3> DEFINE b == SubSeq(rows, 1, m)
               c == Append(b, torn)
    <3>3. b \in Seq(RowSet) /\ Len(b) = m /\ \A i \in DOMAIN b : i \in DOMAIN rows /\ b[i] = rows[i]
      BY PrefixRows
    <3> HIDE DEF b
    <3>5. /\ c \in Seq(RowSet) /\ Len(c) = n /\ DOMAIN c = DOMAIN b \cup {n}
          /\ c[n] = torn /\ \A i \in DOMAIN b : c[i] = b[i]
      BY <3>1, <3>2, <3>3, Appended
    <3> HIDE DEF c
    <3>4. \A i \in DOMAIN c :
            /\ i \in DOMAIN rows
            /\ \/ c[i] = rows[i]
               \/ i = Len(c) /\ ~ Whole(c[i]) /\ c[i].level \in {0, rows[i].level}
      BY <3>1, <3>3, <3>5
    <3>6. ledger' = c
      BY <2>2, <3>2 DEF b, c
    <3> QED BY <1>2, <1>3, <3>4, <3>5, <3>6, CutOrder
  <2> QED BY <1>4, <2>1, <2>2
<1> QED BY <1>1, <1>5, EndStep

(* A configuration that an ablation runs for the first time comes after    *)
(* all rows of the file. *)
LEMMA AllPassed ==
  ASSUME LedgerTypeOK, run # Nobody, run.todo # << >>, AblationRun, ~ HasRow(run.rows, Current),
         NEW i \in DOMAIN run.rows, run.rows[i].level # 0
  PROVE  SameSetup(run.rows[i], run.setting)
<1>1. PICK rows : rows = run.rows /\ RowsOK(rows)
  BY DEF LedgerTypeOK
<1>2. PICK k \in DOMAIN Levels :
        /\ rows[i].level = Levels[k]
        /\ \A j \in 1 .. (k - 1) : \E h \in 1 .. (i - 1) : rows[h].level = Levels[j]
  BY <1>1 DEF AblationRun, InOrder
<1>3. PICK n \in Nat : n = Passed /\ Current = Levels[n + 1]
  <2>1. Len(run.todo) \in Nat /\ Len(Levels) \in Nat /\ 1 \in DOMAIN run.todo /\ Current = run.todo[1]
    BY RunTypes, Tails, LedgerAssumption
  <2>2. Passed \in Nat
    BY <2>1 DEF AblationRun, Passed
  <2>3. run.todo[1] = Levels[Passed + 1]
    BY <2>1 DEF AblationRun
  <2> QED BY <2>1, <2>2, <2>3
<1>4. i \in Nat /\ \A h \in 1 .. (i - 1) : h \in DOMAIN rows
  BY <1>1 DEF RowsOK
<1>5. \A h \in DOMAIN rows : rows[h].level # Levels[n + 1]
  BY <1>1, <1>3 DEF HasRow, Rows
<1>6. k \in 1 .. n
  <2>1. k \in Nat /\ k >= 1
    BY LedgerAssumption
  <2>2. k # n + 1 /\ ~ (n + 1 \in 1 .. (k - 1))
    BY <1>1, <1>2, <1>4, <1>5
  <2> QED BY <2>1, <2>2
<1>7. SameSetup(LastRow(rows, Levels[k]), run.setting)
  BY <1>1, <1>3, <1>6 DEF AblationRun
<1> QED BY <1>1, <1>2, <1>7, TheRow

(* The row of a benchmark.                                                 *)
LEMMA RecordRows ==
  ASSUME LedgerInv, Runs, NEW row \in RowSet, row.level = Current,
         row.status = "invalid" => row.result # NoResult, SameSetup(row, run.setting)
  PROVE  \E R \in Seq(RowSet) :
           /\ R = Placed(row) /\ RowsOK(R)
           /\ HasRow(R, Current) /\ LastRow(R, Current) = row
           /\ \A p \in ToSet(R) : p = row \/ (p \in ToSet(run.rows) /\ p.level # Current)
           /\ \A p \in ToSet(run.rows) :
                p \in ToSet(R) \/ (HasRow(run.rows, Current) /\ p = Old)
           /\ \A l \in 1 .. 4 : l # Current /\ HasRow(run.rows, l) =>
                HasRow(R, l) /\ LastRow(R, l) = LastRow(run.rows, l)
           /\ \A l \in 1 .. 4 : l # Current /\ ~ HasRow(run.rows, l) => ~ HasRow(R, l)
           /\ tool = "ablation" => InOrder(R)
<1>1. run # Nobody /\ run.pc = "loop" /\ run.todo # << >> /\ LedgerTypeOK
  BY DEF Runs, AtConfig, LedgerInv
<1>2. Current \in 1 .. 4 /\ run.setting \in Settings
  BY <1>1, RunTypes
<1>3. PICK rows \in Seq(RowSet) : rows = run.rows /\ RowsOK(rows)
  BY <1>1 DEF LedgerTypeOK, RowsOK
<1>4. PICK R : R = Placed(row)
  OBVIOUS
<1>5. PICK i \in 1 .. (Len(rows) + 1) :
        /\ R \in Seq(RowSet) /\ R[i] = row
        /\ DOMAIN R = DOMAIN rows \cup {i}
        /\ \A j \in DOMAIN rows \ {i} : R[j] = rows[j]
        /\ \A j \in DOMAIN rows \ {i} : rows[j].level # Current
        /\ IF HasRow(rows, Current)
           THEN i \in DOMAIN rows /\ Old = rows[i] /\ Old.level = Current
           ELSE i = Len(rows) + 1 /\ i \notin DOMAIN rows
  BY <1>2, <1>3, <1>4, PlacedRow
<1>6. Whole(row) /\ row.level # 0
  BY <1>2, SettingTypes DEF SameSetup, Whole
<1>7. RowsOK(R)
  BY <1>3, <1>5, <1>6 DEF RowsOK
<1>8. HasRow(R, Current) /\ LastRow(R, Current) = row
  BY <1>5, <1>6, <1>7, TheRow
<1>9. \A p \in ToSet(R) : p = row \/ (p \in ToSet(rows) /\ p.level # Current)
  BY <1>5 DEF ToSet
<1>10. \A p \in ToSet(rows) : p \in ToSet(R) \/ (HasRow(rows, Current) /\ p = Old)
  BY <1>5 DEF ToSet
<1>11. ASSUME NEW l \in 1 .. 4, l # Current, HasRow(rows, l)
       PROVE  HasRow(R, l) /\ LastRow(R, l) = LastRow(rows, l)
  <2>1. PICK j \in DOMAIN rows : rows[j].level = l /\ LastRow(rows, l) = rows[j]
    BY <1>3, <1>11, RowExists
  <2>2. j \in DOMAIN R /\ R[j] = rows[j]
    BY <1>5, <1>11, <2>1
  <2> QED BY <1>7, <2>1, <2>2, TheRow
<1>12. ASSUME NEW l \in 1 .. 4, l # Current, ~ HasRow(rows, l)
       PROVE  ~ HasRow(R, l)
  BY <1>5, <1>12 DEF HasRow, Rows
<1>13. ASSUME tool = "ablation" PROVE InOrder(R)
  <2>1. AblationRun
    BY <1>1, <1>13 DEF LedgerInv
  <2>2. InOrder(rows)
    BY <1>3, <2>1 DEF AblationRun
  <2>3. ASSUME NEW p \in ToSet(rows), Whole(p) PROVE Alike(p, row) /\ Alike(row, p)
    <3>1. p \in RowSet /\ p.level # 0 /\ \E j \in DOMAIN rows : p = rows[j]
      BY <1>3, <2>3 DEF ToSet, RowsOK
    <3>2. CASE HasRow(rows, Current)
      <4>1. SameSetup(Old, run.setting) /\ Old.level = Current /\ Old \in ToSet(rows)
        BY <1>3, <1>5, <3>2 DEF Runs, ToSet
      <4>2. Whole(Old) /\ Old.command = row.command
        BY <1>2, <4>1, SettingTypes DEF SameSetup, Whole
      <4>3. Alike(p, Old) /\ Alike(Old, p)
        BY <2>2, <2>3, <4>1, <4>2 DEF InOrder
      <4> QED BY <4>1, <4>2, <4>3 DEF Alike, SameSetup
    <3>3. CASE ~ HasRow(rows, Current)
      <4>1. SameSetup(p, run.setting)
        BY <1>1, <1>3, <2>1, <3>1, <3>3, AllPassed
      <4>2. p.level \in 1 .. 4
        BY <3>1 DEF RowSet
      <4>3. p.level > 1 => Command(p.level, run.setting).args = run.setting.args
        BY <1>2, <4>2, SettingTypes
      <4>4. row.level > 1 => Command(row.level, run.setting).args = run.setting.args
        BY <1>2, SettingTypes
      <4> QED BY <4>1, <4>3, <4>4 DEF Alike, SameSetup
    <3> QED BY <3>2, <3>3
  <2>4. Alike(row, row)
    BY DEF Alike
  <2>5. \A p, q \in ToSet(R) : Whole(p) /\ Whole(q) => Alike(p, q)
    BY <1>9, <2>2, <2>3, <2>4 DEF InOrder
  <2>6. PICK n \in Nat : n = Passed /\ Current = Levels[n + 1] /\ n + 1 \in DOMAIN Levels
    <3>1. /\ Len(run.todo) \in Nat /\ Len(Levels) \in Nat /\ Len(run.todo) >= 1
          /\ 1 \in DOMAIN run.todo /\ Current = run.todo[1]
      BY <1>1, RunTypes, Tails, LedgerAssumption
    <3>2. Passed \in Nat /\ Passed + 1 \in 1 .. Len(Levels)
      BY <2>1, <3>1 DEF AblationRun, Passed
    <3>3. run.todo[1] = Levels[Passed + 1]
      BY <2>1, <3>1 DEF AblationRun
    <3> QED BY <3>1, <3>2, <3>3, LedgerAssumption
  <2>7. ASSUME NEW j \in DOMAIN R, R[j].level # 0
        PROVE  \E k \in DOMAIN Levels :
                 /\ R[j].level = Levels[k]
                 /\ \A m \in 1 .. (k - 1) : \E h \in 1 .. (j - 1) : R[h].level = Levels[m]
    <3>1. \A h \in DOMAIN rows : R[h].level = rows[h].level
      BY <1>5
    <3>2. CASE j \in DOMAIN rows
      <4>1. PICK k \in DOMAIN Levels :
              /\ rows[j].level = Levels[k]
              /\ \A m \in 1 .. (k - 1) : \E h \in 1 .. (j - 1) : rows[h].level = Levels[m]
        BY <2>2, <2>7, <3>1, <3>2 DEF InOrder
      <4>2. \A h \in 1 .. (j - 1) : h \in DOMAIN rows
        BY <1>3, <3>2
      <4> QED BY <3>1, <3>2, <4>1, <4>2
    <3>3. CASE j \notin DOMAIN rows
      <4>1. j = i /\ i = Len(rows) + 1 /\ R[j].level = Levels[n + 1]
        BY <1>5, <2>6, <3>3
      <4>2. ASSUME NEW m \in 1 .. ((n + 1) - 1)
            PROVE  \E h \in 1 .. (j - 1) : R[h].level = Levels[m]
        <5>1. m \in 1 .. Passed /\ m \in DOMAIN Levels
          BY <2>6, LedgerAssumption
        <5>2. HasRow(rows, Levels[m]) /\ Levels[m] \in 1 .. 4
          BY <1>3, <2>1, <5>1, LedgerAssumption DEF AblationRun
        <5>3. PICK h \in DOMAIN rows : rows[h].level = Levels[m]
          BY <5>2 DEF HasRow, Rows
        <5>4. h \in 1 .. (j - 1)
          BY <1>3, <4>1
        <5> QED BY <3>1, <5>3, <5>4
      <4> QED BY <2>6, <4>1, <4>2
    <3> QED BY <3>2, <3>3
  <2> QED BY <2>5, <2>7 DEF InOrder
<1> QED BY <1>3, <1>4, <1>5, <1>7, <1>8, <1>9, <1>10, <1>11, <1>12, <1>13

LEMMA RecordStep ==
  ASSUME LedgerInv, Runs, NEW row \in RowSet, row.level = Current,
         row.status = "invalid" => row.result # NoResult, SameSetup(row, run.setting),
         NEW b \in {r.tokens : r \in Results} \cup {NoResult}, Recorded(row, b),
         UNCHANGED <<tool, ledger, cut>>
  PROVE  LedgerInv'
<1>1. run # Nobody /\ run.pc = "loop" /\ run.todo # << >> /\ LedgerTypeOK
  BY DEF Runs, AtConfig, LedgerInv
<1>2. run \in RunSet /\ run.rows = ledger /\ Current \in 1 .. 4
  BY <1>1, RunTypes DEF LedgerTypeOK
<1>3. PICK R \in Seq(RowSet) :
        /\ R = Placed(row) /\ RowsOK(R)
        /\ HasRow(R, Current) /\ LastRow(R, Current) = row
        /\ \A p \in ToSet(R) : p = row \/ (p \in ToSet(run.rows) /\ p.level # Current)
        /\ \A p \in ToSet(run.rows) :
             p \in ToSet(R) \/ (HasRow(run.rows, Current) /\ p = Old)
        /\ \A l \in 1 .. 4 : l # Current /\ HasRow(run.rows, l) =>
             HasRow(R, l) /\ LastRow(R, l) = LastRow(run.rows, l)
        /\ tool = "ablation" => InOrder(R)
  BY RecordRows
<1> DEFINE r == [run EXCEPT !.pc = "writing", !.rows = R, !.baseline = b]
<1>4. run' = r /\ tool' = tool /\ ledger' = ledger /\ cut' = cut
  BY <1>3 DEF Recorded
<1>5. /\ r \in RunSet /\ r.pc = "writing" /\ r.rows = R /\ r.todo = run.todo
      /\ r.setting = run.setting
  <2> DEFINE B == {x.tokens : x \in Results} \cup {NoResult}
  <2>1. RunSet = [pc : {"loop", "writing"}, setting : Settings, todo : Seq(1 .. 4),
                  rows : Seq(RowSet), baseline : B] /\ b \in B
    BY DEF RunSet
  <2> HIDE DEF B
  <2> QED BY <1>2, <2>1
<1> HIDE DEF r
<1>6. LedgerTypeOK'
  BY <1>1, <1>3, <1>4, <1>5 DEF LedgerTypeOK
<1>7. Current' = Current /\ Old' = row /\ Passed' = Passed
  BY <1>3, <1>4, <1>5 DEF Current, Old, Passed
<1>8. ASSUME tool = "ablation" PROVE AblationRun'
  <2>1. AblationRun
    BY <1>1, <1>8 DEF LedgerInv
  <2>2. ASSUME NEW k \in 1 .. Passed
        PROVE  HasRow(R, Levels[k]) /\ SameSetup(LastRow(R, Levels[k]), run.setting)
    <3>1. /\ Len(run.todo) \in Nat /\ Len(Levels) \in Nat /\ Len(run.todo) >= 1
          /\ 1 \in DOMAIN run.todo /\ Current = run.todo[1]
      BY <1>1, RunTypes, Tails, LedgerAssumption
    <3>2. Passed \in Nat /\ Passed + 1 \in 1 .. Len(Levels)
      BY <2>1, <3>1 DEF AblationRun, Passed
    <3>3. Current = Levels[Passed + 1]
      BY <2>1, <3>1 DEF AblationRun
    <3>4. k \in DOMAIN Levels /\ Passed + 1 \in DOMAIN Levels /\ k # Passed + 1
      BY <3>1, <3>2, LedgerAssumption
    <3>5. Levels[k] \in 1 .. 4 /\ Levels[k] # Current
      BY <3>3, <3>4, LedgerAssumption
    <3>6. HasRow(run.rows, Levels[k]) /\ SameSetup(LastRow(run.rows, Levels[k]), run.setting)
      BY <2>1 DEF AblationRun
    <3> QED BY <1>3, <3>5, <3>6
  <2>3. \A k \in 1 .. Passed' :
          HasRow(run'.rows, Levels[k]) /\ SameSetup(LastRow(run'.rows, Levels[k]), run'.setting)
    BY <1>4, <1>5, <1>7, <2>2
  <2>4. InOrder(run.rows)'
    BY <1>3, <1>4, <1>5, <1>8 DEF InOrder
  <2>5. Passed' >= 0 /\ \A i \in DOMAIN run'.todo : run'.todo[i] = Levels[Passed' + i]
    BY <1>4, <1>5, <1>7, <2>1 DEF AblationRun
  <2> QED BY <2>3, <2>4, <2>5 DEF AblationRun
<1>9. WritingRun'
  <2>1. \A p \in WholeRows : p.status = "ok" => p \in ToSet(R)
    <3>1. HasRow(run.rows, Current) => Old.status # "ok"
      BY DEF Runs, Skipped
    <3> QED BY <1>2, <1>3, <3>1 DEF WholeRows
  <2>2. \A p \in ToSet(R) : BadBaseline(p) => Current = 1
    <3>1. \A p \in ToSet(run.rows) : ~ BadBaseline(p)
      BY <1>1, <1>2 DEF LedgerInv
    <3> QED BY <1>3, <3>1 DEF BadBaseline
  <2>3. WholeRows' = WholeRows
    BY <1>4 DEF WholeRows, ToSet
  <2>4. (HasRow(run.rows, Current) /\ SameSetup(Old, run.setting))'
    BY <1>3, <1>4, <1>5, <1>7
  <2>5. \A p \in WholeRows' : p.status = "ok" => p \in ToSet(run'.rows)
    BY <1>4, <1>5, <2>1, <2>3
  <2>6. \A p \in ToSet(run'.rows) : BadBaseline(p) => Current' = 1
    BY <1>4, <1>5, <1>7, <2>2
  <2> QED BY <2>4, <2>5, <2>6 DEF WritingRun
<1> QED BY <1>1, <1>4, <1>5, <1>6, <1>8, <1>9 DEF LedgerInv, InOrder, ToSet

LEMMA NewRows ==
  ASSUME NEW o \in Ended, NEW status \in Statuses, NEW compared \in BOOLEAN,
         Current \in 1 .. 4, run.setting \in Settings
  PROVE  LET row == NewRow(o, status, compared)
         IN /\ row \in RowSet /\ row.level = Current /\ SameSetup(row, run.setting)
            /\ row.status = status /\ row.result = TokensOf(o) /\ row.rate = compared
            /\ TokensOf(o) \in {r.tokens : r \in Results} \cup {NoResult}
            /\ o.result # NoResult => TokensOf(o) # NoResult /\ o.result \in Results
<1> DEFINE R == {r.tokens : r \in Results}
           P == {s.policy : s \in Settings}
           S == {s.source : s \in Settings}
           C == {Command(l, s) : l \in 1 .. 4, s \in Settings}
           row == NewRow(o, status, compared)
<1>1. RowSet = [level : 0 .. 4, status : Statuses \cup {Torn}, result : R \cup {NoResult},
                  rate : BOOLEAN, policy : P \cup {Torn}, source : S \cup {Torn},
                  command : C \cup {NoCommand}]
  BY DEF RowSet
<1>2. o.result \in Results \cup {NoResult}
  BY DEF Ended
<1>3. TokensOf(o) \in R \cup {NoResult}
  BY <1>2 DEF TokensOf
<1>4. o.result # NoResult => TokensOf(o) # NoResult /\ o.result \in Results
  BY <1>2, LedgerAssumption DEF TokensOf
<1>5. /\ run.setting.policy \in P /\ run.setting.source \in S
      /\ Command(Current, run.setting) \in C
  BY SettingTypes
<1>6. row = [level |-> Current, status |-> status, result |-> TokensOf(o), rate |-> compared,
             policy |-> run.setting.policy, source |-> run.setting.source,
             command |-> Command(Current, run.setting)]
  BY DEF NewRow
<1> HIDE DEF R, P, S, C, row
<1>7. row \in RowSet
  BY <1>1, <1>3, <1>5, <1>6
<1>8. /\ row.level = Current /\ row.status = status /\ row.result = TokensOf(o)
      /\ row.rate = compared /\ row.policy = run.setting.policy
      /\ row.source = run.setting.source /\ row.command = Command(Current, run.setting)
  BY <1>6
<1> QED BY <1>3, <1>4, <1>7, <1>8 DEF SameSetup, row, R

LEMMA BenchWithoutResultStep ==
  ASSUME LedgerInv, BenchWithoutResult
  PROVE  LedgerInv'
<1>1. Runs /\ UNCHANGED <<tool, ledger, cut>>
  BY DEF BenchWithoutResult
<1>2. Current \in 1 .. 4 /\ run.setting \in Settings /\ run \in RunSet
  BY <1>1, RunTypes DEF Runs, AtConfig, LedgerInv, LedgerTypeOK
<1>3. PICK o \in Ended :
        o.result = NoResult /\ Recorded(NewRow(o, o.status, FALSE), run.baseline)
  BY DEF BenchWithoutResult
<1>4. o.status \in {"ok", "error", "timeout"}
  BY DEF Ended
<1>5. o.status \in Statuses /\ o.status # "invalid"
  BY <1>4 DEF Statuses
<1>6. PICK row : row = NewRow(o, o.status, FALSE)
  OBVIOUS
<1>7. row \in RowSet /\ row.level = Current /\ SameSetup(row, run.setting) /\ row.status = o.status
  BY <1>2, <1>5, <1>6, NewRows
<1>8. run.baseline \in {x.tokens : x \in Results} \cup {NoResult}
  BY <1>2 DEF RunSet
<1> QED BY <1>1, <1>3, <1>5, <1>6, <1>7, <1>8, RecordStep

LEMMA JudgedIn ==
  ASSUME NEW r \in Results, NEW status \in Statuses
  PROVE  /\ Judged(r, status) \in Statuses
         /\ \A l, q : WithQuality(l, status, q) \in Statuses
BY LedgerAssumption DEF Judged, Calibrated, WithQuality, Quality, Statuses

(* What a benchmark with a result records. *)
LEMMA BenchRow ==
  ASSUME LedgerInv, Bench
  PROVE  \E o \in Ended, status \in Statuses, compared \in BOOLEAN :
           /\ o.result # NoResult
           /\ Recorded(NewRow(o, status, compared),
                       IF Current = 1 THEN TokensOf(o) ELSE run.baseline)
           /\ compared => Current > 1 /\ run.baseline # NoResult
           /\ compared /\ Strict(run.setting) /\ status = "ok" => TokensOf(o) = run.baseline
<1>1. PICK o \in Ended, q \in (IF Strict(run.setting) THEN {"none"} ELSE Evidence) :
        /\ o.result # NoResult
        /\ LET judged == Judged(o.result, o.status)
               compared == Compared(Current, o.result, judged)
               status == IF compared /\ Strict(run.setting) /\ Mismatch(o.result, run.baseline)
                         THEN "invalid" ELSE judged
           IN Recorded(NewRow(o, IF Strict(run.setting) THEN status
                                 ELSE WithQuality(Current, status, q), compared),
                       IF Current = 1 THEN TokensOf(o) ELSE run.baseline)
  BY DEF Bench
<1> DEFINE judged == Judged(o.result, o.status)
           compared == Compared(Current, o.result, judged)
           strict == IF compared /\ Strict(run.setting) /\ Mismatch(o.result, run.baseline)
                     THEN "invalid" ELSE judged
           status == IF Strict(run.setting) THEN strict ELSE WithQuality(Current, strict, q)
<1>2. o.status \in Statuses /\ o.result \in Results
  BY <1>1 DEF Ended, Statuses
<1>3. judged \in Statuses
  BY <1>2, JudgedIn
<1>4. compared \in BOOLEAN /\ (compared => Current > 1 /\ run.baseline # NoResult)
  BY DEF Compared
<1>5. Recorded(NewRow(o, status, compared), IF Current = 1 THEN TokensOf(o) ELSE run.baseline)
  BY <1>1
<1> HIDE DEF judged, compared
<1>6. strict \in Statuses
  BY <1>3 DEF Statuses
<1>7. compared /\ Strict(run.setting) /\ strict = "ok" => TokensOf(o) = run.baseline
  BY <1>1 DEF Mismatch, TokensOf
<1> HIDE DEF strict
<1>8. status \in Statuses
  BY <1>2, <1>6, JudgedIn
<1>9. compared /\ Strict(run.setting) /\ status = "ok" => TokensOf(o) = run.baseline
  BY <1>7
<1> HIDE DEF status
<1> QED BY <1>1, <1>4, <1>5, <1>8, <1>9

LEMMA BenchStep ==
  ASSUME LedgerInv, Bench
  PROVE  LedgerInv'
<1>1. Runs /\ UNCHANGED <<tool, ledger, cut>>
  BY DEF Bench
<1>2. Current \in 1 .. 4 /\ run.setting \in Settings /\ run \in RunSet
  BY <1>1, RunTypes DEF Runs, AtConfig, LedgerInv, LedgerTypeOK
<1>3. PICK o \in Ended, status \in Statuses, compared \in BOOLEAN :
        /\ o.result # NoResult
        /\ Recorded(NewRow(o, status, compared),
                    IF Current = 1 THEN TokensOf(o) ELSE run.baseline)
  BY BenchRow
<1>4. PICK row, b : row = NewRow(o, status, compared)
                    /\ b = (IF Current = 1 THEN TokensOf(o) ELSE run.baseline)
  OBVIOUS
<1>5. /\ row \in RowSet /\ row.level = Current /\ SameSetup(row, run.setting)
      /\ row.result = TokensOf(o) /\ TokensOf(o) # NoResult
      /\ TokensOf(o) \in {x.tokens : x \in Results} \cup {NoResult}
  BY <1>2, <1>3, <1>4, NewRows
<1>6. b \in {x.tokens : x \in Results} \cup {NoResult}
  BY <1>2, <1>4, <1>5 DEF RunSet
<1> QED BY <1>1, <1>3, <1>4, <1>5, <1>6, RecordStep

-----------------------------------------------------------------------------
LEMMA LedgerInitial == LedgerInit => LedgerInv
<1> SUFFICES ASSUME LedgerInit PROVE LedgerInv
  OBVIOUS
<1>1. ledger = << >> /\ run = Nobody /\ cut = FALSE /\ tool \in Tools
  BY DEF LedgerInit
<1>2. ledger \in Seq(RowSet) /\ DOMAIN ledger = {} /\ ToSet(ledger) = {}
  BY <1>1 DEF ToSet
<1> QED BY <1>1, <1>2 DEF LedgerInv, LedgerTypeOK, RowsOK, InOrder

LEMMA LedgerStep ==
  ASSUME LedgerInv, [LedgerNext]_ledgerVars
  PROVE  LedgerInv'
<1>0. cut \in BOOLEAN
  BY DEF LedgerInv, LedgerTypeOK
<1>1. CASE \E s \in Settings, levels \in {Levels} \cup Sweeps : Invoke(s, levels)
  BY <1>1, InvokeStep
<1>2. CASE Differs \/ Finish \/ Crash
  <2>1. run' = Nobody /\ UNCHANGED <<tool, ledger, cut>>
    BY <1>2 DEF Differs, Finish, Crash
  <2> QED BY <1>0, <2>1, EndStep
<1>3. CASE UNCHANGED ledgerVars
  <2>1. UNCHANGED <<tool, ledger, run, cut>>
    BY <1>3 DEF ledgerVars
  <2> QED BY <2>1 DEF LedgerInv, LedgerTypeOK, RowsOK, InOrder, AblationRun, WritingRun,
                      Passed, Current, Old, WholeRows, ToSet
<1> QED BY <1>1, <1>2, <1>3, SkipStep, BenchWithoutResultStep, BenchStep, WrittenStep,
           CrashWritingStep DEF LedgerNext

(* The rows of a file are judged by their results, one for each            *)
(* configuration; those of an ablation are alike and in the order of its   *)
(* levels; and an invocation writes only rows of its own setting, next to  *)
(* every finished row, and none after an invalid baseline.                 *)
THEOREM LedgerInvariance == LedgerSpec => []LedgerInv
<1>1. LedgerInv /\ [LedgerNext]_ledgerVars => LedgerInv'
  BY LedgerStep
<1> QED BY <1>1, LedgerInitial, PTL DEF LedgerSpec

(* The rows of an ablation can be put into one table: one source, one      *)
(* policy and one set of arguments, after any number of invocations and    *)
(* crashes. *)
THEOREM AblationAlike == LedgerSpec => []OneSetting
<1>1. LedgerInv => OneSetting
  BY DEF LedgerInv, InOrder, OneSetting, WholeRows, Alike
<1> QED BY <1>1, LedgerInvariance, PTL

(* No invocation loses or changes an "ok" row, except by a crash while the *)
(* file is written. *)
THEOREM OkRowsStay == LedgerSpec => OkRowsKept
<1>1. LedgerInv /\ [LedgerNext]_ledgerVars
        => [CrashWriting \/ \A row \in WholeRows : row.status = "ok" => row \in ToSet(ledger')]_ledgerVars
  <2> SUFFICES ASSUME LedgerInv, LedgerNext, ~ CrashWriting,
                      NEW row \in WholeRows, row.status = "ok"
               PROVE  row \in ToSet(ledger')
    OBVIOUS
  <2>1. CASE Written
    BY <2>1 DEF Written, LedgerInv, WritingRun
  <2>2. CASE ledger' = ledger
    BY <2>2 DEF WholeRows
  <2> QED BY <2>1, <2>2 DEF LedgerNext, Invoke, Differs, Skip, BenchWithoutResult, Bench,
                            Finish, Crash
<1> QED BY <1>1, LedgerInvariance, PTL DEF LedgerSpec, OkRowsKept

(* Once the baseline in a file is invalid, nothing is added to the file.   *)
THEOREM BadBaselineFinal == LedgerSpec => InvalidBaselineEnds
<1>1. LedgerInv /\ [LedgerNext]_ledgerVars
        => [(\E row \in WholeRows : row.level = 1 /\ row.status = "invalid") =>
              CrashWriting \/ ledger' = ledger]_ledgerVars
  <2> SUFFICES ASSUME LedgerInv, LedgerNext, ~ CrashWriting,
                      NEW row \in WholeRows, row.level = 1, row.status = "invalid"
               PROVE  ledger' = ledger
    OBVIOUS
  <2>1. row \in ToSet(ledger) /\ BadBaseline(row)
    BY DEF WholeRows, BadBaseline
  <2>2. ~ Written
    BY <2>1 DEF LedgerInv, Written
  <2> QED BY <2>2 DEF LedgerNext, Invoke, Differs, Skip, BenchWithoutResult, Bench, Finish, Crash
<1> QED BY <1>1, LedgerInvariance, PTL DEF LedgerSpec, InvalidBaselineEnds

-----------------------------------------------------------------------------
(***************************************************************************)
(* The baseline.                                                           *)
(***************************************************************************)
(* No sweep is asked for the baseline twice.  (sweep_thresholds.py does    *)
(* not exclude that, and would then run a baseline with a result but a     *)
(* status it does not skip again, under rows compared with it.)            *)
BaselineOnce ==
  \A levels \in Sweeps : \A i, j \in DOMAIN levels : levels[i] = 1 /\ levels[j] = 1 => i = j

LEMMA BaselineSame ==
  ASSUME NEW rows, NEW other, HasRow(rows, 1) <=> HasRow(other, 1),
         HasRow(rows, 1) => LastRow(rows, 1) = LastRow(other, 1)
  PROVE  BaselineOf(rows) = BaselineOf(other)
BY DEF BaselineOf

(* A baseline that is run has no result yet. *)
LEMMA NoBaselineYet ==
  ASSUME LedgerInv, BaselineInv, Runs, ~ cut, Current = 1
  PROVE  BaselineOf(run.rows) = NoResult /\ \A p \in ToSet(run.rows) : ~ p.rate
<1>1. run # Nobody /\ run.pc = "loop" /\ run.todo # << >> /\ LedgerTypeOK
  BY DEF Runs, AtConfig, LedgerInv
<1>2. 1 \in ToSet(Ahead)
  <2>1. 1 \in DOMAIN run.todo /\ run.todo[1] = 1
    BY <1>1, RunTypes, Tails
  <2> QED BY <1>1, <2>1 DEF Ahead, ToSet
<1>3. BaselineOf(run.rows) = NoResult
  <2> SUFFICES ASSUME HasRow(run.rows, 1), LastRow(run.rows, 1).result # NoResult PROVE FALSE
    BY DEF BaselineOf
  <2>1. LastRow(run.rows, 1).status = "ok"
    BY <1>1, <1>2 DEF BaselineInv
  <2> QED BY <2>1 DEF Runs, Skipped, Old
<1> QED BY <1>1, <1>3 DEF BaselineInv, ComparedOK

LEMMA RecordChecked ==
  ASSUME LedgerInv, BaselineInv, Runs, NEW row \in RowSet, row.level = Current,
         row.status = "invalid" => row.result # NoResult, SameSetup(row, run.setting),
         row.rate => Current > 1 /\ run.baseline # NoResult,
         row.rate /\ row.status = "ok" /\ row.policy = "strict" => row.result = run.baseline,
         NEW b, Current # 1 => b = run.baseline, Current = 1 /\ ~ cut => b = row.result,
         Recorded(row, b), UNCHANGED <<tool, ledger, cut>>
  PROVE  BaselineInv'
<1> SUFFICES ASSUME ~ cut PROVE BaselineInv'
  BY DEF BaselineInv
<1>1. run # Nobody /\ run.pc = "loop" /\ run.todo # << >> /\ LedgerTypeOK
  BY DEF Runs, AtConfig, LedgerInv
<1>2. /\ run \in RunSet /\ run.todo \in Seq(1 .. 4) /\ Current \in 1 .. 4 /\ run.todo[1] = Current
  BY <1>1, RunTypes DEF LedgerTypeOK
<1>3. PICK R \in Seq(RowSet) :
        /\ R = Placed(row) /\ RowsOK(R)
        /\ HasRow(R, Current) /\ LastRow(R, Current) = row
        /\ \A p \in ToSet(R) : p = row \/ (p \in ToSet(run.rows) /\ p.level # Current)
        /\ \A l \in 1 .. 4 : l # Current /\ HasRow(run.rows, l) =>
             HasRow(R, l) /\ LastRow(R, l) = LastRow(run.rows, l)
        /\ \A l \in 1 .. 4 : l # Current /\ ~ HasRow(run.rows, l) => ~ HasRow(R, l)
  BY RecordRows
<1>4. /\ run' = [run EXCEPT !.pc = "writing", !.rows = R, !.baseline = b]
      /\ tool' = tool /\ ledger' = ledger /\ cut' = cut
  BY <1>3 DEF Recorded
<1>5. /\ run'.pc = "writing" /\ run'.rows = R /\ run'.todo = run.todo /\ run'.baseline = b
      /\ run.baseline = BaselineOf(run.rows)
  BY <1>1, <1>2, <1>4 DEF RunSet, BaselineInv
<1>6. ComparedOK(R) /\ b = BaselineOf(R)
  <2>1. CASE Current = 1
    <3>1. BaselineOf(R) = row.result
      BY <1>3, <2>1 DEF BaselineOf
    <3>2. ~ row.rate
      BY <2>1
    <3>3. \A p \in ToSet(R) : ~ p.rate
      BY <1>3, <2>1, <3>2, NoBaselineYet
    <3> QED BY <2>1, <3>1, <3>3 DEF ComparedOK
  <2>2. CASE Current # 1
    <3>1. BaselineOf(R) = BaselineOf(run.rows)
      <4>1. (1 \in 1 .. 4) /\ 1 # Current
        BY <2>2
      <4>2. HasRow(R, 1) <=> HasRow(run.rows, 1)
        BY <1>3, <4>1
      <4>3. HasRow(R, 1) => LastRow(R, 1) = LastRow(run.rows, 1)
        BY <1>3, <4>1
      <4> QED BY <4>2, <4>3, BaselineSame
    <3>2. ComparedOK(run.rows)
      BY <1>1 DEF BaselineInv
    <3> QED BY <1>3, <1>5, <2>2, <3>1, <3>2 DEF ComparedOK
  <2> QED BY <2>1, <2>2
<1>7. \A i, j \in DOMAIN run.todo : run.todo[i] = 1 /\ run.todo[j] = 1 => i = j
  BY <1>1 DEF BaselineInv
<1>8. ASSUME 1 \in ToSet(Tail(run.todo)), HasRow(R, 1), LastRow(R, 1).result # NoResult
      PROVE  LastRow(R, 1).status = "ok"
  <2>1. PICK i \in DOMAIN Tail(run.todo) : Tail(run.todo)[i] = 1
    BY <1>8 DEF ToSet
  <2>2. i \in 1 .. (Len(run.todo) - 1) /\ run.todo[i + 1] = 1 /\ i + 1 \in DOMAIN run.todo
        /\ 1 \in DOMAIN run.todo /\ Len(run.todo) \in Nat
    BY <1>1, <1>2, <2>1, Tails
  <2>3. i + 1 # 1
    BY <2>2
  <2>4. Current # 1
    BY <1>2, <1>7, <2>2, <2>3
  <2>5. 1 \in ToSet(Ahead)
    BY <1>1, <2>2 DEF Ahead, ToSet
  <2>6. HasRow(run.rows, 1) /\ LastRow(run.rows, 1) = LastRow(R, 1)
    <3>1. (1 \in 1 .. 4) /\ 1 # Current
      BY <2>4
    <3> QED BY <1>3, <1>8, <3>1
  <2> QED BY <1>1, <1>8, <2>5, <2>6 DEF BaselineInv
<1>9. Ahead' = Tail(run.todo)
  BY <1>5 DEF Ahead
<1>10. ComparedOK(ledger)
  BY DEF BaselineInv
<1>11. /\ ComparedOK(run'.rows) /\ run'.baseline = BaselineOf(run'.rows)
       /\ \A i, j \in DOMAIN run'.todo : run'.todo[i] = 1 /\ run'.todo[j] = 1 => i = j
       /\ 1 \in ToSet(Ahead') /\ HasRow(run'.rows, 1) /\ LastRow(run'.rows, 1).result # NoResult =>
            LastRow(run'.rows, 1).status = "ok"
  BY <1>5, <1>6, <1>7, <1>8, <1>9
<1>12. ComparedOK(ledger')
  BY <1>4, <1>10
<1> QED BY <1>11, <1>12 DEF BaselineInv

LEMMA BenchChecked ==
  ASSUME LedgerInv, BaselineInv, Bench \/ BenchWithoutResult
  PROVE  BaselineInv'
<1>1. Runs /\ UNCHANGED <<tool, ledger, cut>>
  BY DEF Bench, BenchWithoutResult
<1>2. Current \in 1 .. 4 /\ run.setting \in Settings /\ run \in RunSet /\ run # Nobody
  BY <1>1, RunTypes DEF Runs, AtConfig, LedgerInv, LedgerTypeOK
<1>3. CASE Bench
  <2>1. PICK o \in Ended, status \in Statuses, compared \in BOOLEAN :
          /\ o.result # NoResult
          /\ Recorded(NewRow(o, status, compared),
                      IF Current = 1 THEN TokensOf(o) ELSE run.baseline)
          /\ compared => Current > 1 /\ run.baseline # NoResult
          /\ compared /\ Strict(run.setting) /\ status = "ok" => TokensOf(o) = run.baseline
    BY <1>3, BenchRow
  <2>2. PICK row, b : row = NewRow(o, status, compared)
                      /\ b = (IF Current = 1 THEN TokensOf(o) ELSE run.baseline)
    OBVIOUS
  <2>3. /\ row \in RowSet /\ row.level = Current /\ SameSetup(row, run.setting)
        /\ row.result = TokensOf(o) /\ TokensOf(o) # NoResult
        /\ row.rate = compared /\ row.status = status
    BY <1>2, <2>1, <2>2, NewRows
  <2>4. row.policy = "strict" => Strict(run.setting)
    BY <2>3 DEF SameSetup, Strict
  <2>5. /\ Recorded(row, b)
        /\ Current # 1 => b = run.baseline
        /\ Current = 1 /\ ~ cut => b = row.result
    BY <2>1, <2>2, <2>3
  <2> QED BY <1>1, <2>1, <2>3, <2>4, <2>5, RecordChecked
<1>4. CASE BenchWithoutResult
  <2>1. PICK o \in Ended :
          o.result = NoResult /\ Recorded(NewRow(o, o.status, FALSE), run.baseline)
    BY <1>4 DEF BenchWithoutResult
  <2>2. o.status \in {"ok", "error", "timeout"}
    BY DEF Ended
  <2>3. o.status \in Statuses /\ o.status # "invalid" /\ TokensOf(o) = NoResult
    BY <2>1, <2>2 DEF Statuses, TokensOf
  <2>4. PICK row, b : row = NewRow(o, o.status, FALSE) /\ b = run.baseline
    OBVIOUS
  <2>5. /\ row \in RowSet /\ row.level = Current /\ SameSetup(row, run.setting)
        /\ row.status = o.status /\ row.result = NoResult /\ ~ row.rate
    BY <1>2, <2>3, <2>4, NewRows
  <2>6. Current = 1 /\ ~ cut => b = row.result
    BY <1>1, <1>2, <2>4, <2>5, NoBaselineYet DEF BaselineInv
  <2> QED BY <1>1, <2>1, <2>3, <2>4, <2>5, <2>6, RecordChecked
<1> QED BY <1>3, <1>4

LEMMA CheckedStep ==
  ASSUME BaselineOnce, LedgerInv, BaselineInv, [LedgerNext]_ledgerVars
  PROVE  BaselineInv'
<1>1. ASSUME NEW s \in Settings, NEW levels \in {Levels} \cup Sweeps, Invoke(s, levels)
      PROVE  BaselineInv'
  <2>1. /\ run' = [pc |-> "loop", setting |-> s, todo |-> levels, rows |-> ledger,
                   baseline |-> BaselineOf(ledger)]
        /\ ledger' = ledger /\ cut' = cut /\ BaselineAccepted(ledger, s)
    BY <1>1 DEF Invoke
  <2>2. \A i, j \in DOMAIN levels : levels[i] = 1 /\ levels[j] = 1 => i = j
    BY LedgerAssumption DEF BaselineOnce
  <2>3. /\ run'.todo = levels /\ run'.rows = ledger /\ run'.baseline = BaselineOf(ledger)
    BY <2>1
  <2>4. \A i, j \in DOMAIN run'.todo : run'.todo[i] = 1 /\ run'.todo[j] = 1 => i = j
    BY <2>2, <2>3
  <2>5. HasRow(run'.rows, 1) /\ LastRow(run'.rows, 1).result # NoResult =>
          LastRow(run'.rows, 1).status = "ok"
    BY <2>1, <2>3 DEF BaselineAccepted
  <2>6. ~ cut => ComparedOK(ledger)
    BY DEF BaselineInv
  <2>7. ~ cut' => ComparedOK(ledger') /\ ComparedOK(run'.rows)
    BY <2>1, <2>3, <2>6
  <2> QED BY <2>3, <2>4, <2>5, <2>7 DEF BaselineInv
<1>2. ASSUME run # Nobody, LedgerTypeOK, run.todo # << >>,
             run'.todo = Tail(run.todo), run'.rows = run.rows, run'.baseline = run.baseline,
             run'.pc = "loop", cut' = cut, ledger' = ledger \/ ledger' = run.rows
      PROVE  BaselineInv'
  <2> SUFFICES ASSUME ~ cut PROVE BaselineInv'
    BY <1>2 DEF BaselineInv
  <2>1. /\ run.todo \in Seq(1 .. 4)
        /\ \A i \in DOMAIN Tail(run.todo) : /\ Tail(run.todo)[i] = run.todo[i + 1]
                                            /\ i + 1 \in DOMAIN run.todo /\ i \in Nat
    BY <1>2, RunTypes, Tails
  <2>2. Ahead' = Tail(run.todo) /\ ToSet(Tail(run.todo)) \subseteq ToSet(Ahead)
    BY <1>2, <2>1 DEF Ahead, ToSet
  <2>3. /\ ComparedOK(ledger) /\ ComparedOK(run.rows) /\ run.baseline = BaselineOf(run.rows)
        /\ \A i, j \in DOMAIN run.todo : run.todo[i] = 1 /\ run.todo[j] = 1 => i = j
        /\ 1 \in ToSet(Ahead) /\ HasRow(run.rows, 1) /\ LastRow(run.rows, 1).result # NoResult =>
             LastRow(run.rows, 1).status = "ok"
    BY <1>2 DEF BaselineInv
  <2>4. \A i, j \in DOMAIN Tail(run.todo) :
          Tail(run.todo)[i] = 1 /\ Tail(run.todo)[j] = 1 => i = j
    <3> TAKE i, j \in DOMAIN Tail(run.todo)
    <3>1. Tail(run.todo)[i] = 1 /\ Tail(run.todo)[j] = 1 => i + 1 = j + 1
      BY <2>1, <2>3
    <3> QED BY <2>1, <3>1
  <2>5. /\ ComparedOK(ledger') /\ ComparedOK(run'.rows) /\ run'.baseline = BaselineOf(run'.rows)
        /\ \A i, j \in DOMAIN run'.todo : run'.todo[i] = 1 /\ run'.todo[j] = 1 => i = j
        /\ 1 \in ToSet(Ahead') /\ HasRow(run'.rows, 1) /\ LastRow(run'.rows, 1).result # NoResult =>
             LastRow(run'.rows, 1).status = "ok"
    BY <1>2, <2>2, <2>3, <2>4
  <2> QED BY <2>5 DEF BaselineInv
<1>3. ASSUME run' = Nobody, cut' = cut, ledger' = ledger \/ (run # Nobody /\ ledger' = run.rows)
      PROVE  BaselineInv'
  <2>1. ~ cut => ComparedOK(ledger')
    BY <1>3 DEF BaselineInv
  <2> QED BY <1>3, <2>1 DEF BaselineInv
<1>4. CASE Skip
  <2>1. /\ run # Nobody /\ run.pc = "loop" /\ run.todo # << >>
        /\ run' = [run EXCEPT !.todo = Tail(@)] /\ ledger' = ledger /\ cut' = cut
    BY <1>4 DEF Skip, AtConfig
  <2>2. run \in RunSet /\ LedgerTypeOK
    BY <2>1 DEF LedgerInv, LedgerTypeOK
  <2> QED BY <1>2, <2>1, <2>2 DEF RunSet
<1>5. CASE Written
  <2>1. /\ run # Nobody /\ run.pc = "writing" /\ ledger' = run.rows /\ cut' = cut
        /\ \/ run' = Nobody
           \/ run' = [run EXCEPT !.pc = "loop", !.todo = Tail(@)]
    BY <1>5 DEF Written
  <2>2. run \in RunSet /\ LedgerTypeOK /\ run.todo # << >>
    BY <2>1 DEF LedgerInv, LedgerTypeOK
  <2>3. CASE run' = Nobody
    BY <1>3, <2>1, <2>3
  <2>4. CASE run' = [run EXCEPT !.pc = "loop", !.todo = Tail(@)]
    <3>1. /\ run'.todo = Tail(run.todo) /\ run'.rows = run.rows
          /\ run'.baseline = run.baseline /\ run'.pc = "loop"
      BY <2>2, <2>4 DEF RunSet
    <3> QED BY <1>2, <2>1, <2>2, <3>1
  <2> QED BY <2>1, <2>3, <2>4
<1>6. CASE Differs \/ Finish \/ Crash
  <2>1. run' = Nobody /\ ledger' = ledger /\ cut' = cut
    BY <1>6 DEF Differs, Finish, Crash
  <2> QED BY <1>3, <2>1
<1>7. CASE CrashWriting
  BY <1>7 DEF CrashWriting, BaselineInv
<1>8. CASE UNCHANGED ledgerVars
  <2>1. UNCHANGED <<tool, ledger, run, cut>>
    BY <1>8 DEF ledgerVars
  <2>2. Ahead' = Ahead
    BY <2>1 DEF Ahead
  <2> QED BY <2>1, <2>2 DEF BaselineInv
<1> QED BY <1>1, <1>4, <1>5, <1>6, <1>7, <1>8, BenchChecked DEF LedgerNext

LEMMA CheckedInitial == LedgerInit => BaselineInv
<1> SUFFICES ASSUME LedgerInit PROVE BaselineInv
  OBVIOUS
<1>1. ledger = << >> /\ run = Nobody
  BY DEF LedgerInit
<1>2. ToSet(ledger) = {}
  BY <1>1 DEF ToSet
<1> QED BY <1>1, <1>2 DEF BaselineInv, ComparedOK

(* If no sweep is asked for its baseline twice, the baseline that rows     *)
(* were compared with stays in their file.                                 *)
THEOREM LedgerChecked ==
  ASSUME BaselineOnce
  PROVE  LedgerSpec => []CheckedInv
<1>1. LedgerInv /\ BaselineInv /\ [LedgerNext]_ledgerVars => BaselineInv'
  BY CheckedStep
<1>2. LedgerSpec => []BaselineInv
  BY <1>1, CheckedInitial, LedgerInvariance, PTL DEF LedgerSpec
<1>3. LedgerInv /\ BaselineInv => CheckedInv
  BY DEF CheckedInv
<1> QED BY <1>2, <1>3, LedgerInvariance, PTL

(* Then an "ok" row that was compared under the strict policy has the      *)
(* outputs of the baseline in its file, after any number of invocations.   *)
THEOREM ExactKept ==
  ASSUME BaselineOnce
  PROVE  LedgerSpec => []ExactWithBaseline
<1>1. CheckedInv => ExactWithBaseline
  <2> SUFFICES ASSUME CheckedInv, ~ cut, NEW p \in WholeRows, NEW q \in WholeRows,
                      p.status = "ok", p.policy = "strict", p.rate, q.level = 1
               PROVE  p.result = q.result
    BY DEF ExactWithBaseline
  <2>1. p \in ToSet(ledger) /\ q \in ToSet(ledger) /\ RowsOK(ledger) /\ ComparedOK(ledger)
    BY DEF WholeRows, CheckedInv, LedgerInv, LedgerTypeOK, BaselineInv
  <2>2. PICK i \in DOMAIN ledger : q = ledger[i]
    BY <2>1 DEF ToSet
  <2>3. HasRow(ledger, 1) /\ LastRow(ledger, 1) = q
    BY <2>1, <2>2, TheRow
  <2> QED BY <2>1, <2>3 DEF ComparedOK, BaselineOf
<1> QED BY <1>1, LedgerChecked, PTL
=============================================================================
