----------------------------- MODULE EngineProofs ------------------------------
(***************************************************************************)
(* Theorems about Engine for any configurations, ranks and calls: which    *)
(* max_num_seqs the captured CUDA graphs cover, what startup establishes   *)
(* on every rank, and that no worker loses step at a call with             *)
(* collectives.                                                            *)
(***************************************************************************)
EXTENDS Engine, TLAPS

Covered(c) ==
  \A bs \in 1 .. c.seqs : UsesGraph(c, bs) => GraphsFor(c, bs) # {} /\ bs <= Rows(c)

(* A batch of at most 8 uses the graph of size 8, a larger one the next    *)
(* multiple of 16.                                                         *)
LEMMA EnoughGraphs ==
  ASSUME NEW c, c.seqs \in Nat \ {0}, c.eager \in BOOLEAN,
         c.eager \/ Rows(c) <= 8 \/ Rows(c) % 16 = 0
  PROVE  Covered(c)
<1> SUFFICES ASSUME NEW bs \in 1 .. c.seqs, UsesGraph(c, bs)
             PROVE  GraphsFor(c, bs) # {} /\ bs <= Rows(c)
  BY DEF Covered
<1>1. bs <= Rows(c) /\ Rows(c) \in Nat /\ Rows(c) <= 512 /\ ~ c.eager
  BY DEF UsesGraph, Rows
<1>2. CASE bs <= 8
  <2>1. 8 \in GraphsFor(c, bs)
    BY <1>2 DEF GraphsFor, GraphSizes
  <2> QED BY <1>1, <2>1
<1>3. CASE bs > 8
  <2> DEFINE g == 16 * ((bs + 15) \div 16)
  <2>1. Rows(c) % 16 = 0
    BY <1>1, <1>3
  <2>2. g \in Nat /\ g % 16 = 0 /\ g >= bs /\ g >= 16
    BY <1>3
  <2>3. g <= Rows(c)
    <3>1. PICK n \in Nat : Rows(c) = 16 * n
      BY <1>1, <2>1
    <3>2. bs <= 16 * n
      BY <1>1, <3>1
    <3>3. (bs + 15) \div 16 <= n
      BY <3>2
    <3> QED BY <3>1, <3>3
  <2>4. g \in GraphsFor(c, bs)
    BY <2>2, <2>3, <1>1 DEF GraphsFor, GraphSizes
  <2> QED BY <1>1, <2>4
<1> QED BY <1>2, <1>3

(* Otherwise a full batch has no graph.                                    *)
LEMMA FullBatchUncovered ==
  ASSUME NEW c, c.seqs \in Nat \ {0}, c.eager \in BOOLEAN, Covered(c)
  PROVE  c.eager \/ Rows(c) <= 8 \/ Rows(c) % 16 = 0
<1> SUFFICES ASSUME ~ c.eager, Rows(c) > 8
             PROVE  Rows(c) % 16 = 0
  BY DEF Rows
<1>1. Rows(c) \in 1 .. c.seqs /\ Rows(c) <= 512
  BY DEF Rows
<1>2. PICK g \in GraphSizes(c) : g >= Rows(c)
  <2>1. GraphsFor(c, Rows(c)) # {}
    BY <1>1 DEF Covered, UsesGraph
  <2> QED BY <2>1 DEF GraphsFor
<1>3. g \in 16 .. Rows(c) /\ g % 16 = 0
  BY <1>1, <1>2 DEF GraphSizes
<1>4. g = Rows(c)
  BY <1>1, <1>2, <1>3
<1> QED BY <1>3, <1>4

(* The configuration is one of those the engine may be given.              *)
LEMMA ConfigFixed == EngineInit /\ [][EngineNext]_engineVars => [](cfg \in Configs)
<1>1. EngineInit => cfg \in Configs
  BY DEF EngineInit
<1>2. cfg \in Configs /\ [EngineNext]_engineVars => (cfg \in Configs)'
  <2>1. [EngineNext]_engineVars => UNCHANGED cfg
    BY DEF EngineNext, engineVars, Starting, Sending, Meeting, Working, Configure, CreateShm,
           OpenShm, Enter, Leave, LeaveTo, Call, Writes, WriteLength, StartCopy, EndCopy, SetEvent,
           Join, ReadLength, ReadBody, ClearEvent, Gone
  <2> QED BY <2>1
<1> QED BY <1>1, <1>2, PTL

(* GraphsCoverBatches for every set of configurations: capture_cudagraph   *)
(* covers each batch up to max_num_seqs exactly when max_num_seqs is at    *)
(* most 8 or a multiple of 16, as far as 512.                              *)
THEOREM GraphsCovered == EngineSpec => []GraphsCoverBatches
<1>1. cfg \in Configs => GraphsCoverBatches
  <2> SUFFICES ASSUME cfg \in Configs PROVE GraphsCoverBatches
    OBVIOUS
  <2>1. cfg.seqs \in Nat \ {0} /\ cfg.eager \in BOOLEAN
    BY EngineAssumption DEF EngineAssumption
  <2>2. Covered(cfg) <=> (cfg.eager \/ Rows(cfg) <= 8 \/ Rows(cfg) % 16 = 0)
    BY <2>1, EnoughGraphs, FullBatchUncovered
  <2> QED BY <2>2 DEF GraphsCoverBatches, Covered, Gone
<1> QED BY <1>1, ConfigFixed, PTL DEF EngineSpec

-----------------------------------------------------------------------------
(***************************************************************************)
(* Ranks and their smallest number of blocks.                              *)
(***************************************************************************)
LEMMA WorldRanks ==
  ASSUME cfg \in Configs
  PROVE  /\ World \subseteq Ranks /\ Workers \subseteq Ranks \ {0} /\ Workers \subseteq World
         /\ 0 \in Ranks /\ Ranks \subseteq Nat /\ cfg.tp \in Int
         /\ Workers = 1 .. (cfg.tp - 1)
         /\ ValidConfig(cfg) => 0 \in World /\ cfg.tp \in 1 .. 8
<1>1. cfg.tp \in Int /\ \A c \in Configs : c.tp \in Int
  BY EngineAssumption
<1>2. World \subseteq Ranks /\ 0 \in Ranks /\ Ranks \subseteq Nat
  BY <1>1 DEF World, Ranks
<1>3. Workers = 1 .. (cfg.tp - 1) /\ Workers \subseteq World
  BY <1>1 DEF World, Workers
<1>4. ValidConfig(cfg) => 0 \in World /\ cfg.tp \in 1 .. 8
  BY <1>1 DEF ValidConfig, World
<1> QED BY <1>1, <1>2, <1>3, <1>4

LEMMA LeastOf ==
  ASSUME NEW n \in 1 .. 8, NEW f, \A i \in 0 .. (n - 1) : f[i] \in Int
  PROVE  \E r \in 0 .. (n - 1) : \A q \in 0 .. (n - 1) : f[r] <= f[q]
<1> DEFINE Upto(k) == k <= n => \E r \in 0 .. (k - 1) : \A q \in 0 .. (k - 1) : f[r] <= f[q]
<1>1. Upto(1)
  BY DEF Upto
<1>2. ASSUME NEW k \in 1 .. 7, Upto(k) PROVE Upto(k + 1)
  <2> SUFFICES ASSUME k + 1 <= n
               PROVE  \E r \in 0 .. k : \A q \in 0 .. k : f[r] <= f[q]
    OBVIOUS
  <2>1. PICK r \in 0 .. (k - 1) : \A q \in 0 .. (k - 1) : f[r] <= f[q]
    BY <1>2
  <2>2. f[r] \in Int /\ f[k] \in Int
    OBVIOUS
  <2>3. CASE f[r] <= f[k]
    <3>1. \A q \in 0 .. k : f[r] <= f[q]
      BY <2>1, <2>2, <2>3
    <3> QED BY <3>1
  <2>4. CASE f[k] < f[r]
    <3>1. \A q \in 0 .. k : f[k] <= f[q]
      BY <2>1, <2>2, <2>4
    <3> QED BY <3>1
  <2> QED BY <2>2, <2>3, <2>4
<1> HIDE DEF Upto
<1>3. Upto(2) /\ Upto(3) /\ Upto(4) /\ Upto(5) /\ Upto(6) /\ Upto(7) /\ Upto(8)
  <2>2. Upto(2)
    BY <1>1, <1>2
  <2>3. Upto(3)
    BY <1>2, <2>2
  <2>4. Upto(4)
    BY <1>2, <2>3
  <2>5. Upto(5)
    BY <1>2, <2>4
  <2>6. Upto(6)
    BY <1>2, <2>5
  <2>7. Upto(7)
    BY <1>2, <2>6
  <2>8. Upto(8)
    BY <1>2, <2>7
  <2> QED BY <2>2, <2>3, <2>4, <2>5, <2>6, <2>7, <2>8
<1>4. Upto(n)
  BY <1>1, <1>3
<1> QED BY <1>4 DEF Upto

LEMMA AgreedLeast ==
  ASSUME cfg \in Configs, ValidConfig(cfg), kvBlocks \in [Ranks -> Int], NEW r
  PROVE  /\ Agreed(r) \in Int /\ \A q \in World : Agreed(r) <= kvBlocks[q]
         /\ \E q \in World : Agreed(r) = kvBlocks[q]
<1>1. World = 0 .. (cfg.tp - 1) /\ cfg.tp \in 1 .. 8 /\ \A q \in World : kvBlocks[q] \in Int
  BY WorldRanks DEF World
<1>2. PICK p \in World : \A q \in World : kvBlocks[p] <= kvBlocks[q]
  BY <1>1, LeastOf
<1> DEFINE S == {kvBlocks[q] : q \in World}
<1>3. kvBlocks[p] \in S /\ \A y \in S : kvBlocks[p] <= y
  BY <1>2
<1> HIDE DEF S
<1>4. Min(S) \in S /\ \A y \in S : Min(S) <= y
  BY <1>3 DEF Min
<1>5. Agreed(r) = Min(S)
  BY DEF Agreed, S
<1> QED BY <1>1, <1>4, <1>5 DEF S

LEMMA WantedInt ==
  ASSUME cfg \in Configs, NEW n \in FreeBlocks
  PROVE  Wanted(n) \in Int
<1>1. cfg.gpu \in Int /\ n \in Int
  BY EngineAssumption
<1>2. Min({cfg.gpu, n}) \in {cfg.gpu, n}
  <2>1. \E x \in {cfg.gpu, n} : \A y \in {cfg.gpu, n} : x <= y
    BY <1>1
  <2> QED BY <2>1 DEF Min
<1> QED BY <1>1, <1>2 DEF Wanted

-----------------------------------------------------------------------------
(***************************************************************************)
(* The collectives.                                                        *)
(***************************************************************************)
LEMMA Lefts ==
  ASSUME EngineInv, NEW r \in World
  PROVE  /\ r \in Ranks /\ Left(r) \in Int /\ entered[r] \in Nat /\ inside[r] \in BOOLEAN
         /\ Left(r) <= entered[r] /\ entered[r] <= Left(r) + 1
         /\ ~ inside[r] => Left(r) = entered[r]
         /\ inside[r] => entered[r] = Left(r) + 1 /\ at[r] \in Collective
         /\ StartMeetings \in {4, 5}
<1>1. r \in Ranks /\ entered[r] \in Nat /\ inside[r] \in BOOLEAN
  BY WorldRanks DEF EngineInv, EngineTypeOK
<1>2. inside[r] => at[r] \in Collective
  BY <1>1 DEF EngineInv, EngineTypeOK
<1> QED BY <1>1, <1>2 DEF Left, StartMeetings

LEMMA EnterStep ==
  ASSUME EngineInv, NEW r \in World, Enter(r)
  PROVE  EngineInv'
<1>1. /\ at[r] \in Collective /\ ~ inside[r] /\ cfg \in Configs /\ cfg' = cfg /\ at' = at
      /\ shm' = shm /\ event' = event /\ signal' = signal /\ got' = got /\ log' = log
      /\ calls' = calls /\ mode' = mode /\ World' = World /\ Workers' = Workers
  BY DEF Enter, EngineInv, EngineTypeOK, wire, program, World, Workers
<1>2. /\ r \in Ranks /\ entered[r] \in Nat /\ Left(r) = entered[r]
      /\ World \subseteq Ranks /\ Workers \subseteq World /\ Workers \subseteq Ranks \ {0}
  BY <1>1, Lefts, WorldRanks
<1>3. /\ inside' \in [Ranks -> BOOLEAN] /\ inside'[r] = TRUE
      /\ entered' \in [Ranks -> Nat] /\ entered'[r] = entered[r] + 1
      /\ \A q \in Ranks \ {r} : inside'[q] = inside[q] /\ entered'[q] = entered[q]
  BY <1>2 DEF Enter, EngineInv, EngineTypeOK
<1>4. /\ kvBlocks' \in [Ranks -> Int] /\ \A q \in Ranks \ {r} : kvBlocks'[q] = kvBlocks[q]
      /\ at[r] # "reduce" => kvBlocks' = kvBlocks
  <2>1. kvBlocks \in [Ranks -> Int]
    BY DEF EngineInv, EngineTypeOK
  <2> QED BY <1>1, <1>2, <2>1, WantedInt DEF Enter
<1>5. EngineTypeOK'
  BY <1>1, <1>2, <1>3, <1>4 DEF EngineInv, EngineTypeOK
<1>6. /\ Left(r)' = Left(r) /\ \A q \in World \ {r} : Left(q)' = Left(q)
      /\ \A q \in World : entered[q] <= entered'[q] /\ entered[q] \in Nat /\ Left(q) \in Int
  BY <1>2, <1>3, Lefts DEF Left
<1>7. Met'
  <2> SUFFICES ASSUME NEW p \in World, NEW q \in World PROVE Left(p)' <= entered'[q]
    BY <1>1 DEF Met
  <2>1. Left(p)' = Left(p) /\ Left(p) <= entered[q]
    BY <1>6 DEF EngineInv, Met
  <2>2. entered'[q] \in Nat
    BY <1>2, <1>3
  <2> QED BY <1>6, <2>1, <2>2
<1>8. StagesOK'
  <2>1. at[0] = "failed" => entered'[0] <= 3
    BY <1>1, <1>2, <1>3, WorldRanks DEF EngineInv, StagesOK, Collective, Gone
  <2>2. \A q \in World : at[q] = "raised" => entered'[q] = entered[q]
    BY <1>1, <1>2, <1>3 DEF Collective
  <2> QED BY <1>1, <1>6, <2>1, <2>2 DEF EngineInv, StagesOK, InStart, Before, StartMeetings, Gone
<1>9. at[r] = "reduce" => entered[r] = 2
  BY <1>2 DEF EngineInv, StagesOK, InStart, StartPlaces, Before, Gone
<1>10. at[r] # "reduce" /\ entered[r] >= 2 => entered[r] >= 3
  BY <1>1, <1>2, Lefts DEF EngineInv, StagesOK, InStart, StartPlaces, Before, Collective, Gone
<1>11. SizesOK'
  <2>1. ASSUME NEW p \in World, NEW q \in World, Sized(p)'
        PROVE  entered'[q] >= 3 /\ kvBlocks'[p] <= kvBlocks'[q]
    <3>1. Sized(p)
      BY <1>1, <1>2, <1>3, <1>10, <2>1 DEF Sized
    <3>2. entered[q] >= 3 /\ kvBlocks[p] <= kvBlocks[q] /\ entered[r] >= 3
      BY <3>1 DEF EngineInv, SizesOK, Gone
    <3> QED BY <1>2, <1>3, <1>4, <1>6, <1>9, <3>2
  <2>2. /\ \A p \in Ranks : at[p] \notin {"config", "off"} \cup Gone => ValidConfig(cfg)
        /\ at[0] \notin {"config", "init", "warmup", "reduce"} \cup Gone =>
             kvBlocks'[0] > 0 /\ ~ TooSmall(cfg)
    BY <1>1, <1>2, <1>4, WorldRanks DEF EngineInv, SizesOK, Gone
  <2>3. \A p, q \in World' : Sized(p)' => entered'[q] >= 3 /\ kvBlocks'[p] <= kvBlocks'[q]
    BY <1>1, <2>1
  <2> QED BY <1>1, <2>2, <2>3 DEF SizesOK, Gone
<1>12. RankPlacesOK' /\ MessageOK' /\ WorkersOK'
  <2>1. at[0] = "raised" => entered'[0] = entered[0]
    BY <1>1, <1>2, <1>3, WorldRanks DEF Collective
  <2> QED BY <1>1, <2>1
       DEF EngineInv, WorkersOK, RankPlacesOK, MessageOK, Announcing, Meeting0, Started, StartMeetings, Gone
<1>13. NothingYet'
  BY <1>1, <1>2, <1>3, <1>4 DEF EngineInv, NothingYet, Started, Collective, StartMeetings, Gone
<1>14. StepsOK'
  <2> SUFFICES ASSUME Started PROVE \A w \in Workers : (IF InStepSoFar(w) THEN FollowsOK(w) ELSE LostStep(w))'
    BY <1>1 DEF StepsOK, Started, Gone
  <2>1. Announced' = Announced
    BY <1>1, <1>2, <1>3, WorldRanks DEF Announced, Announcing, Meeting0, Meets, Collective, Started, StartPlaces, Gone
  <2>2. ASSUME NEW w \in Workers
        PROVE  (IF InStepSoFar(w) THEN FollowsOK(w) ELSE LostStep(w))'
    <3>1. Due(w)' = Due(w)
      <4>1. w = r => at[w] \in {"run", "exit"}
        <5> SUFFICES ASSUME w = r, at[w] \in {"init", "warmup", "reduce", "capture", "barrier"}
                     PROVE  FALSE
          BY <1>1 DEF Collective
        <5>1. cfg.tp > 1 /\ cfg.tp \in Int /\ 0 \in World
          BY <1>1, <2>2, WorldRanks DEF World
        <5>2. Left(0) >= StartMeetings /\ Left(0) <= entered[w]
          BY <1>2, <5>1 DEF EngineInv, StagesOK, Started, Met, Gone
        <5>3. Left(w) = Before(at[w]) /\ at[w] = "capture" => ~ cfg.eager
          BY <1>2 DEF EngineInv, StagesOK, InStart, StartPlaces, Gone
        <5>4. Before(at[w]) < StartMeetings
          BY <1>2, <5>3 DEF EngineInv, StagesOK, Before, StartMeetings, Gone
        <5> QED BY <1>2, <5>1, <5>2, <5>3, <5>4, Lefts DEF InStart, StartPlaces, EngineInv, StagesOK, Gone
      <4> QED BY <1>1, <1>2, <1>3, <2>2, <4>1 DEF Due
    <3> QED BY <1>1, <2>1, <2>2, <3>1
         DEF EngineInv, StepsOK, InStepSoFar, FollowsOK, LostStep, Told, Owes, Meets, Announcing,
             Meeting0, Next1, Raised
  <2> QED BY <2>2
<1> QED BY <1>5, <1>7, <1>8, <1>11, <1>12, <1>13, <1>14 DEF EngineInv

(* A worker that has not passed the barrier is told of nothing it could    *)
(* miss. *)
LEMMA PastStart ==
  ASSUME EngineInv, Started, NEW w \in Workers
  PROVE  /\ entered[w] >= StartMeetings
         /\ InStart(w) => at[w] = "open" \/ (at[w] = "barrier" /\ inside[w])
<1>1. cfg \in Configs
  BY DEF EngineInv, EngineTypeOK
<1>2. cfg.tp > 1 /\ 0 \in World /\ w \in World /\ w \in Ranks \ {0}
  BY <1>1, WorldRanks DEF World
<1>3. Left(0) >= StartMeetings /\ Left(0) <= entered[w] /\ Left(0) \in Int
  BY <1>2, Lefts DEF EngineInv, StagesOK, Started, Met, Gone
<1>4. entered[w] >= StartMeetings
  BY <1>2, <1>3, Lefts
<1>5. ASSUME InStart(w), at[w] # "open" PROVE at[w] = "barrier" /\ inside[w]
  <2>1. Left(w) = Before(at[w]) /\ (at[w] = "capture" => ~ cfg.eager)
    BY <1>2, <1>5 DEF EngineInv, StagesOK, Gone
  <2>2. at[w] \notin {"config", "create"} /\ at[w] \in StartPlaces
    BY <1>2, <1>5 DEF EngineInv, RankPlacesOK, InStart
  <2>3. at[w] = "off" => entered[w] = 0
    BY <1>2, <2>1, Lefts DEF Before, Collective
  <2> QED BY <1>2, <1>4, <1>5, <2>1, <2>2, <2>3, Lefts DEF Before, StartPlaces, StartMeetings
<1> QED BY <1>4, <1>5

(* What leaving a collective changes. *)
LeaveEffect(r, p) ==
  /\ inside[r] /\ at[r] \in Collective /\ r \in Ranks
  /\ cfg \in Configs /\ cfg' = cfg /\ ValidConfig(cfg)
  /\ World' = World /\ Workers' = Workers /\ World \subseteq Ranks /\ 0 \in World
  /\ Workers \subseteq World /\ Workers \subseteq Ranks \ {0}
  /\ cfg.tp \in Nat /\ (cfg.tp = 1 => Workers = {}) /\ (r # 0 => r \in Workers /\ cfg.tp > 1)
  /\ UNCHANGED <<entered, event, signal, got, log, calls, mode>>
  /\ at' \in [Ranks -> Places] /\ at'[r] = p
  /\ \A q \in Ranks \ {r} : at'[q] = at[q] /\ inside'[q] = inside[q]
  /\ inside' \in [Ranks -> BOOLEAN] /\ inside'[r] = FALSE
  /\ \A q \in World : entered[q] >= entered[r] /\ entered[q] \in Nat
  /\ Left(r)' = entered[r] /\ entered[r] = Left(r) + 1 /\ Left(r) \in Int
  /\ \A q \in World \ {r} : Left(q)' = Left(q)
  /\ at[r] = "reduce" => Left(r) = 2

LEMMA LeaveFacts ==
  ASSUME EngineInv, NEW r \in World, NEW p \in Places, LeaveTo(r, p)
  PROVE  LeaveEffect(r, p)
<1>1. /\ inside[r] /\ cfg \in Configs /\ cfg' = cfg
      /\ UNCHANGED <<entered, event, signal, got, log, calls, mode>>
      /\ \A q \in World : entered[q] >= entered[r]
      /\ World' = World /\ Workers' = Workers
  BY DEF LeaveTo, EngineInv, EngineTypeOK, program, World, Workers
<1>2. /\ r \in Ranks /\ World \subseteq Ranks /\ Workers \subseteq World
      /\ Workers \subseteq Ranks \ {0} /\ cfg.tp \in Int
      /\ at[r] \in Collective /\ entered[r] = Left(r) + 1 /\ Left(r) \in Int
      /\ \A q \in World : entered[q] \in Nat
  BY <1>1, Lefts, WorldRanks
<1>3. ValidConfig(cfg)
  BY <1>2 DEF EngineInv, SizesOK, Collective, Gone
<1>4. /\ cfg.tp \in 1 .. 8 /\ 0 \in World /\ (cfg.tp = 1 => Workers = {})
      /\ (r # 0 => r \in Workers /\ cfg.tp > 1)
  BY <1>1, <1>2, <1>3, WorldRanks DEF World, Workers
<1>6. /\ at' \in [Ranks -> Places] /\ at'[r] = p
      /\ \A q \in Ranks \ {r} : at'[q] = at[q] /\ inside'[q] = inside[q]
      /\ inside' \in [Ranks -> BOOLEAN] /\ inside'[r] = FALSE
  BY <1>2 DEF LeaveTo, EngineInv, EngineTypeOK
<1>7. Left(r)' = entered[r] /\ \A q \in World \ {r} : Left(q)' = Left(q)
  BY <1>1, <1>2, <1>6 DEF Left
<1>8. at[r] = "reduce" => Left(r) = 2
  BY DEF EngineInv, StagesOK, InStart, StartPlaces, Before, Gone
<1> QED BY <1>1, <1>2, <1>3, <1>4, <1>6, <1>7, <1>8 DEF LeaveEffect

LEMMA LeaveSizes ==
  ASSUME EngineInv, NEW r \in World, NEW p \in Places, LeaveTo(r, p), LeaveEffect(r, p)
  PROVE  /\ Met'
         /\ \A s, q \in World' : Sized(s)' => entered'[q] >= 3 /\ kvBlocks'[s] <= kvBlocks'[q]
<1> USE DEF LeaveEffect
<1>1. Met'
  <2> SUFFICES ASSUME NEW s \in World, NEW q \in World PROVE Left(s)' <= entered'[q]
    BY DEF Met
  <2> QED BY DEF EngineInv, Met
<1>2. /\ kvBlocks \in [Ranks -> Int] /\ Agreed(r) \in Int /\ \A q \in World : Agreed(r) <= kvBlocks[q]
      /\ \E q \in World : Agreed(r) = kvBlocks[q]
  BY AgreedLeast DEF EngineInv, EngineTypeOK
<1>3. kvBlocks' = IF at[r] = "reduce" THEN [kvBlocks EXCEPT ![r] = Agreed(r)] ELSE kvBlocks
  BY DEF LeaveTo
<1>4. ASSUME NEW s \in World, NEW q \in World, Sized(s)'
      PROVE  entered[q] >= 3 /\ kvBlocks'[s] <= kvBlocks'[q]
  <2>1. \A t \in World : Sized(t) => \A u \in World : entered[u] >= 3 /\ kvBlocks[t] <= kvBlocks[u]
    BY DEF EngineInv, SizesOK, Gone
  <2>2. CASE at[r] = "reduce"
    <3>1. entered[q] >= 3
      BY <2>2
    <3>2. s # r => Sized(s)
      BY <1>4 DEF Sized
    <3>3. kvBlocks[s] \in Int /\ kvBlocks[q] \in Int
      BY <1>2
    <3> QED BY <1>2, <1>3, <2>1, <2>2, <3>1, <3>2, <3>3
  <2>3. CASE at[r] # "reduce"
    <3>1. Sized(s)
      BY <1>4, <2>3 DEF Sized
    <3> QED BY <1>3, <2>1, <2>3, <3>1
  <2> QED BY <2>2, <2>3
<1> QED BY <1>1, <1>4

(* A rank that raises on its own does so before rank 0 serves calls, and a *)
(* worker before the barrier.                                              *)
LEMMA RaiseStep ==
  ASSUME EngineInv, NEW r \in World, MayRaise(r), LeaveTo(r, "raised")
  PROVE  EngineInv'
<1>1. "raised" \in Places /\ "raised" \notin StartPlaces \cup Collective
  BY DEF Places, StartPlaces, Collective, Gone
<1>2. LeaveEffect(r, "raised")
  BY <1>1, LeaveFacts
<1> USE <1>2 DEF LeaveEffect
<1>3. /\ at[r] \in StartPlaces /\ Left(r) = Before(at[r]) /\ (at[r] = "capture" => ~ cfg.eager)
      /\ (r # 0 => at[r] # "barrier") /\ StartMeetings \in {4, 5}
  BY Lefts DEF MayRaise, StartPlaces, InStart, EngineInv, StagesOK
<1>4. r # 0 => entered[r] < StartMeetings
  BY <1>3 DEF MayRaise, Before, StartMeetings
<1>5. ~ Started /\ ~ Started'
  <2>1. r # 0 => ~ Started
    BY <1>3, <1>4, PastStart, Lefts
  <2>2. r # 0 => at'[0] = at[0]
    OBVIOUS
  <2> QED BY <1>3, <2>1, <2>2 DEF Started, Gone
<1>6. calls = << >> /\ \A w \in Workers : ~ event[w] /\ log[w] = << >>
  BY <1>5 DEF EngineInv, NothingYet
<1>7. /\ kvBlocks \in [Ranks -> Int] /\ Agreed(r) \in Int
  BY AgreedLeast DEF EngineInv, EngineTypeOK
<1>8. /\ kvBlocks' \in [Ranks -> Int] /\ \A q \in Ranks \ {r} : kvBlocks'[q] = kvBlocks[q]
      /\ shm' = shm
  BY <1>3, <1>7 DEF LeaveTo, StartPlaces
<1>9. EngineTypeOK'
  <2>1. \A w \in Workers : at'[w] \in {"open", "wait", "read", "clear", "run"} => at'[w] = at[w]
    OBVIOUS
  <2>2. \A q \in Ranks : inside'[q] => at'[q] \in Collective
    BY DEF EngineInv, EngineTypeOK
  <2> QED BY <1>8, <2>1, <2>2 DEF EngineInv, EngineTypeOK
<1>10. /\ Met'
       /\ \A s, q \in World' : Sized(s)' => entered'[q] >= 3 /\ kvBlocks'[s] <= kvBlocks'[q]
  BY <1>1, LeaveSizes
<1>11. StagesOK'
  <2>1. \A q \in World : at[q] = "off" => q # r /\ r # 0
    BY <1>3 DEF MayRaise, EngineInv, StagesOK
  <2>2. at'[0] = "failed" => at[0] = "failed"
    OBVIOUS
  <2>3. ASSUME NEW q \in World
        PROVE  /\ InStart(q)' => Left(q)' = Before(at[q])'
               /\ at'[q] \notin StartPlaces \cup Gone =>
                    Left(q)' >= 3 /\ (cfg.tp > 1 => Left(q)' >= StartMeetings)
               /\ at'[q] = "capture" => ~ cfg.eager
               /\ at'[q] \in {"create", "barrier", "open"} => cfg.tp > 1
               /\ at'[q] = "off" => at'[0] \in {"config", "failed"}
               /\ at'[q] = "raised" /\ q # 0 => entered[q] < StartMeetings
    <3>1. CASE q = r
      BY <1>1, <1>4, <3>1 DEF InStart, Gone
    <3>2. CASE q # r
      BY <2>1, <3>2 DEF EngineInv, StagesOK, InStart, Before, StartMeetings
    <3> QED BY <3>1, <3>2
  <2> QED BY <2>2, <2>3 DEF EngineInv, StagesOK, StartMeetings
<1>12. SizesOK'
  <2>1. at'[0] \notin {"config", "init", "warmup", "reduce"} \cup Gone =>
          kvBlocks'[0] > 0 /\ ~ TooSmall(cfg)
    BY <1>8 DEF EngineInv, SizesOK, Gone
  <2> QED BY <1>10, <2>1 DEF SizesOK
<1>13. RankPlacesOK'
  <2>1. r = 0 /\ entered[0] >= StartMeetings => at[0] = "barrier" /\ (cfg.tp > 1 => shm.there)
    <3>1. SUFFICES ASSUME r = 0, entered[0] >= StartMeetings, at[0] # "barrier" PROVE FALSE
      BY DEF EngineInv, RankPlacesOK
    <3> QED BY <1>3, <3>1 DEF MayRaise, Before, StartMeetings
  <2>2. signal = 1 /\ at[0] # "config"
    BY <1>3, <1>5 DEF EngineInv, RankPlacesOK, Started, StartPlaces, Gone, MayRaise
  <2>3. at'[0] = at[0] \/ (r = 0 /\ at'[0] = "raised")
    OBVIOUS
  <2>4. \A w \in Ranks \ {0} : at'[w] = at[w] \/ at'[w] = "raised"
    OBVIOUS
  <2> QED BY <1>5, <1>8, <2>1, <2>2, <2>3, <2>4
       DEF EngineInv, RankPlacesOK, Announcing, Meeting0, StartMeetings
<1>14. NothingYet'
  <2>1. \A w \in Workers : at'[w] = "raised" \/ (at'[w] = at[w] /\ kvBlocks'[w] = kvBlocks[w])
    BY <1>8
  <2> QED BY <1>5, <1>6, <2>1 DEF EngineInv, NothingYet, StartMeetings, Gone
<1>15. MessageOK' /\ WorkersOK' /\ StepsOK'
  <2>1. \A w \in Workers : at'[w] = "raised" \/ at'[w] = at[w]
    OBVIOUS
  <2> QED BY <1>5, <1>6, <2>1 DEF EngineInv, MessageOK, WorkersOK, StepsOK
<1> QED BY <1>9, <1>10, <1>11, <1>12, <1>13, <1>14, <1>15 DEF EngineInv

LEMMA OnwardFacts ==
  ASSUME EngineInv, NEW r \in World, LeaveTo(r, NextPlace(r))
  PROVE  LeaveEffect(r, NextPlace(r))
<1>1. at[r] \in Collective
  BY Lefts DEF LeaveTo
<1>2. NextPlace(r) \in Places
  BY <1>1 DEF NextPlace, AfterStart, Places, StartPlaces, Collective, Gone
<1> QED BY <1>2, LeaveFacts

LEMMA LeaveStages ==
  ASSUME EngineInv, NEW r \in World, LeaveTo(r, NextPlace(r))
  PROVE  Met' /\ StagesOK' /\ SizesOK'
<1>0. LeaveEffect(r, NextPlace(r))
  BY OnwardFacts
<1> USE <1>0 DEF LeaveEffect
<1>1. /\ Met'
      /\ \A p, q \in World' : Sized(p)' => entered'[q] >= 3 /\ kvBlocks'[p] <= kvBlocks'[q]
  <2>1. NextPlace(r) \in Places
    BY DEF LeaveTo
  <2> QED BY <2>1, LeaveSizes
<1>2. ASSUME NEW p \in World
      PROVE  /\ InStart(p)' => Left(p)' = Before(at[p])'
             /\ at'[p] \notin StartPlaces \cup Gone =>
                  Left(p)' >= 3 /\ (cfg.tp > 1 => Left(p)' >= StartMeetings)
             /\ at'[p] = "capture" => ~ cfg.eager
             /\ at'[p] \in {"create", "barrier", "open"} => cfg.tp > 1
             /\ at'[p] = "raised" /\ p # 0 => entered[p] < StartMeetings
  <2>1. CASE p # r
    BY <2>1 DEF EngineInv, StagesOK, InStart, Before, StartMeetings, Gone
  <2>2. CASE p = r
    <3>1. /\ at[r] \in StartPlaces => Left(r) = Before(at[r])
          /\ at[r] \notin StartPlaces \cup Gone =>
                  Left(r) >= 3 /\ (cfg.tp > 1 => Left(r) >= StartMeetings)
          /\ at[r] = "capture" => ~ cfg.eager
          /\ at[r] = "barrier" => cfg.tp > 1
      BY DEF EngineInv, StagesOK, InStart, Gone
    <3>2. at'[r] = NextPlace(r) /\ at'[r] # "raised" /\ StartMeetings' = StartMeetings
      BY DEF StartMeetings, NextPlace, AfterStart, Collective
    <3>3. CASE at[r] \in {"init", "warmup", "barrier", "run", "exit"}
      BY <2>2, <3>1, <3>2, <3>3 DEF NextPlace, Before, StartPlaces, InStart, StartMeetings, Gone
    <3>4. CASE at[r] \in {"reduce", "capture"}
      <4>1. Left(r)' = IF at[r] = "reduce" THEN 3 ELSE 4
        BY <3>1, <3>4 DEF Before, StartPlaces
      <4>2. CASE at'[r] = "failed"
        BY <2>2, <4>2 DEF InStart, StartPlaces, Gone
      <4>3. CASE at'[r] = "capture"
        <5>1. at[r] = "reduce" /\ ~ cfg.eager
          BY <3>2, <3>4, <4>3 DEF NextPlace, AfterStart
        <5> QED BY <2>2, <4>1, <4>3, <5>1 DEF Before, StartPlaces
      <4>4. CASE at'[r] = AfterStart(r)
        <5>1. Left(r)' = StartMeetings - 1 /\ Left(r)' >= 3
          <6>1. at[r] = "reduce" => cfg.eager
            BY <3>2, <4>4 DEF NextPlace, AfterStart
          <6> QED BY <3>1, <3>4, <4>1, <6>1 DEF StartMeetings
        <5>2. cfg.tp # 1 => cfg.tp > 1
          BY DEF World
        <5>3. CASE cfg.tp = 1
          BY <2>2, <4>4, <5>1, <5>3 DEF AfterStart, StartPlaces, InStart, Gone
        <5>4. CASE cfg.tp > 1
          <6>1. at'[r] \in {"create", "barrier"}
            BY <4>4, <5>4 DEF AfterStart
          <6>2. Before(at[r])' = StartMeetings - 1
            BY <6>1 DEF Before, StartMeetings
          <6> QED BY <2>2, <5>1, <5>4, <6>1, <6>2 DEF Before, StartPlaces, InStart
        <5> QED BY <5>2, <5>3, <5>4
      <4> QED BY <3>2, <3>4, <4>2, <4>3, <4>4 DEF NextPlace
    <3> QED BY <3>3, <3>4 DEF Collective
  <2> QED BY <2>1, <2>2
<1>3. \A p \in World : at'[p] = "off" => at'[0] \in {"config", "failed"}
  <2>1. at'[r] # "off"
    BY DEF NextPlace, AfterStart, Collective
  <2>2. \A p \in World : at[p] # "off" \/ r # 0
    BY DEF EngineInv, StagesOK, Collective, Gone
  <2> QED BY <2>1, <2>2 DEF EngineInv, StagesOK, Gone
<1>4. at'[0] = "failed" => entered[0] <= 3
  <2>1. r = 0 /\ at'[0] = "failed" => at[0] = "reduce"
    BY DEF NextPlace, AfterStart, Collective
  <2> QED BY <2>1 DEF EngineInv, StagesOK, Gone
<1>5. StagesOK'
  BY <1>2, <1>3, <1>4 DEF StagesOK, StartMeetings, Gone
<1>6. /\ kvBlocks \in [Ranks -> Int] /\ Agreed(r) \in Int /\ \A q \in World : Agreed(r) <= kvBlocks[q]
      /\ \E q \in World : Agreed(r) = kvBlocks[q]
  BY AgreedLeast DEF EngineInv, EngineTypeOK
<1>7. kvBlocks' = IF at[r] = "reduce" THEN [kvBlocks EXCEPT ![r] = Agreed(r)] ELSE kvBlocks
  BY DEF LeaveTo
<1>9. at'[0] \notin {"config", "init", "warmup", "reduce"} \cup Gone =>
        kvBlocks'[0] > 0 /\ ~ TooSmall(cfg)
  <2>1. CASE r = 0 /\ at[0] = "reduce"
    BY <1>6, <1>7, <2>1 DEF NextPlace, Gone
  <2>2. CASE r = 0 /\ at[0] # "reduce"
    BY <1>7, <2>2 DEF NextPlace, EngineInv, SizesOK, Collective, Gone
  <2>3. CASE r # 0
    BY <1>6, <1>7, <2>3 DEF EngineInv, SizesOK, Gone
  <2> QED BY <2>1, <2>2, <2>3
<1>10. SizesOK'
  BY <1>1, <1>9 DEF SizesOK, Gone
<1> QED BY <1>1, <1>5, <1>10

LEMMA LeavePlaces ==
  ASSUME EngineInv, NEW r \in World, LeaveTo(r, NextPlace(r))
  PROVE  /\ EngineTypeOK' /\ RankPlacesOK' /\ MessageOK'
         /\ WorkersOK'
<1>0. LeaveEffect(r, NextPlace(r))
  BY OnwardFacts
<1> USE <1>0 DEF LeaveEffect
<1>1. /\ kvBlocks \in [Ranks -> Int] /\ Agreed(r) \in Int
      /\ \A q \in World : Agreed(r) <= kvBlocks[q]
  BY AgreedLeast DEF EngineInv, EngineTypeOK
<1>2. kvBlocks' \in [Ranks -> Int]
  BY <1>1 DEF LeaveTo
<1>3. shm' = IF r = 0 /\ at[r] = "exit" THEN [shm EXCEPT !.there = FALSE] ELSE shm
  BY DEF LeaveTo
<1>4. /\ shm' \in [there : BOOLEAN, len : 0 .. Len(calls), body : 0 .. Len(calls)]
      /\ shm'.len = shm.len /\ shm'.body = shm.body
      /\ shm' = shm \/ (r = 0 /\ at[0] = "exit" /\ at'[0] = "join")
  BY <1>3 DEF EngineInv, EngineTypeOK, NextPlace
<1>5. RankPlacesOK'
  <2>1. CASE r = 0
    <3>1. at'[0] \in {"warmup", "reduce", "capture", "failed", "create", "idle", "join"}
      BY <2>1 DEF NextPlace, AfterStart, Collective
    <3>2. \A w \in Ranks \ {0} : at'[w] = at[w]
      BY <2>1
    <3>3. signal = 1
      BY <2>1 DEF EngineInv, RankPlacesOK, Collective
    <3>4. at'[0] = "join" => at[0] = "exit" /\ calls # << >> /\ calls[Len(calls)] = "exit"
      BY <2>1 DEF NextPlace, AfterStart, Collective, EngineInv, RankPlacesOK, Meeting0
    <3>5. cfg.tp > 1 /\ at'[0] = "idle" => shm'.there
      <4> SUFFICES ASSUME cfg.tp > 1, at'[0] = "idle" PROVE shm'.there
        OBVIOUS
      <4>1. at[0] \in {"barrier", "run"}
        BY <2>1 DEF NextPlace, AfterStart, Collective
      <4> QED BY <1>4, <4>1 DEF EngineInv, RankPlacesOK, Started, StartPlaces, Gone
    <3> QED BY <3>1, <3>2, <3>3, <3>4, <3>5
         DEF EngineInv, RankPlacesOK, Announcing, Meeting0, Started, StartPlaces, Gone
  <2>2. CASE r # 0
    <3>1. at'[r] \in {"warmup", "reduce", "capture", "failed", "barrier", "open", "wait", "done"}
      BY <2>2 DEF NextPlace, AfterStart, Collective
    <3>2. at'[0] = at[0] /\ shm' = shm
      BY <1>4, <2>2
    <3>3. \A w \in Ranks \ {0} :
            at'[w] \notin {"config", "create", "idle", "length", "copy", "copying", "signal", "join"}
      BY <3>1 DEF EngineInv, RankPlacesOK
    <3>4. at[0] # "config"
      BY <2>2 DEF EngineInv, RankPlacesOK, Collective
    <3> QED BY <3>2, <3>3, <3>4 DEF EngineInv, RankPlacesOK, Announcing, Meeting0, Started, Gone
  <2> QED BY <2>1, <2>2
<1>6. ASSUME NEW w \in Workers, at'[w] \in {"open", "wait", "read", "clear", "run"}
      PROVE  shm'.there \/ (calls # << >> /\ calls[Len(calls)] = "exit")
  <2>1. CASE r = 0 /\ at[0] = "exit"
    BY <2>1 DEF EngineInv, RankPlacesOK, Meeting0
  <2>2. CASE at[w] \in {"open", "wait", "read", "clear", "run"} /\ shm' = shm
    BY <2>2 DEF EngineInv, EngineTypeOK
  <2>3. CASE w = r /\ at[w] = "barrier"
    <3>1. entered[0] >= StartMeetings /\ cfg.tp > 1
      BY <2>3, Lefts DEF EngineInv, StagesOK, InStart, StartPlaces, Before, StartMeetings, Gone
    <3>2. at[0] \in StartPlaces => at[0] = "barrier"
      <4> SUFFICES ASSUME at[0] \in StartPlaces PROVE at[0] = "barrier"
        OBVIOUS
      <4>1. Left(0) = Before(at[0]) /\ (at[0] = "capture" => ~ cfg.eager)
        BY DEF EngineInv, StagesOK, InStart, Gone
      <4>2. at[0] \notin {"off", "open"}
        BY DEF EngineInv, RankPlacesOK
      <4> QED BY <3>1, <4>1, <4>2, Lefts DEF Before, StartPlaces, StartMeetings, Collective
    <3>3. at[0] # "failed" /\ (at[0] = "raised" => shm.there)
      BY <3>1, Lefts DEF EngineInv, StagesOK, RankPlacesOK, Gone
    <3>4. shm' = shm
      BY <1>4, <2>3
    <3> QED BY <3>1, <3>2, <3>3, <3>4 DEF EngineInv, RankPlacesOK, Started, Gone
  <2>4. w # r => at'[w] = at[w]
    OBVIOUS
  <2>5. w = r => at[w] \in {"barrier", "run"}
    BY <1>6 DEF NextPlace, AfterStart, Collective
  <2> QED BY <1>4, <1>6, <2>1, <2>2, <2>3, <2>4, <2>5
<1>7. \A q \in Ranks : inside'[q] => at'[q] \in Collective
  BY DEF EngineInv, EngineTypeOK
<1>8. EngineTypeOK'
  BY <1>2, <1>4, <1>6, <1>7 DEF EngineInv, EngineTypeOK
<1>9. MessageOK'
  <2>1. at[0] \notin {"length", "copy", "copying"} \/ at'[0] = at[0]
    BY DEF Collective
  <2> QED BY <1>4, <2>1 DEF EngineInv, MessageOK
<1>10. WorkersOK'
  <2>1. at'[r] # "clear" /\ (at'[r] \in StartPlaces => at[r] \in StartPlaces)
    BY DEF NextPlace, AfterStart, Collective, StartPlaces
  <2> QED BY <2>1 DEF EngineInv, WorkersOK
<1> QED BY <1>5, <1>8, <1>9, <1>10

LEMMA LeaveStart ==
  ASSUME EngineInv, NEW r \in World, LeaveTo(r, NextPlace(r))
  PROVE  NothingYet'
<1>0. LeaveEffect(r, NextPlace(r))
  BY OnwardFacts
<1> USE <1>0 DEF LeaveEffect
<1> SUFFICES ASSUME ~ Started' PROVE NothingYet'
  BY DEF NothingYet, Gone
<1>1. ~ Started
  BY DEF Started, StartPlaces, Collective, NextPlace, AfterStart, Gone
<1>2. calls = << >> /\ \A w \in Workers : ~ event[w] /\ log[w] = << >>
  BY <1>1 DEF EngineInv, NothingYet, Gone
<1>3. kvBlocks' = IF at[r] = "reduce" THEN [kvBlocks EXCEPT ![r] = Agreed(r)] ELSE kvBlocks
  BY DEF LeaveTo
<1>4. kvBlocks \in [Ranks -> Int]
  BY DEF EngineInv, EngineTypeOK
<1>5. ASSUME NEW w \in Workers
      PROVE  /\ at'[w] \in StartPlaces \cup Gone \cup {"wait"}
             /\ at'[w] = "wait" => entered[w] = StartMeetings
             /\ at'[w] = "failed" => kvBlocks'[w] <= 0 \/ TooSmall(cfg)
  <2>1. CASE w # r
    BY <1>1, <1>3, <1>4, <2>1 DEF EngineInv, NothingYet, Gone
  <2>2. CASE w = r
    <3>1. at[r] \in {"init", "warmup", "reduce", "capture", "barrier"}
      BY <1>1, <2>2 DEF EngineInv, NothingYet, StartPlaces, Collective, Gone
    <3> QED BY <1>3, <1>4, <2>2, <3>1 DEF NextPlace, AfterStart, StartPlaces, Gone
  <2> QED BY <2>1, <2>2
<1> QED BY <1>2, <1>5 DEF NothingYet, StartMeetings, Gone

(* Rank 0 leaves the barrier: no worker is told of anything yet.           *)
LEMMA LeaveBarrier ==
  ASSUME EngineInv, NEW r \in World, LeaveTo(r, NextPlace(r)), ~ Started, Started', NEW w \in Workers
  PROVE  InStepSoFar(w)' /\ FollowsOK(w)'
<1>0. LeaveEffect(r, NextPlace(r))
  BY OnwardFacts
<1> USE <1>0 DEF LeaveEffect
<1>1. r = 0 /\ at[0] = "barrier" /\ at'[0] = "idle"
  <2>1. r = 0
    BY DEF Started, Gone
  <2>2. at[0] \in StartPlaces /\ cfg.tp # 1
    BY <2>1 DEF Started, Collective, Gone
  <2> QED BY <2>1, <2>2 DEF Started, StartPlaces, Collective, NextPlace, AfterStart, Gone
<1>2. calls = << >> /\ ~ event[w] /\ log[w] = << >> /\ Len(calls) = 0 /\ Len(log[w]) = 0
  BY DEF EngineInv, NothingYet, Gone
<1>3. entered[0] = StartMeetings /\ entered[w] >= StartMeetings /\ Left(w) \in Int
  BY <1>1, Lefts DEF EngineInv, StagesOK, InStart, StartPlaces, Before, StartMeetings, Gone
<1>4. at'[w] = at[w]
  BY <1>1
<1>5. /\ kvBlocks[0] > 0 /\ kvBlocks[0] <= kvBlocks[w] /\ ~ TooSmall(cfg)
      /\ kvBlocks[0] \in Int /\ kvBlocks[w] \in Int
  <2>1. Sized(0)
    BY <1>1, <1>3 DEF Sized, StartMeetings
  <2> QED BY <1>1, <2>1 DEF EngineInv, SizesOK, EngineTypeOK, Gone
<1>6. at[w] \notin Gone
  BY <1>3, <1>5 DEF EngineInv, NothingYet, StagesOK, Gone, StartMeetings
<1>7. at[w] \in StartPlaces \/ (at[w] = "wait" /\ entered[w] = StartMeetings)
  BY <1>6 DEF EngineInv, NothingYet, Gone
<1>8. entered[w] = StartMeetings
  <2>1. CASE at[w] \in StartPlaces
    <3>1. Left(w) = Before(at[w]) /\ (at[w] = "capture" => ~ cfg.eager)
      BY <2>1 DEF EngineInv, StagesOK, InStart, Gone
    <3>2. /\ entered[w] \in Nat /\ entered[w] <= Left(w) + 1 /\ (~ inside[w] => Left(w) = entered[w])
          /\ (inside[w] => entered[w] = Left(w) + 1 /\ at[w] \in Collective)
          /\ inside[w] \in BOOLEAN
      BY Lefts
    <3>3. at[w] \in {"barrier", "open"}
      BY <1>3, <2>1, <3>1, <3>2 DEF Before, StartPlaces, StartMeetings, Collective
    <3> QED BY <1>3, <3>1, <3>2, <3>3 DEF Before, StartMeetings, Collective
  <2> QED BY <1>7, <2>1
<1>9. InStepSoFar(w)' /\ DOMAIN log[w] = {}
  BY <1>2 DEF InStepSoFar, Raised
<1>10. Announced' = StartMeetings
  BY <1>1, <1>3 DEF Announced, Announcing, Meeting0
<1>11. Due(w)' = StartMeetings
  BY <1>4, <1>7, <1>8 DEF Due, StartPlaces
<1>12. ~ Owes(w)' /\ Told(w)' = 0
  BY <1>1, <1>2 DEF Owes, Told, Announcing, Meeting0
<1>13. Next1(w)' = 1
  BY <1>2 DEF Next1
<1>14. at'[w] \notin {"read", "clear", "failed"}
  BY <1>4, <1>7 DEF StartPlaces
<1> QED BY <1>2, <1>9, <1>10, <1>11, <1>12, <1>13, <1>14 DEF FollowsOK

LEMMA LeaveCall ==
  ASSUME EngineInv, NEW r \in World, LeaveTo(r, NextPlace(r)), Started, NEW w \in Workers,
         InStepSoFar(w), FollowsOK(w)
  PROVE  InStepSoFar(w)' /\ FollowsOK(w)'
<1>0. LeaveEffect(r, NextPlace(r))
  BY OnwardFacts
<1> USE <1>0 DEF LeaveEffect
<1>1. InStepSoFar(w)' /\ Next1(w)' = Next1(w) /\ (\A j \in Nat : Meets(j)' = Meets(j))
  BY DEF InStepSoFar, Next1, Meets, Raised
<1>2. CASE r = 0
  <2>1. at[0] \in {"run", "exit"} /\ at'[0] = NextPlace(0)
    BY <1>2 DEF Started, StartPlaces, Collective, Gone
  <2>2. at'[0] \in {"idle", "join"} /\ at'[w] = at[w]
    BY <1>2, <2>1 DEF NextPlace
  <2>3. calls # << >> /\ Len(calls) \in Nat \ {0} /\ Meets(Len(calls)) /\ Len(log[w]) \in Nat
    <3>1. calls # << >> /\ calls[Len(calls)] = at[0]
      BY <2>1 DEF EngineInv, RankPlacesOK, Meeting0
    <3>2. calls \in Seq(Methods) /\ log[w] \in Seq(1 .. Len(calls))
      BY DEF EngineInv, EngineTypeOK
    <3> QED BY <2>1, <3>1, <3>2 DEF Meets, Local, Stats, Methods
  <2>4. Announced = entered[0] /\ Due(w) >= entered[w] /\ Due(w) \in Int /\ entered[w] >= entered[0]
    BY <1>2, <2>1 DEF Announced, Announcing, Meeting0, Due
  <2>5. ~ Owes(w)
    BY <2>4 DEF FollowsOK
  <2>6. Len(log[w]) >= Len(calls)
    BY <2>1, <2>3, <2>5 DEF Owes, Meeting0
  <2>7. Announced' = entered[0] /\ ~ Owes(w)' /\ Told(w)' = Len(calls) /\ Told(w) = Len(calls)
    BY <1>2, <2>1, <2>2 DEF Announced, Announcing, Meeting0, Owes, Told
  <2>8. Due(w)' = Due(w)
    BY <1>2, <2>2 DEF Due
  <2>9. \A j \in Next1(w) .. Len(calls) : FALSE
    BY <2>3, <2>6 DEF Next1
  <2>10. at[w] \notin {"read", "clear", "failed"} /\ ~ event[w]
    BY <2>3, <2>6, <2>7 DEF FollowsOK, Next1
  <2> QED BY <1>1, <2>2, <2>4, <2>5, <2>7, <2>8, <2>9, <2>10 DEF FollowsOK
<1>3. CASE r # 0
  <2>1. at'[0] = at[0] /\ inside'[0] = inside[0]
    BY <1>3
  <2>2. /\ Announced' = Announced /\ Told(w)' = Told(w) /\ Owes(w)' = Owes(w)
        /\ Announcing' = Announcing /\ Meeting0' = Meeting0
    BY <2>1 DEF Announced, Told, Owes, Announcing, Meeting0, Meets
  <2>3. Due(w)' = Due(w) /\ (at'[w] = at[w] \/ at'[w] \in {"open", "wait", "done"})
    <3>1. CASE w # r
      BY <3>1 DEF Due
    <3>2. CASE w = r
      <4>1. at[w] \in {"barrier", "run", "exit"}
        BY <3>2, PastStart DEF InStart, StartPlaces, Collective
      <4>2. at'[w] \in {"open", "wait", "done"}
        BY <1>3, <3>2, <4>1 DEF NextPlace
      <4> QED BY <3>2, <4>1, <4>2 DEF Due
    <3> QED BY <3>1, <3>2
  <2> QED BY <1>1, <2>2, <2>3 DEF FollowsOK, Meets, Next1
<1> QED BY <1>2, <1>3

LEMMA LeaveStep ==
  ASSUME EngineInv, NEW r \in World, LeaveTo(r, NextPlace(r))
  PROVE  EngineInv'
<1>0. LeaveEffect(r, NextPlace(r))
  BY OnwardFacts
<1>1. StepsOK'
  <2> SUFFICES ASSUME Started', NEW w \in Workers
               PROVE  (IF InStepSoFar(w) THEN FollowsOK(w) ELSE LostStep(w))'
    BY <1>0 DEF StepsOK, LeaveEffect
  <2>1. CASE ~ Started
    BY <2>1, LeaveBarrier
  <2>2. CASE Started /\ InStepSoFar(w)
    BY <2>2, LeaveCall DEF EngineInv, StepsOK
  <2>3. CASE Started /\ ~ InStepSoFar(w)
    BY <1>0, <2>3 DEF EngineInv, StepsOK, LostStep, InStepSoFar, LeaveEffect, Meets, Raised
  <2> QED BY <2>1, <2>2, <2>3
<1> QED BY <1>1, LeaveStages, LeavePlaces, LeaveStart DEF EngineInv


-----------------------------------------------------------------------------
(***************************************************************************)
(* Steps outside the collectives.                                          *)
(***************************************************************************)
(* What a rank that moves on without a collective leaves as it is.         *)
Moved(r, p) ==
  /\ Met' /\ StagesOK' /\ SizesOK' /\ (Started' <=> Started) /\ cfg \in Configs
  /\ at' \in [Ranks -> Places] /\ at'[r] = p /\ \A q \in Ranks \ {r} : at'[q] = at[q]
  /\ \A q \in Ranks : inside'[q] => at'[q] \in Collective
  /\ cfg' = cfg /\ inside' = inside /\ entered' = entered /\ kvBlocks' = kvBlocks
  /\ World' = World /\ Workers' = Workers /\ 0 \in World /\ World \subseteq Ranks
  /\ Workers \subseteq World /\ Workers \subseteq Ranks \ {0} /\ r \in Ranks
  /\ \A v \in Workers : cfg.tp > 1 /\ cfg.tp \in Int
  /\ \A v \in Workers : at'[v] \in StartPlaces => at[v] \in StartPlaces
  /\ StartMeetings' = StartMeetings

LEMMA MoveOn ==
  ASSUME EngineInv, NEW r \in World, UNCHANGED <<cfg, inside, entered, kvBlocks>>,
         at[r] \notin (StartPlaces \ {"open"}) \cup Gone,
         NEW p \in Places \ StartPlaces, at' = [at EXCEPT ![r] = p], r = 0 => p # "failed",
         p # "raised", inside[r] => p \in Collective
  PROVE  Moved(r, p)
<1>1. /\ cfg \in Configs /\ at \in [Ranks -> Places] /\ World' = World /\ Workers' = Workers
      /\ \A q \in Ranks : inside[q] => at[q] \in Collective
  BY DEF EngineInv, EngineTypeOK, World, Workers
<1>2. /\ World \subseteq Ranks /\ Workers \subseteq Ranks \ {0} /\ Workers \subseteq World
      /\ r \in Ranks /\ Left(r) \in Int /\ 0 \in World
      /\ \A v \in Workers : cfg.tp > 1 /\ cfg.tp \in Int
  <2>1. World \subseteq Ranks /\ Workers \subseteq Ranks \ {0} /\ Workers \subseteq World
    BY <1>1, WorldRanks
  <2>2. r \in Ranks /\ Left(r) \in Int
    BY Lefts
  <2>3. cfg.tp \in Int /\ 0 \in World
    BY <1>1, EngineAssumption DEF World
  <2> QED BY <2>1, <2>2, <2>3 DEF World, Workers
<1>3. /\ at' \in [Ranks -> Places] /\ at'[r] = p /\ \A q \in Ranks \ {r} : at'[q] = at[q]
      /\ p \notin StartPlaces
  BY <1>1, <1>2
<1>4. \A q \in World : Left(q)' = Left(q)
  BY DEF Left
<1>5. Met'
  BY <1>1, <1>4 DEF EngineInv, Met
<1>6. Left(r) >= 3 /\ (cfg.tp > 1 => Left(r) >= StartMeetings)
  <2>1. CASE at[r] = "open"
    BY <1>2, <2>1, Lefts DEF EngineInv, StagesOK, InStart, StartPlaces, Before, Gone
  <2>2. CASE at[r] # "open"
    BY <2>2 DEF EngineInv, StagesOK, Gone
  <2> QED BY <2>1, <2>2
<1>7. StagesOK'
  <2>1. \A q \in World : at[q] = "off" => at[0] \in {"config", "failed"}
    BY DEF EngineInv, StagesOK, Gone
  <2>2. at'[0] \notin {"config", "failed"} => at[0] \notin {"config", "failed"}
    BY <1>2, <1>3, <2>1 DEF EngineInv, StagesOK, StartPlaces, Gone
  <2>3. at'[0] = "failed" => at[0] = "failed"
    BY <1>2, <1>3
  <2>4. at[0] = "config" => at'[0] = "config"
    BY <1>2, <1>3 DEF StartPlaces
  <2>5. ASSUME NEW q \in World
        PROVE  /\ InStart(q)' => Left(q)' = Before(at[q])'
               /\ at'[q] \notin StartPlaces \cup Gone =>
                    Left(q)' >= 3 /\ (cfg.tp > 1 => Left(q)' >= StartMeetings)
               /\ at'[q] = "capture" => ~ cfg.eager
               /\ at'[q] \in {"create", "barrier", "open"} => cfg.tp > 1
               /\ at'[q] = "off" => at'[0] \in {"config", "failed"}
               /\ at'[q] = "raised" /\ q # 0 => entered[q] < StartMeetings
    <3>1. CASE q = r
      BY <1>3, <1>4, <1>6, <3>1 DEF InStart, StartPlaces
    <3>2. CASE q # r
      <4>1. at'[q] = at[q] /\ Left(q)' = Left(q) /\ StartMeetings' = StartMeetings
        BY <1>2, <1>3, <1>4, <3>2 DEF StartMeetings
      <4>2. Before(at[q])' = Before(at[q])
        BY <4>1 DEF Before
      <4>3. at[q] = "off" => at[0] \in {"config", "failed"} /\ (0 = r => at[r] \in {"config", "failed"})
        BY <2>1
      <4>4. at[q] = "off" => r # 0
        BY <4>3 DEF StartPlaces, Gone
      <4> QED BY <1>2, <1>3, <4>1, <4>2, <4>3, <4>4 DEF EngineInv, StagesOK, InStart, Gone
    <3> QED BY <3>1, <3>2
  <2> QED BY <1>1, <2>3, <2>5 DEF EngineInv, StagesOK, StartMeetings, Gone
<1>8. SizesOK'
  <2>1. ASSUME NEW q \in World, q # r, Sized(q)' PROVE Sized(q)
    <3>1. at'[q] = at[q] /\ entered' = entered
      BY <1>2, <1>3, <2>1
    <3> QED BY <2>1, <3>1 DEF Sized
  <2>2. Sized(r)
    <3>1. entered[r] >= 3
      BY <1>2, <1>6, Lefts
    <3> QED BY <3>1 DEF Sized, StartPlaces
  <2>3. \A q, s \in World' : Sized(q)' => entered'[s] >= 3 /\ kvBlocks'[q] <= kvBlocks'[s]
    BY <1>1, <2>1, <2>2 DEF EngineInv, SizesOK, Gone
  <2>4. ValidConfig(cfg)
    BY <1>2 DEF EngineInv, SizesOK, StartPlaces, Gone
  <2>5. at'[0] \notin {"config", "init", "warmup", "reduce"} \cup Gone =>
          kvBlocks'[0] > 0 /\ ~ TooSmall(cfg)
    BY <1>2, <1>3 DEF EngineInv, SizesOK, StartPlaces, Gone
  <2> QED BY <2>3, <2>4, <2>5 DEF SizesOK, Gone
<1>9. Started' <=> Started
  <2>1. at[0] # "open"
    BY DEF EngineInv, RankPlacesOK
  <2> QED BY <1>2, <1>3, <2>1 DEF Started, Gone
<1>10. StartMeetings' = StartMeetings
  BY DEF StartMeetings
<1> QED BY <1>1, <1>2, <1>3, <1>5, <1>7, <1>8, <1>9, <1>10 DEF Moved

(* The shared memory is there for a worker that opens it.                  *)
LEMMA OpenFinds ==
  ASSUME EngineInv, NEW w \in Workers, at[w] = "open"
  PROVE  shm.there /\ entered[w] = StartMeetings /\ ~ inside[w]
<1>1. cfg \in Configs
  BY DEF EngineInv, EngineTypeOK
<1>2. cfg.tp > 1 /\ 0 \in World /\ w \in World
  BY <1>1, WorldRanks DEF World
<1>3. Left(w) = StartMeetings /\ ~ inside[w] /\ entered[w] = StartMeetings
  BY <1>2, Lefts DEF EngineInv, StagesOK, InStart, StartPlaces, Before, Collective, Gone
<1>4. entered[0] >= StartMeetings /\ entered[0] \in Nat
  BY <1>2, <1>3, Lefts DEF EngineInv, Met
<1>5. at[0] # "failed" /\ (at[0] = "raised" => shm.there)
  BY <1>2, <1>4, Lefts DEF EngineInv, StagesOK, RankPlacesOK, Gone
<1>6. CASE at[0] \in StartPlaces
  <2>1. Left(0) = Before(at[0]) /\ (at[0] = "capture" => ~ cfg.eager)
    BY <1>2, <1>6 DEF EngineInv, StagesOK, InStart, Gone
  <2>2. at[0] \notin {"off", "open"}
    BY DEF EngineInv, RankPlacesOK
  <2>3. at[0] = "barrier"
    BY <1>2, <1>4, <1>6, <2>1, <2>2, Lefts DEF Before, StartPlaces, StartMeetings, Collective
  <2> QED BY <1>2, <1>3, <2>3 DEF EngineInv, RankPlacesOK
<1>7. CASE at[0] \notin StartPlaces \cup {"raised"}
  <2>1. Started
    BY <1>5, <1>7 DEF Started, Gone
  <2>2. at[0] \notin {"join", "done"}
    <3> SUFFICES ASSUME at[0] \in {"join", "done"} PROVE FALSE
      OBVIOUS
    <3>1. calls # << >> /\ calls[Len(calls)] = "exit"
      BY DEF EngineInv, RankPlacesOK
    <3>2. calls \in Seq(Methods) /\ log[w] \in Seq(1 .. Len(calls))
      BY <1>1, WorldRanks DEF EngineInv, EngineTypeOK
    <3>3. Len(calls) \in Nat \ {0} /\ Meets(Len(calls)) /\ Len(log[w]) \in Nat
      BY <3>1, <3>2 DEF Meets, Local, Stats, Methods
    <3>4. log[w] = << >> /\ FollowsOK(w)
      BY <1>2, <2>1 DEF EngineInv, StepsOK, WorkersOK, StartPlaces, InStepSoFar, Raised
    <3>5. Len(log[w]) = 0
      BY <3>4
    <3> QED BY <3>3, <3>4, <3>5 DEF FollowsOK, Next1, Announcing, Meeting0
  <2> QED BY <1>2, <1>3, <2>1, <2>2 DEF EngineInv, RankPlacesOK
<1> QED BY <1>3, <1>5, <1>6, <1>7

LEMMA OpenStep ==
  ASSUME EngineInv, NEW w \in Workers, OpenShm(w)
  PROVE  EngineInv'
<1>1. /\ at[w] = "open" /\ UNCHANGED <<cfg, inside, entered, kvBlocks>>
      /\ UNCHANGED <<shm, event, signal, got, log, calls, mode>>
      /\ at' = [at EXCEPT ![w] = "wait"] /\ shm.there /\ entered[w] = StartMeetings /\ ~ inside[w]
  BY OpenFinds DEF OpenShm, wire, program
<1>2. w \in World /\ w # 0
  BY DEF Workers
<1>3. "wait" \in Places \ StartPlaces
  BY DEF Places, StartPlaces, Gone
<1>4. Moved(w, "wait")
  <2>1. at[w] \notin (StartPlaces \ {"open"}) \cup Gone
    BY <1>1 DEF Gone
  <2> QED BY <1>1, <1>2, <1>3, <2>1, MoveOn
<1> USE <1>4 DEF Moved
<1>5. at'[0] = at[0]
  BY <1>2, <1>4
<1>6. EngineTypeOK'
  BY <1>1, <1>4 DEF EngineInv, EngineTypeOK
<1>7. MessageOK' /\ WorkersOK'
  BY <1>1, <1>4, <1>5 DEF EngineInv, MessageOK, WorkersOK
<1>8. RankPlacesOK'
  BY <1>1, <1>2, <1>4, <1>5 DEF EngineInv, RankPlacesOK, Announcing, Meeting0
<1>9. NothingYet'
  BY <1>1, <1>4 DEF EngineInv, NothingYet, Gone
<1>10. StepsOK'
  <2> SUFFICES ASSUME Started, NEW v \in Workers
               PROVE  (IF InStepSoFar(v) THEN FollowsOK(v) ELSE LostStep(v))'
    BY <1>4 DEF StepsOK
  <2>1. at'[v] = at[v] \/ (at'[v] = "wait" /\ at[v] = "open")
    BY <1>1, <1>4
  <2>2. Due(v)' = Due(v)
    BY <1>1, <2>1 DEF Due
  <2>3. /\ InStepSoFar(v)' = InStepSoFar(v) /\ Next1(v)' = Next1(v) /\ LostStep(v)' = LostStep(v)
        /\ Told(v)' = Told(v) /\ Owes(v)' = Owes(v) /\ Announced' = Announced
        /\ Announcing' = Announcing /\ Meeting0' = Meeting0 /\ \A j \in Nat : Meets(j)' = Meets(j)
    BY <1>1, <1>5 DEF InStepSoFar, LostStep, Told, Owes, Meets, Announcing, Meeting0, Next1, Announced, Raised
  <2> QED BY <1>1, <2>1, <2>2, <2>3 DEF EngineInv, StepsOK, FollowsOK, Meets
<1> QED BY <1>4, <1>6, <1>7, <1>8, <1>9, <1>10 DEF EngineInv

(* LLMEngine starts: nothing has happened yet.                             *)
LEMMA ConfigureStep ==
  ASSUME EngineInv, Configure
  PROVE  EngineInv'
<1>1. /\ at[0] = "config" /\ cfg' = cfg /\ cfg \in Configs
      /\ UNCHANGED <<inside, entered, kvBlocks, shm, event, signal, got, log, calls, mode>>
      /\ World' = World /\ Workers' = Workers /\ StartMeetings' = StartMeetings
  BY DEF Configure, EngineInv, EngineTypeOK, wire, program, World, Workers, StartMeetings
<1>2. /\ World \subseteq Ranks /\ Workers \subseteq Ranks \ {0} /\ Workers \subseteq World /\ 0 \in Ranks
      /\ ValidConfig(cfg) => 0 \in World
  BY <1>1, WorldRanks
<1> DEFINE New(r) == IF ValidConfig(cfg) THEN (IF r \in World THEN "init" ELSE "off")
                     ELSE IF r = 0 THEN "failed" ELSE "off"
<1>3. at' = [r \in Ranks |-> New(r)]
  <2>1. CASE ValidConfig(cfg)
    BY <2>1 DEF Configure
  <2>2. CASE ~ ValidConfig(cfg)
    <3>1. at \in [Ranks -> Places] /\ \A r \in Ranks : r = 0 \/ at[r] = "off"
      BY <1>1 DEF EngineInv, EngineTypeOK, RankPlacesOK
    <3> QED BY <1>2, <2>2, <3>1 DEF Configure
  <2> QED BY <2>1, <2>2
<1>4. \A r \in Ranks : /\ ~ ValidConfig(cfg) => New(r) = IF r = 0 THEN "failed" ELSE "off"
                       /\ ValidConfig(cfg) => New(r) = IF r \in World THEN "init" ELSE "off"
  OBVIOUS
<1> HIDE DEF New
<1>5. \A r \in Ranks : at'[r] = New(r)
  BY <1>3
<1>6. at' \in [Ranks -> Places]
  <2>1. \A r \in Ranks : New(r) \in {"failed", "off", "init"}
    BY <1>4
  <2>2. {"failed", "off", "init"} \subseteq Places
    BY DEF Places, StartPlaces, Gone
  <2> QED BY <1>3, <2>1, <2>2
<1>7. \A r \in Ranks : ~ inside[r]
  <2>1. \A r \in Ranks : at[r] \in {"config", "off"}
    BY <1>1 DEF EngineInv, RankPlacesOK
  <2> QED BY <2>1 DEF EngineInv, EngineTypeOK, Collective
<1>8. \A r \in World : Left(r) = 0 /\ entered[r] = 0 /\ Left(r)' = 0
  <2> SUFFICES ASSUME NEW r \in World PROVE Left(r) = 0 /\ entered[r] = 0 /\ Left(r)' = 0
    OBVIOUS
  <2>1. at[r] \in {"config", "off"}
    BY <1>1, <1>2 DEF EngineInv, RankPlacesOK
  <2>2. Left(r) = 0
    BY <2>1 DEF EngineInv, StagesOK, InStart, StartPlaces, Before, Gone
  <2>3. ~ inside[r]
    BY <1>2, <1>7
  <2> QED BY <1>1, <2>2, <2>3 DEF Left
<1>9. /\ at'[0] \in {"init", "failed"} /\ \A r \in Ranks : at'[r] \in {"init", "off", "failed"}
      /\ \A r \in Ranks : at'[r] = "failed" => r = 0
      /\ \A r \in World : at'[r] = "off" => at'[0] = "failed"
      /\ \A r \in Ranks : at'[r] = "init" => ValidConfig(cfg)
  BY <1>2, <1>4, <1>5
<1>10. EngineTypeOK'
  BY <1>1, <1>2, <1>7, <1>9, <1>6 DEF EngineInv, EngineTypeOK
<1>11. Met'
  BY <1>1, <1>8 DEF Met
<1>12. StagesOK'
  <2>1. \A r \in World : at'[r] \in {"init", "off", "failed"} /\ Before("init") = 0 /\ Before("off") = 0
    BY <1>2, <1>9 DEF Before
  <2>2. \A r \in World : InStart(r)' => Before(at[r])' = 0
    BY <1>1, <2>1 DEF InStart, StartPlaces, Before
  <2>3. at'[0] = "failed" => \A r \in World : entered'[0] <= 3
    <3> SUFFICES ASSUME NEW r \in World PROVE entered[0] <= 3
      BY <1>1
    <3>1. 0 \in World
      BY <1>1, EngineAssumption DEF World
    <3> QED BY <1>8, <3>1
  <2> QED BY <1>1, <1>8, <1>9, <2>1, <2>2, <2>3 DEF StagesOK, InStart, StartPlaces, Gone
<1>13. SizesOK'
  <2>1. \A r \in World : ~ Sized(r)'
    BY <1>1, <1>8 DEF Sized
  <2> QED BY <1>1, <1>9, <2>1 DEF SizesOK, Gone
<1>14. RankPlacesOK'
  <2>1. signal = 1
    BY <1>1 DEF EngineInv, RankPlacesOK
  <2> QED BY <1>1, <1>2, <1>9, <2>1 DEF RankPlacesOK, Announcing, Meeting0, Started, StartPlaces, Gone
<1>15. calls = << >> /\ \A w \in Workers : ~ event[w] /\ log[w] = << >>
  BY <1>1 DEF EngineInv, NothingYet, Started, StartPlaces, Gone
<1>16. ~ Started'
  BY <1>9 DEF Started, StartPlaces, Gone
<1>17. \A w \in Workers : at'[w] \in {"init", "off"}
  BY <1>2, <1>9
<1>18. NothingYet' /\ StepsOK' /\ MessageOK' /\ WorkersOK'
  BY <1>1, <1>15, <1>16, <1>17 DEF NothingYet, StepsOK, MessageOK, WorkersOK, StartPlaces, Gone
<1> QED BY <1>10, <1>11, <1>12, <1>13, <1>14, <1>18 DEF EngineInv

(* Rank 0 creates the shared memory, on its way into the barrier.          *)
LEMMA CreateStep ==
  ASSUME EngineInv, CreateShm
  PROVE  EngineInv'
<1>1. /\ at[0] = "create" /\ cfg' = cfg /\ cfg \in Configs
      /\ UNCHANGED <<inside, entered, kvBlocks, event, signal, got, log, calls, mode>>
      /\ World' = World /\ Workers' = Workers /\ StartMeetings' = StartMeetings
  BY DEF CreateShm, EngineInv, EngineTypeOK, program, World, Workers, StartMeetings
<1>2. /\ World \subseteq Ranks /\ Workers \subseteq Ranks \ {0} /\ Workers \subseteq World /\ 0 \in Ranks
      /\ at \in [Ranks -> Places] /\ shm \in [there : BOOLEAN, len : 0 .. Len(calls), body : 0 .. Len(calls)]
      /\ ~ inside[0]
  BY <1>1, WorldRanks DEF EngineInv, EngineTypeOK, Collective
<1>3. /\ at' \in [Ranks -> Places] /\ at'[0] \in {"barrier", "raised"}
      /\ \A r \in Ranks \ {0} : at'[r] = at[r]
  BY <1>2 DEF CreateShm, Places, StartPlaces, Gone
<1>4. /\ shm' \in [there : BOOLEAN, len : 0 .. Len(calls), body : 0 .. Len(calls)]
      /\ shm'.there = TRUE /\ shm'.len = shm.len /\ shm'.body = shm.body
  BY <1>2 DEF CreateShm
<1>5. \A r \in World : Left(r)' = Left(r)
  BY <1>1 DEF Left
<1>6. EngineTypeOK'
  BY <1>1, <1>2, <1>3, <1>4 DEF EngineInv, EngineTypeOK
<1>7. Met'
  BY <1>1, <1>5 DEF EngineInv, Met
<1>8. ValidConfig(cfg) /\ 0 \in World
  BY <1>1, <1>2, WorldRanks DEF EngineInv, SizesOK, Gone
<1>9. ~ Started /\ calls = << >> /\ Left(0) = StartMeetings - 1 /\ cfg.tp > 1
  BY <1>1, <1>8 DEF EngineInv, NothingYet, Started, StagesOK, InStart, StartPlaces, Before, Gone
<1>10. ~ Started'
  BY <1>3 DEF Started, StartPlaces, Gone
<1>11. StagesOK'
  <2> SUFFICES ASSUME NEW r \in World
               PROVE  /\ InStart(r)' => Left(r)' = Before(at[r])'
                      /\ at'[r] \notin StartPlaces \cup Gone =>
                           Left(r)' >= 3 /\ (cfg.tp > 1 => Left(r)' >= StartMeetings)
                      /\ at'[r] = "capture" => ~ cfg.eager
                      /\ at'[r] \in {"create", "barrier", "open"} => cfg.tp > 1
                      /\ at'[r] # "off"
                      /\ at'[r] = "raised" /\ r # 0 => entered[r] < StartMeetings
    BY <1>1, <1>3 DEF StagesOK, Gone
  <2>1. CASE r = 0
    <3>1. Before("barrier")' = StartMeetings - 1
      BY <1>1 DEF Before
    <3> QED BY <1>3, <1>5, <1>8, <1>9, <2>1, <3>1 DEF StartPlaces, InStart, Gone
  <2>2. CASE r # 0
    <3>1. at'[r] = at[r] /\ Before(at[r])' = Before(at[r]) /\ at[r] # "off"
      BY <1>1, <1>2, <1>3, <2>2 DEF Before, EngineInv, StagesOK, Gone
    <3> QED BY <1>5, <3>1 DEF EngineInv, StagesOK, InStart, Gone
  <2> QED BY <2>1, <2>2
<1>12. SizesOK'
  <2>1. ASSUME NEW r \in World, Sized(r)' PROVE Sized(r)
    BY <1>1, <1>2, <1>3, <2>1 DEF Sized
  <2>2. \A r, q \in World' : Sized(r)' => entered'[q] >= 3 /\ kvBlocks'[r] <= kvBlocks'[q]
    BY <1>1, <2>1 DEF EngineInv, SizesOK, Gone
  <2> QED BY <1>1, <1>8, <2>2 DEF EngineInv, SizesOK, Gone
<1>13. RankPlacesOK'
  <2>1. signal = 1
    BY <1>1 DEF EngineInv, RankPlacesOK
  <2> QED BY <1>1, <1>3, <1>4, <1>10, <2>1 DEF EngineInv, RankPlacesOK, Announcing, Meeting0
<1>14. NothingYet'
  BY <1>1, <1>2, <1>3, <1>9 DEF EngineInv, NothingYet, Gone
<1>15. StepsOK' /\ MessageOK' /\ WorkersOK'
  BY <1>1, <1>2, <1>3, <1>9, <1>10 DEF EngineInv, StepsOK, MessageOK, WorkersOK
<1> QED BY <1>6, <1>7, <1>11, <1>12, <1>13, <1>14, <1>15 DEF EngineInv

-----------------------------------------------------------------------------
(***************************************************************************)
(* The calls of rank 0.                                                    *)
(***************************************************************************)
LEMMA WiderSeq ==
  ASSUME NEW S, NEW T, S \subseteq T, NEW s \in Seq(S)
  PROVE  s \in Seq(T)
OBVIOUS

LEMMA Lengths ==
  ASSUME EngineInv
  PROVE  /\ calls \in Seq(Methods) /\ Len(calls) \in Nat
         /\ calls # << >> => Len(calls) \in Nat \ {0}
         /\ \A w \in Ranks : /\ log[w] \in Seq(1 .. Len(calls)) /\ Len(log[w]) \in Nat
                             /\ DOMAIN log[w] = 1 .. Len(log[w])
                             /\ got[w] \in 0 .. Len(calls) /\ event[w] \in BOOLEAN
<1>1. calls \in Seq(Methods) /\ log \in [Ranks -> Seq(1 .. Len(calls))]
      /\ got \in [Ranks -> 0 .. Len(calls)] /\ event \in [Ranks -> BOOLEAN]
  BY DEF EngineInv, EngineTypeOK
<1> QED BY <1>1

(* Rank 0 has come to a new call: the workers owe it nothing.              *)
LEMMA CallFollows ==
  ASSUME EngineInv, NEW m \in Methods, Call(m), Moved(0, "length"),
         NEW w \in Workers, InStepSoFar(w), FollowsOK(w)
  PROVE  InStepSoFar(w)' /\ FollowsOK(w)'
<1>1. at[0] = "idle" /\ calls' = Append(calls, m) /\ w # 0
      /\ UNCHANGED <<cfg, inside, entered, shm, event, signal, got, log>>
  BY DEF Call, wire, Workers
<1>2. PICK n \in Nat : n = Len(calls)
  BY Lengths
<1>3. PICK l \in Nat : l = Len(log[w])
  BY Lengths DEF Moved
<1>4. /\ Len(calls') = n + 1 /\ calls'[n + 1] = m /\ \A j \in 1 .. n : calls'[j] = calls[j]
      /\ DOMAIN log[w] = 1 .. l
  BY <1>1, <1>2, <1>3, Lengths DEF Moved
<1>5. at'[0] = "length" /\ at'[w] = at[w]
  BY <1>1 DEF Moved
<1>6. ~ Announcing /\ ~ Meeting0 /\ ~ Owes(w) /\ Announcing'
  BY <1>1, <1>5 DEF Announcing, Meeting0, Owes
<1>7. Announced = entered[0] /\ Announced = Due(w) /\ Told(w) = n
  BY <1>1, <1>2, <1>6 DEF Announced, Told, FollowsOK
<1>8. /\ l <= n
      /\ event[w] \/ at[w] \in {"read", "clear"} => l < n
      /\ \A j \in l + 1 .. n : ~ Meets(j)
      /\ at[w] \in {"read", "clear"} /\ Meets(l + 1) => got[w] = l + 1
      /\ at[w] = "failed" => l + 1 <= n /\ ~ Meets(l + 1)
  BY <1>2, <1>3, <1>6, <1>7 DEF FollowsOK, Next1
<1>9. \A j \in 1 .. n : Meets(j)' <=> Meets(j)
  BY <1>4 DEF Meets
<1>10. Told(w)' = n /\ Next1(w)' = l + 1 /\ Due(w)' = Due(w)
  BY <1>1, <1>3, <1>4, <1>5 DEF Told, Next1, Due
<1>11. Announced' = IF Owes(w)' THEN Due(w) + 1 ELSE Due(w)
  <2>1. Owes(w)' <=> Meets(n + 1)'
    <3>1. Len(calls') > Len(log'[w]) /\ Meets(Len(calls))' = Meets(n + 1)'
      BY <1>1, <1>3, <1>4, <1>8 DEF Meets
    <3> QED BY <1>6, <3>1 DEF Owes
  <2>2. Announced' = IF Meets(n + 1)' THEN entered[0] + 1 ELSE entered[0]
    BY <1>1, <1>4, <1>5, <1>6 DEF Announced, Meets, Meeting0
  <2> QED BY <1>7, <2>1, <2>2
<1>12. \A j \in l + 1 .. n + 1 : Meets(j)' => j = n + 1
  BY <1>8, <1>9
<1>13. at[w] \in {"read", "clear"} => l + 1 \in 1 .. n
  BY <1>8
<1>14. InStepSoFar(w)'
  <2>1. \A i \in 1 .. l : calls'[i] = calls[i]
    BY <1>4, <1>8
  <2> QED BY <1>1, <1>4, <2>1 DEF InStepSoFar, Raised
<1>15. Len(log[w])' = l /\ Len(calls)' = n + 1 /\ event' = event /\ got' = got
  BY <1>1, <1>3, <1>4
<1>16. /\ l <= n /\ (event[w] \/ at[w] \in {"read", "clear"} => l < n)
       /\ at[w] \in {"read", "clear"} /\ Meets(l + 1)' => got[w] = l + 1
       /\ at[w] = "failed" => l + 1 <= n + 1 /\ ~ Meets(l + 1)'
  BY <1>8, <1>9, <1>13
<1> QED BY <1>5, <1>6, <1>10, <1>11, <1>12, <1>14, <1>15, <1>16 DEF FollowsOK

LEMMA CallStep ==
  ASSUME EngineInv, NEW m \in Methods, Call(m)
  PROVE  EngineInv'
<1> DEFINE p == IF cfg.tp > 1 THEN "length" ELSE PlaceOf(0, m)
<1>1. /\ at[0] = "idle" /\ calls' = Append(calls, m) /\ at' = [at EXCEPT ![0] = p]
      /\ UNCHANGED <<cfg, inside, entered, kvBlocks>> /\ UNCHANGED <<shm, event, signal, got, log>>
      /\ Started /\ mode' \in ModesAfter(m)
  BY DEF Call, wire, Started, StartPlaces, Gone
<1>2. /\ p \in {"length", "idle", "run", "exit"} /\ (cfg.tp > 1 => p = "length")
      /\ p \in {"run", "exit"} => m = p
  BY DEF PlaceOf, Local, Stats, Methods
<1> HIDE DEF p
<1>3. ~ inside[0] /\ 0 \in World
  <2>1. cfg \in Configs /\ ValidConfig(cfg)
    BY <1>1, WorldRanks DEF EngineInv, EngineTypeOK, SizesOK, Gone
  <2>2. 0 \in World
    BY <2>1, WorldRanks
  <2> QED BY <1>1, <2>2, Lefts DEF Collective
<1>4. Moved(0, p)
  <2>1. at[0] \notin (StartPlaces \ {"open"}) \cup Gone
    BY <1>1 DEF StartPlaces, Gone
  <2>2. p \in Places \ StartPlaces /\ p \notin Gone
    BY <1>2 DEF Places, StartPlaces, Gone
  <2> QED BY <1>1, <1>3, <2>1, <2>2, MoveOn DEF Gone
<1> USE DEF Moved
<1>5. /\ calls' \in Seq(Methods) /\ Len(calls') = Len(calls) + 1
      /\ calls'[Len(calls')] = m /\ calls' # << >> /\ Len(calls) \in Nat
      /\ \A j \in 1 .. Len(calls) : calls'[j] = calls[j]
  BY <1>1, Lengths
<1>6. 1 .. Len(calls) \subseteq 1 .. Len(calls') /\ 0 .. Len(calls) \subseteq 0 .. Len(calls')
  BY <1>5
<1>7. EngineTypeOK'
  <2>1. /\ log' \in [Ranks -> Seq(1 .. Len(calls'))]
        /\ got' \in [Ranks -> 0 .. Len(calls')]
        /\ shm' \in [there : BOOLEAN, len : 0 .. Len(calls'), body : 0 .. Len(calls')]
    <3>1. log \in [Ranks -> Seq(1 .. Len(calls))] /\ got \in [Ranks -> 0 .. Len(calls)]
          /\ shm \in [there : BOOLEAN, len : 0 .. Len(calls), body : 0 .. Len(calls)]
      BY DEF EngineInv, EngineTypeOK
    <3>2. \A r \in Ranks : log[r] \in Seq(1 .. Len(calls'))
      BY <1>6, <3>1, WiderSeq
    <3>3. shm' \in [there : BOOLEAN, len : 0 .. Len(calls'), body : 0 .. Len(calls')]
      <4> DEFINE A == 0 .. Len(calls)
                 B == 0 .. Len(calls')
      <4>1. shm \in [there : BOOLEAN, len : A, body : A] /\ A \subseteq B
        BY <1>6, <3>1
      <4> HIDE DEF A, B
      <4>2. shm \in [there : BOOLEAN, len : B, body : B]
        BY <4>1
      <4> QED BY <1>1, <4>2 DEF B
    <3> QED BY <1>1, <1>6, <3>1, <3>2, <3>3
  <2>2. \A w \in Workers : shm'.there
    BY <1>1, <1>4 DEF EngineInv, RankPlacesOK
  <2>3. mode' \in {"rest", "generating"}
    BY <1>1 DEF ModesAfter
  <2> QED BY <1>1, <1>4, <1>5, <2>1, <2>2, <2>3 DEF EngineInv, EngineTypeOK
<1>8. RankPlacesOK'
  <2>1. signal = 1
    BY <1>1 DEF EngineInv, RankPlacesOK
  <2>2. cfg.tp > 1 => shm'.there
    BY <1>1 DEF EngineInv, RankPlacesOK
  <2>3. \A w \in Ranks \ {0} : at'[w] = at[w]
    BY <1>4
  <2>4. p = "length" => cfg.tp > 1
    BY <1>2 DEF p, PlaceOf, Local, Stats, Methods
  <2>5. signal' = 1 /\ at'[0] = p /\ p \notin {"join", "done", "raised", "signal", "config", "barrier"}
    BY <1>1, <1>2, <1>4, <2>1
  <2> QED BY <1>2, <1>4, <1>5, <2>2, <2>3, <2>4, <2>5
       DEF EngineInv, RankPlacesOK, Announcing, Meeting0
<1>9. MessageOK' /\ WorkersOK' /\ NothingYet'
  <2>1. \A w \in Workers : at'[w] = at[w]
    BY <1>4
  <2> QED BY <1>1, <1>2, <1>4, <2>1 DEF EngineInv, MessageOK, WorkersOK, NothingYet, Gone
<1>10. StepsOK'
  <2> SUFFICES ASSUME NEW w \in Workers
               PROVE  (IF InStepSoFar(w) THEN FollowsOK(w) ELSE LostStep(w))'
    BY <1>4 DEF StepsOK
  <2>1. CASE InStepSoFar(w)
    <3>1. p = "length" /\ FollowsOK(w)
      BY <1>1, <1>2, <1>4, <2>1 DEF EngineInv, StepsOK
    <3> QED BY <1>4, <2>1, <3>1, CallFollows
  <2>2. CASE ~ InStepSoFar(w)
    <3>1. LostStep(w) /\ ~ InStepSoFar(w)'
      <4>1. \A i \in DOMAIN log[w] : i \in 1 .. Len(calls) \/ log[w][i] # i
        BY <1>4, Lengths
      <4> QED BY <1>1, <1>5, <2>2, <4>1 DEF EngineInv, StepsOK, InStepSoFar, Raised
    <3>2. PICK k \in DOMAIN log[w] :
             /\ log[w][k] # k \/ Raised(k)
             /\ k <= Len(calls) /\ ~ Meets(k) /\ \A j \in 1 .. k - 1 : log[w][j] = j /\ ~ Raised(j)
      BY <3>1 DEF LostStep
    <3>3. k \in 1 .. Len(calls) /\ 1 .. k - 1 \subseteq 1 .. Len(calls)
      BY <1>4, <3>2, Lengths
    <3>4. ~ Meets(k)' /\ k <= Len(calls') /\ (Raised(k) => Raised(k)')
      BY <1>5, <3>2, <3>3 DEF Meets, Raised
    <3>5. \A j \in 1 .. k - 1 : ~ Raised(j)'
      BY <1>5, <3>2, <3>3 DEF Raised
    <3> QED BY <1>1, <3>1, <3>2, <3>4, <3>5 DEF LostStep
  <2> QED BY <2>1, <2>2
<1> QED BY <1>4, <1>7, <1>8, <1>9, <1>10 DEF EngineInv

(* The message is written in three steps; nobody is told yet.              *)
LEMMA WriteStep ==
  ASSUME EngineInv, NEW from \in {"length", "copy", "copying"}, NEW to \in {"copy", "copying", "signal"},
         NEW message \in [there : BOOLEAN, len : 0 .. Len(calls), body : 0 .. Len(calls)],
         Writes(from, to, message), message.there = shm.there, message.len = Len(calls),
         to = "signal" => message.body = Len(calls)
  PROVE  EngineInv'
<1>1. /\ at[0] = from /\ at' = [at EXCEPT ![0] = to] /\ shm' = message
      /\ UNCHANGED <<cfg, inside, entered, kvBlocks>>
      /\ UNCHANGED <<event, signal, got, log, calls, mode>>
      /\ Started /\ Announcing /\ ~ Meeting0
  BY DEF Writes, program, Started, StartPlaces, Announcing, Meeting0, Gone
<1>2. /\ cfg.tp > 1 /\ calls # << >> /\ signal = 1 /\ shm.there
      /\ cfg \in Configs /\ cfg.tp \in Int /\ 0 \in World
  <2>1. cfg \in Configs
    BY DEF EngineInv, EngineTypeOK
  <2>2. cfg.tp > 1 /\ calls # << >> /\ signal = 1 /\ shm.there
    BY <1>1 DEF EngineInv, RankPlacesOK, Announcing
  <2>3. cfg.tp \in Int
    BY <2>1, EngineAssumption
  <2>4. 0 \in World
    BY <2>2, <2>3 DEF World
  <2> QED BY <2>1, <2>2, <2>3, <2>4
<1>3. Moved(0, to)
  <2>1. at[0] \notin (StartPlaces \ {"open"}) \cup Gone /\ ~ inside[0]
    BY <1>1, <1>2, Lefts DEF StartPlaces, Collective, Gone
  <2>2. to \in Places \ StartPlaces /\ to # "failed"
    BY DEF Places, StartPlaces, Gone
  <2> QED BY <1>1, <1>2, <2>1, <2>2, MoveOn
<1> USE DEF Moved
<1>4. \A w \in Workers : at'[w] = at[w] /\ w # 0 /\ w \in Nat /\ 1 <= w
  BY <1>2, <1>3 DEF World, Workers
<1>5. EngineTypeOK'
  BY <1>1, <1>2, <1>3 DEF EngineInv, EngineTypeOK
<1>6. 1 \in Workers
  BY <1>2 DEF World, Workers
<1>7. RankPlacesOK' /\ Announcing' /\ ~ Meeting0'
  BY <1>1, <1>2, <1>3, <1>6 DEF EngineInv, RankPlacesOK, Announcing, Meeting0
<1>8. MessageOK' /\ WorkersOK' /\ NothingYet'
  BY <1>1, <1>3, <1>4 DEF EngineInv, MessageOK, WorkersOK, NothingYet, Gone
<1>9. StepsOK'
  <2> SUFFICES ASSUME NEW w \in Workers
               PROVE  (IF InStepSoFar(w) THEN FollowsOK(w) ELSE LostStep(w))'
    BY <1>3 DEF StepsOK
  <2>1. Told(w)' = Told(w)
    BY <1>1, <1>2, <1>3, <1>4 DEF Told
  <2>2. Due(w)' = Due(w)
    BY <1>1, <1>4 DEF Due
  <2>3. /\ InStepSoFar(w)' = InStepSoFar(w) /\ Next1(w)' = Next1(w) /\ LostStep(w)' = LostStep(w)
        /\ \A j \in Nat : Meets(j)' = Meets(j)
    BY <1>1 DEF InStepSoFar, LostStep, Meets, Next1, Raised
  <2>4. Owes(w)' = Owes(w) /\ Announced' = Announced
    BY <1>1, <1>3, <1>7 DEF Owes, Announced, Meets
  <2> QED BY <1>1, <1>4, <1>7, <2>1, <2>2, <2>3, <2>4 DEF EngineInv, StepsOK, FollowsOK, Meets
<1> QED BY <1>3, <1>5, <1>7, <1>8, <1>9 DEF EngineInv

LEMMA WritesStep ==
  ASSUME EngineInv, WriteLength \/ StartCopy \/ EndCopy
  PROVE  EngineInv'
<1>1. /\ shm \in [there : BOOLEAN, len : 0 .. Len(calls), body : 0 .. Len(calls)]
      /\ Len(calls) \in 0 .. Len(calls) /\ 0 \in 0 .. Len(calls)
  BY Lengths DEF EngineInv, EngineTypeOK
<1>2. at[0] \in {"copy", "copying"} => shm.len = Len(calls)
  BY DEF EngineInv, MessageOK, RankPlacesOK, Announcing
<1>3. CASE WriteLength
  <2> DEFINE message == [shm EXCEPT !.len = Len(calls)]
  <2>1. /\ message \in [there : BOOLEAN, len : 0 .. Len(calls), body : 0 .. Len(calls)]
        /\ message.there = shm.there /\ message.len = Len(calls)
    BY <1>1
  <2>2. Writes("length", "copy", message)
    BY <1>3 DEF WriteLength
  <2> HIDE DEF message
  <2> QED BY <2>1, <2>2, WriteStep
<1>4. CASE StartCopy
  <2> DEFINE message == [shm EXCEPT !.body = 0]
  <2>1. at[0] = "copy" /\ Writes("copy", "copying", message)
    BY <1>4 DEF StartCopy, Writes
  <2>2. /\ message \in [there : BOOLEAN, len : 0 .. Len(calls), body : 0 .. Len(calls)]
        /\ message.there = shm.there /\ message.len = Len(calls)
    BY <1>1, <1>2, <2>1
  <2> HIDE DEF message
  <2> QED BY <2>1, <2>2, WriteStep
<1>5. CASE EndCopy
  <2> DEFINE message == [shm EXCEPT !.body = Len(calls)]
  <2>1. at[0] = "copying" /\ Writes("copying", "signal", message)
    BY <1>5 DEF EndCopy, Writes
  <2>2. /\ message \in [there : BOOLEAN, len : 0 .. Len(calls), body : 0 .. Len(calls)]
        /\ message.there = shm.there /\ message.len = Len(calls) /\ message.body = Len(calls)
    BY <1>1, <1>2, <2>1
  <2> HIDE DEF message
  <2> QED BY <2>1, <2>2, WriteStep
<1> QED BY <1>3, <1>4, <1>5

(* A worker is told of the call it has not made yet.                       *)
LEMMA SetEventFollows ==
  ASSUME EngineInv, SetEvent, NEW p, Moved(0, p), ~ inside[0], signal \in Workers,
         (signal = cfg.tp - 1 /\ p = PlaceOf(0, calls[Len(calls)]) /\ signal' = 1)
           \/ (signal # cfg.tp - 1 /\ p = "signal" /\ signal' = signal + 1),
         NEW w \in Workers, InStepSoFar(w), FollowsOK(w)
  PROVE  InStepSoFar(w)' /\ FollowsOK(w)'
<1> USE DEF Moved
<1>1. /\ at[0] = "signal" /\ event' = [event EXCEPT ![signal] = TRUE]
      /\ UNCHANGED <<shm, got, log, calls, mode>> /\ calls # << >>
  BY DEF SetEvent, program, EngineInv, RankPlacesOK, Announcing
<1>2. PICK n \in Nat \ {0} : n = Len(calls)
  BY <1>1, Lengths
<1>3. PICK l \in Nat : l = Len(log[w])
  BY Lengths
<1>4. /\ cfg.tp \in Int /\ w \in 1 .. cfg.tp - 1 /\ signal \in 1 .. cfg.tp - 1
      /\ calls[n] \in Methods /\ at'[w] = at[w] /\ at'[0] = p
      /\ event \in [Ranks -> BOOLEAN]
  <2>1. cfg.tp \in Int
    BY EngineAssumption
  <2>2. calls[n] \in Methods
    BY <1>2, Lengths
  <2>3. w \in 1 .. cfg.tp - 1 /\ signal \in 1 .. cfg.tp - 1
    BY <2>1 DEF World, Workers
  <2>4. event \in [Ranks -> BOOLEAN]
    BY DEF EngineInv, EngineTypeOK
  <2> QED BY <2>1, <2>2, <2>3, <2>4
<1>5. p = "signal" \/ (p \in {"run", "exit"} /\ calls[n] = p) \/ (p = "idle" /\ ~ Meets(n))
  BY <1>2, <1>4 DEF PlaceOf, Meets, Local, Stats, Methods
<1>6. Announcing /\ ~ Meeting0
  BY <1>1 DEF Announcing, Meeting0
<1>7. /\ Told(w) = IF signal <= w THEN n - 1 ELSE n
      /\ Told(w)' = IF signal < w THEN n - 1 ELSE n
  <2>1. Told(w) = IF signal <= w THEN n - 1 ELSE n
    BY <1>1, <1>2 DEF Told
  <2>2. CASE signal = cfg.tp - 1
    <3>1. p \in {"run", "exit", "idle"} /\ ~ signal < w
      BY <1>2, <1>4, <2>2 DEF PlaceOf, Local, Stats, Methods
    <3>2. Told(w)' = n
      BY <1>1, <1>2, <1>4, <3>1 DEF Told
    <3> QED BY <2>1, <3>1, <3>2
  <2>3. CASE signal # cfg.tp - 1
    <3>1. at'[0] = "signal" /\ signal' = signal + 1
      BY <1>4, <2>3
    <3>2. Told(w)' = IF signal + 1 <= w THEN n - 1 ELSE n
      BY <1>1, <1>2, <3>1 DEF Told
    <3> QED BY <1>4, <2>1, <3>2
  <2> QED BY <2>2, <2>3
<1>8. event'[w] = event[w] \/ w = signal
  BY <1>1, <1>4
<1>9. l <= Told(w)' /\ (event'[w] \/ at[w] \in {"read", "clear"} => l < Told(w)')
  <2>1. l <= Told(w) /\ (event[w] \/ at[w] \in {"read", "clear"} => l < Told(w))
    BY <1>3 DEF FollowsOK
  <2> QED BY <1>2, <1>3, <1>4, <1>7, <1>8, <2>1
<1>10. \A j \in Nat : Meets(j)' <=> Meets(j)
  BY <1>1 DEF Meets
<1>11. Meets(n) => Announcing' \/ Meeting0'
  BY <1>4, <1>5 DEF Announcing, Meeting0
<1>12. Announced' = Announced
  <2>1. Announced = IF Meets(n) THEN entered[0] + 1 ELSE entered[0]
    BY <1>2, <1>6 DEF Announced
  <2>2. CASE p = "signal"
    <3>1. Announcing' /\ ~ Meeting0' /\ Meets(Len(calls))' = Meets(n)
      BY <1>1, <1>2, <1>4, <2>2 DEF Announcing, Meeting0, Meets
    <3> QED BY <2>1, <3>1 DEF Announced
  <2>3. CASE p \in {"run", "exit"} /\ calls[n] = p
    <3>1. Meets(n)
      BY <2>3 DEF Meets, Local, Stats, Methods
    <3>2. ~ Announcing' /\ Meeting0' /\ ~ inside'[0]
      BY <1>4, <2>3 DEF Announcing, Meeting0
    <3> QED BY <2>1, <3>1, <3>2 DEF Announced
  <2>4. CASE p = "idle" /\ ~ Meets(n)
    <3>1. ~ Announcing' /\ ~ Meeting0'
      BY <1>4, <2>4 DEF Announcing, Meeting0
    <3> QED BY <2>1, <2>4, <3>1 DEF Announced
  <2> QED BY <1>5, <2>2, <2>3, <2>4
<1>13. Owes(w)' <=> Owes(w)
  <2>1. Owes(w) <=> n > l /\ Meets(n)
    BY <1>2, <1>3, <1>6 DEF Owes
  <2>2. Owes(w)' <=> (Announcing' \/ Meeting0') /\ n > l /\ Meets(n)
    BY <1>1, <1>2, <1>3 DEF Owes, Meets
  <2> QED BY <1>11, <2>1, <2>2
<1>14. Due(w)' = Due(w) /\ Next1(w)' = l + 1 /\ Next1(w) = l + 1 /\ InStepSoFar(w)'
  BY <1>1, <1>3, <1>4 DEF Due, Next1, InStepSoFar, Raised
<1>15. /\ \A j \in l + 1 .. n : Meets(j)' => j = n /\ (Announcing' \/ Meeting0')
       /\ at[w] \in {"read", "clear"} /\ Meets(l + 1)' => got'[w] = l + 1
       /\ at[w] = "failed" => l + 1 <= n /\ ~ Meets(l + 1)'
  BY <1>1, <1>2, <1>10, <1>11, <1>14 DEF FollowsOK
<1>16. Announced' = IF Owes(w)' THEN Due(w)' + 1 ELSE Due(w)'
  BY <1>12, <1>13, <1>14 DEF FollowsOK
<1>17. Len(log[w])' = l /\ Len(calls)' = n
  BY <1>1, <1>2, <1>3
<1> QED BY <1>4, <1>9, <1>14, <1>15, <1>16, <1>17 DEF FollowsOK

LEMMA SetEventStep ==
  ASSUME EngineInv, SetEvent
  PROVE  EngineInv'
<1> DEFINE p == IF signal = cfg.tp - 1 THEN PlaceOf(0, calls[Len(calls)]) ELSE "signal"
<1>1. /\ at[0] = "signal" /\ event' = [event EXCEPT ![signal] = TRUE]
      /\ UNCHANGED <<shm, got, log, calls, mode>> /\ UNCHANGED <<cfg, inside, entered, kvBlocks>>
      /\ Started /\ Announcing
  BY DEF SetEvent, program, Started, StartPlaces, Announcing, Gone
<1>2. /\ cfg.tp > 1 /\ calls # << >> /\ signal \in Workers /\ shm.there
      /\ cfg \in Configs /\ cfg.tp \in Int /\ 0 \in World /\ signal \in 1 .. cfg.tp - 1
  <2>1. cfg \in Configs
    BY DEF EngineInv, EngineTypeOK
  <2>2. cfg.tp > 1 /\ calls # << >> /\ signal \in Workers /\ shm.there
    BY <1>1 DEF EngineInv, RankPlacesOK, Announcing
  <2> QED BY <2>1, <2>2, EngineAssumption DEF World, Workers
<1>3. PICK n \in Nat \ {0} : n = Len(calls)
  BY <1>2, Lengths
<1>4. calls[n] \in Methods
  BY <1>3, Lengths
<1>5. p = "signal" \/ (p \in {"run", "exit"} /\ calls[n] = p) \/ p = "idle"
  BY <1>3, <1>4 DEF PlaceOf, Local, Stats, Methods
<1>6. /\ at' = [at EXCEPT ![0] = p]
      /\ (signal = cfg.tp - 1 /\ p = PlaceOf(0, calls[Len(calls)]) /\ signal' = 1)
           \/ (signal # cfg.tp - 1 /\ p = "signal" /\ signal' = signal + 1)
  <2>1. CASE signal = cfg.tp - 1
    BY <2>1 DEF SetEvent
  <2>2. CASE signal # cfg.tp - 1
    <3>1. at \in [Ranks -> Places] /\ 0 \in Ranks
      BY <1>2, WorldRanks DEF EngineInv, EngineTypeOK
    <3> QED BY <1>1, <2>2, <3>1 DEF SetEvent
  <2> QED BY <2>1, <2>2
<1> HIDE DEF p
<1>7. ~ inside[0]
  BY <1>1, <1>2, Lefts DEF Collective
<1>8. Moved(0, p)
  <2>1. at[0] \notin (StartPlaces \ {"open"}) \cup Gone
    BY <1>1 DEF StartPlaces, Gone
  <2>2. p \in Places \ StartPlaces /\ p \notin Gone
    BY <1>5 DEF Places, StartPlaces, Gone
  <2> QED BY <1>1, <1>2, <1>6, <1>7, <2>1, <2>2, MoveOn DEF Gone
<1> USE DEF Moved
<1>9. \A w \in Workers : at'[w] = at[w]
  BY <1>8
<1>10. EngineTypeOK'
  <2>1. event' \in [Ranks -> BOOLEAN] /\ signal' \in Nat \ {0}
    <3>1. event \in [Ranks -> BOOLEAN] /\ event' = [event EXCEPT ![signal] = TRUE]
      BY <1>1 DEF EngineInv, EngineTypeOK
    <3>2. signal' = 1 \/ signal' = signal + 1
      BY <1>6
    <3>3. signal \in Nat \ {0}
      BY <1>2
    <3>4. event' \in [Ranks -> BOOLEAN]
      BY <3>1
    <3>5. signal' \in Nat \ {0}
      BY <3>2, <3>3
    <3> QED BY <3>4, <3>5
  <2> QED BY <1>1, <1>2, <1>8, <2>1 DEF EngineInv, EngineTypeOK
<1>11. RankPlacesOK'
  <2>1. IF at'[0] = "signal" THEN signal' \in Workers ELSE signal' = 1
    <3>1. signal # cfg.tp - 1 => signal + 1 \in Workers
      BY <1>2 DEF World, Workers
    <3>2. signal = cfg.tp - 1 => p # "signal"
      BY <1>3, <1>4 DEF p, PlaceOf, Local, Stats, Methods
    <3> QED BY <1>6, <1>8, <3>1, <3>2
  <2> QED BY <1>1, <1>2, <1>3, <1>5, <1>8, <1>9, <2>1
       DEF EngineInv, RankPlacesOK, Announcing, Meeting0
<1>12. MessageOK' /\ WorkersOK' /\ NothingYet'
  BY <1>1, <1>8, <1>9 DEF EngineInv, MessageOK, WorkersOK, NothingYet, Gone
<1>13. StepsOK'
  <2> SUFFICES ASSUME NEW w \in Workers
               PROVE  (IF InStepSoFar(w) THEN FollowsOK(w) ELSE LostStep(w))'
    BY <1>8 DEF StepsOK
  <2>1. CASE InStepSoFar(w)
    <3>1. FollowsOK(w)
      BY <1>1, <2>1 DEF EngineInv, StepsOK
    <3> QED BY <1>2, <1>6, <1>7, <1>8, <2>1, <3>1, SetEventFollows
  <2>2. CASE ~ InStepSoFar(w)
    BY <1>1, <2>2 DEF EngineInv, StepsOK, LostStep, InStepSoFar, Meets, Raised
  <2> QED BY <2>1, <2>2
<1> QED BY <1>8, <1>10, <1>11, <1>12, <1>13 DEF EngineInv

LEMMA JoinStep ==
  ASSUME EngineInv, Join
  PROVE  EngineInv'
<1>1. /\ at[0] = "join" /\ at' = [at EXCEPT ![0] = "done"]
      /\ UNCHANGED <<cfg, inside, entered, kvBlocks>>
      /\ UNCHANGED <<shm, event, signal, got, log, calls, mode>>
      /\ Started
  BY DEF Join, wire, program, Started, StartPlaces, Gone
<1>2. ~ inside[0] /\ 0 \in World
  <2>1. cfg \in Configs /\ 0 \in Ranks
    BY <1>1, WorldRanks DEF EngineInv, EngineTypeOK
  <2>2. ValidConfig(cfg)
    BY <1>1, <2>1 DEF EngineInv, SizesOK, Gone
  <2>3. 0 \in World
    BY <2>1, <2>2, WorldRanks
  <2> QED BY <1>1, <2>3, Lefts DEF Collective
<1>3. Moved(0, "done")
  <2>1. at[0] \notin (StartPlaces \ {"open"}) \cup Gone
    BY <1>1 DEF StartPlaces, Gone
  <2>2. "done" \in Places \ StartPlaces /\ "done" # "failed"
    BY DEF Places, StartPlaces, Gone
  <2> QED BY <1>1, <1>2, <2>1, <2>2, MoveOn
<1> USE DEF Moved
<1>4. \A w \in Workers : at'[w] = at[w]
  BY <1>3
<1>5. EngineTypeOK'
  BY <1>1, <1>3 DEF EngineInv, EngineTypeOK
<1>6. RankPlacesOK'
  BY <1>1, <1>3, <1>4 DEF EngineInv, RankPlacesOK, Announcing, Meeting0
<1>7. MessageOK' /\ WorkersOK' /\ NothingYet'
  BY <1>1, <1>3, <1>4 DEF EngineInv, MessageOK, WorkersOK, NothingYet, Gone
<1>8. StepsOK'
  <2> SUFFICES ASSUME NEW w \in Workers
               PROVE  (IF InStepSoFar(w) THEN FollowsOK(w) ELSE LostStep(w))'
    BY <1>3 DEF StepsOK
  <2>1. Told(w)' = Told(w) /\ Due(w)' = Due(w) /\ Announced' = Announced /\ (Owes(w)' <=> Owes(w))
    BY <1>1, <1>3, <1>4 DEF Told, Due, Announced, Owes, Announcing, Meeting0
  <2>2. /\ InStepSoFar(w)' = InStepSoFar(w) /\ Next1(w)' = Next1(w) /\ LostStep(w)' = LostStep(w)
        /\ \A j \in Nat : Meets(j)' = Meets(j)
    BY <1>1 DEF InStepSoFar, LostStep, Meets, Next1, Raised
  <2>3. ~ Announcing /\ ~ Meeting0
    BY <1>1 DEF Announcing, Meeting0
  <2> QED BY <1>1, <1>4, <2>1, <2>2, <2>3 DEF EngineInv, StepsOK, FollowsOK, Meets
<1> QED BY <1>3, <1>5, <1>6, <1>7, <1>8 DEF EngineInv

-----------------------------------------------------------------------------
(***************************************************************************)
(* The steps of a worker.                                                  *)
(***************************************************************************)
(* Once a worker waits, startup is over on rank 0 or nothing was sent.     *)
LEMMA ReadsWhenStarted ==
  ASSUME EngineInv, NEW w \in Workers, (at[w] = "wait" /\ event[w]) \/ at[w] \in {"read", "clear"}
  PROVE  Started
BY DEF EngineInv, NothingYet, StartPlaces, Gone

(* What the step of one worker changes beside its place.                   *)
WorkerStep(w, p) ==
  /\ Moved(w, p) /\ w # 0 /\ at'[0] = at[0] /\ \A v \in Workers \ {w} : at'[v] = at[v]
  /\ UNCHANGED <<shm, signal, calls, mode>>

LEMMA WorkerMoves ==
  ASSUME EngineInv, NEW w \in Workers, at[w] \in {"wait", "read", "clear"},
         NEW p \in Places \ StartPlaces, p # "raised", at' = [at EXCEPT ![w] = p],
         UNCHANGED <<cfg, inside, entered, kvBlocks, shm, signal, calls, mode>>
  PROVE  WorkerStep(w, p)
<1>1. w \in World /\ w # 0
  BY DEF Workers
<1>2. at[w] \notin (StartPlaces \ {"open"}) \cup Gone
  BY DEF StartPlaces, Gone
<1>3. inside[w] => p \in Collective
  BY <1>1, Lefts DEF Collective
<1>4. Moved(w, p)
  BY <1>1, <1>2, <1>3, MoveOn
<1> QED BY <1>1, <1>4 DEF WorkerStep, Moved

(* The other workers, the message and rank 0 are as they were.             *)
LEMMA WorkerLeaves ==
  ASSUME EngineInv, NEW w \in Workers, NEW p, WorkerStep(w, p), Started,
         p \notin {"config", "create", "idle", "length", "copy", "copying", "signal", "join"}
  PROVE  RankPlacesOK' /\ MessageOK' /\ NothingYet'
<1> USE DEF WorkerStep, Moved
<1>1. \A v \in Ranks \ {0} :
        at'[v] \notin {"config", "create", "idle", "length", "copy", "copying", "signal", "join"}
  <2>1. \A v \in Ranks : at'[v] = at[v] \/ at'[v] = p
    OBVIOUS
  <2> QED BY <2>1 DEF EngineInv, RankPlacesOK
<1>2. RankPlacesOK'
  <2>1. at[0] # "config"
    BY DEF Started, StartPlaces, Gone
  <2> QED BY <1>1, <2>1 DEF EngineInv, RankPlacesOK, Announcing, Meeting0
<1>3. MessageOK'
  BY DEF EngineInv, MessageOK
<1>4. NothingYet'
  BY DEF NothingYet, Gone
<1> QED BY <1>2, <1>3, <1>4

(* A worker that does not move keeps step or has lost it as before.        *)
LEMMA OthersKeep ==
  ASSUME EngineInv, NEW w \in Workers, NEW p, WorkerStep(w, p), Started,
         NEW v \in Workers \ {w}, event'[v] = event[v], got'[v] = got[v], log'[v] = log[v]
  PROVE  (IF InStepSoFar(v) THEN FollowsOK(v) ELSE LostStep(v))'
<1> USE DEF WorkerStep, Moved
<1>1. at'[v] = at[v] /\ IF InStepSoFar(v) THEN FollowsOK(v) ELSE LostStep(v)
  BY DEF EngineInv, StepsOK
<1>2. /\ InStepSoFar(v)' = InStepSoFar(v) /\ Next1(v)' = Next1(v) /\ LostStep(v)' = LostStep(v)
      /\ \A j \in Nat : Meets(j)' = Meets(j)
  BY DEF InStepSoFar, LostStep, Meets, Next1, Raised
<1>3. /\ Told(v)' = Told(v) /\ Due(v)' = Due(v) /\ Announced' = Announced /\ Owes(v)' = Owes(v)
      /\ Announcing' = Announcing /\ Meeting0' = Meeting0
  BY <1>1 DEF Told, Due, Announced, Owes, Announcing, Meeting0, Meets
<1> QED BY <1>1, <1>2, <1>3 DEF FollowsOK, Meets

(* A worker that reads has made no call meanwhile.                         *)
LEMMA OwnKept ==
  ASSUME EngineInv, NEW w \in Workers, NEW p, WorkerStep(w, p), Started, log' = log,
         at[w] \in {"wait", "read"}, p \notin {"run", "exit"}
  PROVE  /\ InStepSoFar(w)' = InStepSoFar(w) /\ Next1(w)' = Next1(w) /\ LostStep(w)' = LostStep(w)
         /\ \A j \in Nat : Meets(j)' = Meets(j)
         /\ Told(w)' = Told(w) /\ Due(w)' = Due(w) /\ Announced' = Announced /\ Owes(w)' = Owes(w)
         /\ Announcing' = Announcing /\ Meeting0' = Meeting0
<1> USE DEF WorkerStep, Moved
<1>1. at'[w] = p
  OBVIOUS
<1>2. /\ InStepSoFar(w)' = InStepSoFar(w) /\ Next1(w)' = Next1(w) /\ LostStep(w)' = LostStep(w)
      /\ \A j \in Nat : Meets(j)' = Meets(j)
  BY DEF InStepSoFar, LostStep, Meets, Next1, Raised
<1>3. Due(w)' = Due(w)
  BY <1>1 DEF Due
<1> QED BY <1>2, <1>3 DEF Told, Announced, Owes, Announcing, Meeting0, Meets

(* The message is whole when a worker in step reads one with collectives.  *)
LEMMA WholeMessage ==
  ASSUME EngineInv, NEW w \in Workers, FollowsOK(w), Len(log[w]) < Told(w), Meets(Next1(w))
  PROVE  Next1(w) = Len(calls) /\ shm.len = Len(calls) /\ shm.body = Len(calls)
<1>1. PICK n \in Nat : n = Len(calls)
  BY Lengths
<1>2. w \in Ranks /\ cfg.tp > 1 /\ w \in Nat
  <2>1. cfg \in Configs /\ cfg.tp \in Int
    BY EngineAssumption DEF EngineInv, EngineTypeOK
  <2>2. w \in Ranks
    BY <2>1, WorldRanks
  <2> QED BY <2>1, <2>2 DEF World, Workers
<1>3. PICK l \in Nat : l = Len(log[w])
  BY <1>2, Lengths
<1>4. Told(w) = n \/ Told(w) = n - 1
  BY <1>1 DEF Told
<1>5. l + 1 \in l + 1 .. n /\ Next1(w) = l + 1
  BY <1>1, <1>3, <1>4 DEF Next1
<1>6. l + 1 = n
  BY <1>1, <1>5 DEF FollowsOK
<1>7. Told(w) = n
  BY <1>1, <1>3, <1>4, <1>6
<1>8. at[0] \notin {"length", "copy", "copying"}
  BY <1>1, <1>7 DEF Told
<1>9. calls # << >>
  BY <1>1, <1>3, <1>6
<1> QED BY <1>1, <1>2, <1>5, <1>6, <1>8, <1>9 DEF EngineInv, MessageOK

LEMMA ReadLengthStep ==
  ASSUME EngineInv, NEW w \in Workers, ReadLength(w)
  PROVE  EngineInv'
<1>1. /\ at[w] = "wait" /\ event[w] /\ got' = [got EXCEPT ![w] = shm.len]
      /\ at' = [at EXCEPT ![w] = "read"] /\ event' = event /\ log' = log
      /\ UNCHANGED <<cfg, inside, entered, kvBlocks, shm, signal, calls, mode>>
  BY DEF ReadLength, program
<1>2. Started
  BY <1>1, ReadsWhenStarted
<1>3. WorkerStep(w, "read")
  <2>1. "read" \in Places \ StartPlaces
    BY DEF Places, StartPlaces, Gone
  <2> QED BY <1>1, <2>1, WorkerMoves
<1> USE DEF WorkerStep, Moved
<1>4. RankPlacesOK' /\ MessageOK' /\ NothingYet'
  <2> DEFINE p == "read"
  <2>1. p \notin {"config", "create", "idle", "length", "copy", "copying", "signal", "join"}
    OBVIOUS
  <2> QED BY <1>2, <1>3, <2>1, WorkerLeaves
<1>5. got' \in [Ranks -> 0 .. Len(calls)] /\ got'[w] = shm.len /\ \A v \in Workers \ {w} : got'[v] = got[v]
  BY <1>1, <1>3 DEF EngineInv, EngineTypeOK
<1>6. EngineTypeOK'
  BY <1>1, <1>3, <1>5 DEF EngineInv, EngineTypeOK
<1>7. WorkersOK'
  BY <1>1, <1>3, <1>5 DEF EngineInv, WorkersOK
<1>8. (IF InStepSoFar(w) THEN FollowsOK(w) ELSE LostStep(w))'
  <2> DEFINE p == "read"
  <2>1. p \notin {"run", "exit"}
    OBVIOUS
  <2>2. /\ InStepSoFar(w)' = InStepSoFar(w) /\ Next1(w)' = Next1(w) /\ LostStep(w)' = LostStep(w)
        /\ \A j \in Nat : Meets(j)' = Meets(j)
        /\ Told(w)' = Told(w) /\ Due(w)' = Due(w) /\ Announced' = Announced /\ Owes(w)' = Owes(w)
        /\ Announcing' = Announcing /\ Meeting0' = Meeting0
    BY <1>1, <1>2, <1>3, <2>1, OwnKept
  <2>3. CASE ~ InStepSoFar(w)
    BY <1>2, <2>2, <2>3 DEF EngineInv, StepsOK
  <2>4. CASE InStepSoFar(w)
    <3>1. FollowsOK(w) /\ Len(log[w]) < Told(w)
      BY <1>1, <1>2, <2>4 DEF EngineInv, StepsOK, FollowsOK
    <3>2. Meets(Next1(w)) => got'[w] = Next1(w)
      BY <1>5, <3>1, WholeMessage
    <3>3. Next1(w) \in Nat /\ Meets(Next1(w))' = Meets(Next1(w))
      BY <1>1, <1>3, Lengths DEF Next1, Meets
    <3>4. at'[w] = "read"
      BY <1>3
    <3> QED BY <1>1, <2>2, <2>4, <3>1, <3>2, <3>3, <3>4 DEF FollowsOK, Meets
  <2> QED BY <2>3, <2>4
<1>9. StepsOK'
  <2>1. \A v \in Workers \ {w} : (IF InStepSoFar(v) THEN FollowsOK(v) ELSE LostStep(v))'
    <3> SUFFICES ASSUME NEW v \in Workers \ {w}
                 PROVE  (IF InStepSoFar(v) THEN FollowsOK(v) ELSE LostStep(v))'
      OBVIOUS
    <3> QED BY <1>1, <1>2, <1>3, <1>5, OthersKeep
  <2> QED BY <1>3, <1>8, <2>1 DEF StepsOK
<1> QED BY <1>3, <1>4, <1>6, <1>7, <1>9 DEF EngineInv

LEMMA ReadBodyStep ==
  ASSUME EngineInv, NEW w \in Workers, ReadBody(w)
  PROVE  EngineInv'
<1> DEFINE whole == shm.body # 0 /\ got' = [got EXCEPT ![w] = shm.body] /\ at' = [at EXCEPT ![w] = "clear"]
           torn == shm.body # got[w] /\ at' = [at EXCEPT ![w] = "failed"] /\ got' = got
<1>1. /\ at[w] = "read" /\ (whole \/ torn) /\ event' = event /\ log' = log
      /\ UNCHANGED <<cfg, inside, entered, kvBlocks, shm, signal, calls, mode>>
  BY DEF ReadBody, program
<1>2. Started
  BY <1>1, ReadsWhenStarted
<1>3. PICK p \in {"clear", "failed"} :
        at' = [at EXCEPT ![w] = p] /\ (p = "clear" => whole) /\ (p = "failed" => torn)
  BY <1>1
<1> HIDE DEF whole, torn
<1>4. WorkerStep(w, p)
  <2>1. p \in Places \ StartPlaces
    BY DEF Places, StartPlaces, Gone
  <2> QED BY <1>1, <1>3, <2>1, WorkerMoves
<1> USE DEF WorkerStep, Moved
<1>5. RankPlacesOK' /\ MessageOK' /\ NothingYet'
  <2>1. p \notin {"config", "create", "idle", "length", "copy", "copying", "signal", "join"}
    BY <1>3
  <2> QED BY <1>2, <1>4, <2>1, WorkerLeaves
<1>6. /\ got' \in [Ranks -> 0 .. Len(calls)] /\ \A v \in Workers \ {w} : got'[v] = got[v]
      /\ p = "clear" => got'[w] = shm.body /\ shm.body # 0
  <2>1. got \in [Ranks -> 0 .. Len(calls)] /\ shm.body \in 0 .. Len(calls) /\ w \in Ranks
    BY <1>4 DEF EngineInv, EngineTypeOK
  <2>2. CASE p = "clear"
    BY <1>3, <1>4, <2>1, <2>2 DEF whole
  <2>3. CASE p = "failed"
    BY <1>3, <1>4, <2>1, <2>3 DEF torn
  <2> QED BY <2>2, <2>3
<1>7. at'[w] = p
  BY <1>4
<1>8. EngineTypeOK'
  BY <1>1, <1>4, <1>6 DEF EngineInv, EngineTypeOK
<1>9. WorkersOK'
  BY <1>1, <1>4, <1>6, <1>7 DEF EngineInv, WorkersOK
<1>10. (IF InStepSoFar(w) THEN FollowsOK(w) ELSE LostStep(w))'
  <2>1. p \notin {"run", "exit"}
    BY <1>3
  <2>2. /\ InStepSoFar(w)' = InStepSoFar(w) /\ Next1(w)' = Next1(w) /\ LostStep(w)' = LostStep(w)
        /\ \A j \in Nat : Meets(j)' = Meets(j)
        /\ Told(w)' = Told(w) /\ Due(w)' = Due(w) /\ Announced' = Announced /\ Owes(w)' = Owes(w)
        /\ Announcing' = Announcing /\ Meeting0' = Meeting0
    BY <1>1, <1>2, <1>4, <2>1, OwnKept
  <2>3. CASE ~ InStepSoFar(w)
    BY <1>2, <2>2, <2>3 DEF EngineInv, StepsOK
  <2>4. CASE InStepSoFar(w)
    <3>1. FollowsOK(w) /\ Len(log[w]) < Told(w)
      BY <1>1, <1>2, <2>4 DEF EngineInv, StepsOK, FollowsOK
    <3>2. Meets(Next1(w)) => shm.body = Next1(w) /\ got[w] = Next1(w)
      BY <1>1, <3>1, WholeMessage DEF FollowsOK
    <3>3. Next1(w) \in Nat /\ Meets(Next1(w))' = Meets(Next1(w))
      BY <1>1, <1>4, Lengths DEF Next1, Meets
    <3>4. Next1(w) <= Len(calls)
      <4>1. Len(calls) \in Nat /\ Len(log[w]) \in Nat
        BY <1>4, Lengths
      <4>2. Told(w) \in {Len(calls), Len(calls) - 1}
        BY DEF Told
      <4> QED BY <3>1, <4>1, <4>2 DEF Next1
    <3>5. p = "failed" => ~ Meets(Next1(w))
      BY <1>3, <3>2 DEF torn
    <3>6. p = "clear" /\ Meets(Next1(w)) => got'[w] = Next1(w)
      BY <1>6, <3>2
    <3> QED BY <1>1, <1>3, <1>7, <2>2, <2>4, <3>1, <3>3, <3>4, <3>5, <3>6 DEF FollowsOK, Meets
  <2> QED BY <2>3, <2>4
<1>11. StepsOK'
  <2>1. \A v \in Workers \ {w} : (IF InStepSoFar(v) THEN FollowsOK(v) ELSE LostStep(v))'
    <3> SUFFICES ASSUME NEW v \in Workers \ {w}
                 PROVE  (IF InStepSoFar(v) THEN FollowsOK(v) ELSE LostStep(v))'
      OBVIOUS
    <3> QED BY <1>1, <1>2, <1>4, <1>6, OthersKeep
  <2> QED BY <1>4, <1>10, <2>1 DEF StepsOK
<1> QED BY <1>4, <1>5, <1>8, <1>9, <1>11 DEF EngineInv

(* A worker makes the call it read: the next one, or it was none that has  *)
(* collectives. *)
LEMMA ClearFollows ==
  ASSUME EngineInv, NEW w \in Workers, Started, at[w] = "clear", got[w] \in 1 .. Len(calls),
         WorkerStep(w, PlaceOf(w, calls[got[w]])), ~ event'[w],
         log' = [log EXCEPT ![w] = Append(@, got[w])], got' = got,
         InStepSoFar(w), FollowsOK(w)
  PROVE  (IF InStepSoFar(w) THEN FollowsOK(w) ELSE LostStep(w))'
<1> USE DEF WorkerStep, Moved
<1>1. PICK n \in Nat : n = Len(calls) /\ n = Len(calls')
  BY Lengths
<1>2. PICK l \in Nat : l = Len(log[w])
  BY Lengths
<1>3. PICK g \in 1 .. n : g = got[w]
  BY <1>1
<1>4. /\ Len(log'[w]) = l + 1 /\ log'[w][l + 1] = g /\ DOMAIN log'[w] = 1 .. l + 1
      /\ DOMAIN log[w] = 1 .. l /\ \A j \in 1 .. l : log'[w][j] = log[w][j]
  <2>1. log'[w] = Append(log[w], g)
    <3>1. log \in [Ranks -> Seq(1 .. Len(calls))] /\ w \in Ranks
      BY DEF EngineInv, EngineTypeOK
    <3> QED BY <1>3, <3>1
  <2>2. log[w] \in Seq(1 .. n)
    BY <1>1, Lengths
  <2> QED BY <1>2, <2>1, <2>2
<1>5. \A j \in 1 .. l : log'[w][j] = j /\ ~ Raised(j) /\ ~ Raised(j)'
  BY <1>4 DEF InStepSoFar, Raised
<1>6. /\ l < Told(w) /\ Told(w) \in {n, n - 1} /\ l + 1 <= n
      /\ Meets(l + 1) => g = l + 1
  <2>1. Told(w) \in {n, n - 1}
    BY <1>1 DEF Told
  <2>2. l < Told(w) /\ (Meets(l + 1) => g = l + 1)
    BY <1>2, <1>3 DEF FollowsOK, Next1
  <2> QED BY <2>1, <2>2
<1>7. CASE g # l + 1 \/ Raised(l + 1)
  <2>1. Raised(l + 1) => Raised(l + 1)' /\ ~ Meets(l + 1)
    BY DEF Raised, Meets, Local
  <2>2. ~ InStepSoFar(w)'
    BY <1>4, <1>7, <2>1 DEF InStepSoFar
  <2>3. LostStep(w)'
    <3> DEFINE k == l + 1
    <3>1. /\ k \in DOMAIN log'[w] /\ (log'[w][k] # k \/ Raised(k)')
          /\ k <= Len(calls') /\ ~ Meets(k)'
      BY <1>1, <1>4, <1>6, <1>7, <2>1 DEF Meets
    <3>2. k - 1 = l
      OBVIOUS
    <3>3. \A j \in 1 .. k - 1 : log'[w][j] = j /\ ~ Raised(j)'
      BY <1>5, <3>2
    <3> HIDE DEF k
    <3> QED BY <3>1, <3>3 DEF LostStep
  <2> QED BY <2>2, <2>3
<1>8. CASE g = l + 1 /\ ~ Raised(l + 1)
  <2>1. InStepSoFar(w)'
    <3>1. ~ Raised(l + 1)'
      BY <1>8 DEF Raised
    <3> QED BY <1>4, <1>5, <1>8, <3>1 DEF InStepSoFar
  <2>2. /\ Told(w)' = Told(w) /\ Announced' = Announced /\ Announcing' = Announcing /\ Meeting0' = Meeting0
        /\ \A j \in Nat : Meets(j)' = Meets(j)
    BY DEF Told, Announced, Announcing, Meeting0, Meets
  <2>3. calls[g] \in Methods /\ calls[g] = calls[l + 1]
    BY <1>1, <1>8, Lengths
  <2>4. /\ at'[w] = IF Meets(l + 1) THEN calls[l + 1] ELSE "wait"
        /\ Meets(l + 1) => calls[l + 1] \in {"run", "exit"}
    <3>1. at'[w] = PlaceOf(w, calls[g])
      BY <1>3
    <3> QED BY <1>8, <2>3, <3>1 DEF PlaceOf, Meets, Raised, Methods
  <2>5. \A j \in l + 1 .. n : Meets(j) => j = n /\ (Announcing \/ Meeting0)
    BY <1>1, <1>2 DEF FollowsOK, Next1
  <2>6. Announced = IF (Announcing \/ Meeting0) /\ n > l /\ Meets(n) THEN entered[w] + 1 ELSE entered[w]
    <3>1. Due(w) = entered[w]
      BY DEF Due
    <3>2. Announced = IF Owes(w) THEN Due(w) + 1 ELSE Due(w)
      BY DEF FollowsOK
    <3> QED BY <1>1, <1>2, <3>1, <3>2 DEF Owes
  <2>7. Announced' = IF Owes(w)' THEN Due(w)' + 1 ELSE Due(w)'
    <3>1. Owes(w)' <=> (Announcing \/ Meeting0) /\ n > l + 1 /\ Meets(n)
      <4>1. Meets(Len(calls))' = Meets(n)
        BY <1>1, <2>2
      <4> QED BY <1>1, <1>4, <2>2, <4>1 DEF Owes
    <3>2. CASE Meets(l + 1)
      <4>1. l + 1 = n /\ (Announcing \/ Meeting0)
        BY <1>6, <2>5, <3>2
      <4>2. ~ inside[w]
        <5>1. w \in World
          OBVIOUS
        <5> QED BY <5>1, Lefts DEF Collective
      <4>3. Due(w)' = entered[w] + 1
        BY <2>4, <3>2, <4>2 DEF Due
      <4> QED BY <2>2, <2>6, <3>1, <3>2, <4>1, <4>3
    <3>3. CASE ~ Meets(l + 1)
      <4>1. Due(w)' = entered[w]
        BY <2>4, <3>3 DEF Due
      <4>2. n > l /\ Meets(n) <=> n > l + 1 /\ Meets(n)
        BY <1>6, <3>3
      <4> QED BY <2>2, <2>6, <3>1, <4>1, <4>2
    <3> QED BY <3>2, <3>3
  <2>8. at'[w] \in {"wait", "run", "exit"}
    BY <2>4
  <2>9. Next1(w)' = l + 2 /\ Len(log'[w]) <= Told(w)' /\ Len(calls') = n
    BY <1>1, <1>4, <1>6, <2>2 DEF Next1
  <2>10. \A j \in l + 2 .. n : Meets(j)' => j = n /\ (Announcing' \/ Meeting0')
    BY <2>2, <2>5
  <2> QED BY <2>1, <2>7, <2>8, <2>9, <2>10 DEF FollowsOK
<1> QED BY <1>7, <1>8

LEMMA ClearStep ==
  ASSUME EngineInv, NEW w \in Workers, ClearEvent(w)
  PROVE  EngineInv'
<1> DEFINE p == PlaceOf(w, calls[got[w]])
<1>1. /\ at[w] = "clear" /\ at' = [at EXCEPT ![w] = p] /\ got' = got
      /\ event' = [event EXCEPT ![w] = FALSE] /\ log' = [log EXCEPT ![w] = Append(@, got[w])]
      /\ UNCHANGED <<cfg, inside, entered, kvBlocks, shm, signal, calls, mode>>
  BY DEF ClearEvent, program, StillSet
<1>2. Started
  BY <1>1, ReadsWhenStarted
<1>3. w \in Ranks /\ w # 0
  BY WorldRanks DEF EngineInv, EngineTypeOK
<1>4. PICK n \in Nat : n = Len(calls)
  BY Lengths
<1>5. got[w] \in 1 .. n /\ calls[got[w]] \in Methods
  <2>1. got[w] \in 0 .. n /\ got[w] # 0
    BY <1>1, <1>3, <1>4, Lengths DEF EngineInv, WorkersOK
  <2>2. got[w] \in 1 .. n
    BY <2>1
  <2> QED BY <1>4, <2>2, Lengths
<1>6. p \in {"wait", "run", "exit", "failed"}
  BY <1>3, <1>5 DEF PlaceOf, Local, Stats, Methods
<1>7. WorkerStep(w, p)
  <2>1. p \in Places \ StartPlaces /\ p # "raised"
    BY <1>6 DEF Places, StartPlaces, Gone
  <2> HIDE DEF p
  <2> QED BY <1>1, <2>1, WorkerMoves
<1> USE DEF WorkerStep, Moved
<1>8. RankPlacesOK' /\ MessageOK' /\ NothingYet'
  <2>1. p \notin {"config", "create", "idle", "length", "copy", "copying", "signal", "join"}
    BY <1>6
  <2> HIDE DEF p
  <2> QED BY <1>2, <1>7, <2>1, WorkerLeaves
<1>9. /\ event' \in [Ranks -> BOOLEAN] /\ event'[w] = FALSE
      /\ \A v \in Workers \ {w} : event'[v] = event[v]
  <2>1. event \in [Ranks -> BOOLEAN]
    BY DEF EngineInv, EngineTypeOK
  <2>2. event' \in [Ranks -> BOOLEAN]
    BY <1>1, <2>1
  <2>3. \A v \in Ranks \ {w} : event'[v] = event[v]
    BY <1>1, <2>1
  <2> QED BY <1>1, <1>3, <1>7, <2>1, <2>2, <2>3
<1>10. log' \in [Ranks -> Seq(1 .. Len(calls))] /\ \A v \in Workers \ {w} : log'[v] = log[v]
  <2>1. log \in [Ranks -> Seq(1 .. Len(calls))]
    BY DEF EngineInv, EngineTypeOK
  <2>2. Append(log[w], got[w]) \in Seq(1 .. Len(calls))
    BY <1>3, <1>4, <1>5, <2>1
  <2> QED BY <1>1, <1>7, <2>1, <2>2
<1>11. at'[w] = p
  BY <1>7
<1>12. EngineTypeOK'
  <2>1. shm.there \/ (calls # << >> /\ calls[Len(calls)] = "exit")
    BY <1>1 DEF EngineInv, EngineTypeOK
  <2> QED BY <1>1, <1>7, <1>9, <1>10, <2>1 DEF EngineInv, EngineTypeOK
<1>13. WorkersOK'
  <2>1. at'[w] # "clear" /\ at'[w] \notin StartPlaces
    BY <1>6, <1>11 DEF StartPlaces
  <2> QED BY <1>1, <1>7, <1>10, <2>1 DEF EngineInv, WorkersOK
<1>14. (IF InStepSoFar(w) THEN FollowsOK(w) ELSE LostStep(w))'
  <2>1. CASE InStepSoFar(w)
    <3>1. FollowsOK(w)
      BY <1>2, <2>1 DEF EngineInv, StepsOK
    <3> QED BY <1>1, <1>2, <1>4, <1>5, <1>7, <1>9, <2>1, <3>1, ClearFollows
  <2>2. CASE ~ InStepSoFar(w)
    <3>1. PICK k \in DOMAIN log[w] :
             /\ log[w][k] # k \/ Raised(k)
             /\ k <= Len(calls) /\ ~ Meets(k) /\ \A j \in 1 .. k - 1 : log[w][j] = j /\ ~ Raised(j)
      BY <1>2, <2>2 DEF EngineInv, StepsOK, LostStep
    <3>2. PICK l \in Nat : l = Len(log[w])
      BY <1>3, Lengths
    <3>3. /\ DOMAIN log'[w] = 1 .. l + 1 /\ DOMAIN log[w] = 1 .. l
          /\ \A j \in 1 .. l : log'[w][j] = log[w][j]
      <4>1. log'[w] = Append(log[w], got[w]) /\ log[w] \in Seq(1 .. n)
        <5>1. log \in [Ranks -> Seq(1 .. Len(calls))]
          BY DEF EngineInv, EngineTypeOK
        <5> QED BY <1>1, <1>3, <1>4, <5>1
      <4> QED BY <1>5, <3>2, <4>1
    <3>4. k \in 1 .. l /\ k \in DOMAIN log'[w]
      BY <3>1, <3>2, <3>3
    <3>5. /\ log'[w][k] # k \/ Raised(k)'
          /\ \A j \in 1 .. k - 1 : log'[w][j] = j /\ ~ Raised(j)'
      BY <1>1, <3>1, <3>3, <3>4 DEF Raised
    <3>6. ~ InStepSoFar(w)'
      BY <3>4, <3>5 DEF InStepSoFar
    <3>7. LostStep(w)'
      BY <1>1, <3>1, <3>4, <3>5 DEF LostStep, Meets
    <3> QED BY <3>6, <3>7
  <2> QED BY <2>1, <2>2
<1>15. StepsOK'
  <2>1. \A v \in Workers \ {w} : (IF InStepSoFar(v) THEN FollowsOK(v) ELSE LostStep(v))'
    <3> SUFFICES ASSUME NEW v \in Workers \ {w}
                 PROVE  (IF InStepSoFar(v) THEN FollowsOK(v) ELSE LostStep(v))'
      OBVIOUS
    <3> HIDE DEF p
    <3> QED BY <1>1, <1>2, <1>7, <1>9, <1>10, OthersKeep
  <2> QED BY <1>7, <1>14, <2>1 DEF StepsOK
<1> QED BY <1>7, <1>8, <1>12, <1>13, <1>15 DEF EngineInv

-----------------------------------------------------------------------------
(***************************************************************************)
(* The invariant.                                                          *)
(***************************************************************************)
LEMMA EngineInitial ==
  ASSUME EngineInit
  PROVE  EngineInv
<1>1. /\ cfg \in Configs /\ inside = [r \in Ranks |-> FALSE] /\ entered = [r \in Ranks |-> 0]
      /\ kvBlocks = [r \in Ranks |-> 0] /\ shm \in [there : BOOLEAN, len : {0}, body : {0}]
      /\ event = [r \in Ranks |-> FALSE] /\ signal = 1
      /\ got = [r \in Ranks |-> 0] /\ log = [r \in Ranks |-> << >>]
      /\ calls = << >> /\ mode = "rest"
  BY DEF EngineInit
<1>2. /\ at \in [Ranks -> {"config", "off"}] /\ \A r \in Ranks : at[r] = IF r = 0 THEN "config" ELSE "off"
  BY DEF EngineInit
<1>3. /\ World \subseteq Ranks /\ Workers \subseteq Ranks \ {0} /\ 0 \in Ranks
  BY <1>1, WorldRanks
<1>4. at[0] = "config" /\ \A r \in Ranks \ {0} : at[r] = "off"
  BY <1>2, <1>3
<1>5. Len(calls) = 0 /\ calls \in Seq(Methods) /\ << >> \in Seq(1 .. Len(calls))
  BY <1>1
<1>6. EngineTypeOK
  <2>1. at \in [Ranks -> Places]
    BY <1>2 DEF Places, StartPlaces, Gone
  <2>2. /\ inside \in [Ranks -> BOOLEAN] /\ entered \in [Ranks -> Nat] /\ kvBlocks \in [Ranks -> Int]
        /\ event \in [Ranks -> BOOLEAN] /\ \A r \in Ranks : ~ inside[r]
    BY <1>1
  <2>3. got \in [Ranks -> 0 .. Len(calls)] /\ log \in [Ranks -> Seq(1 .. Len(calls))]
    BY <1>1, <1>5
  <2>4. shm \in [there : BOOLEAN, len : 0 .. Len(calls), body : 0 .. Len(calls)]
    BY <1>1, <1>5
  <2>5. \A w \in Workers : at[w] = "off"
    BY <1>3, <1>4
  <2> QED BY <1>1, <1>5, <2>1, <2>2, <2>3, <2>4, <2>5 DEF EngineTypeOK
<1>7. \A r \in World : ~ inside[r] /\ entered[r] = 0 /\ Left(r) = 0
  BY <1>1, <1>3 DEF Left
<1>8. Met
  BY <1>7 DEF Met
<1>9. StagesOK
  <2>1. \A r \in World : at[r] \in {"config", "off"} /\ Before("config") = 0 /\ Before("off") = 0
    BY <1>2, <1>3 DEF Before
  <2>2. \A r \in World : Before(at[r]) = 0
    BY <2>1
  <2> QED BY <1>4, <1>7, <2>1, <2>2 DEF StagesOK, InStart, StartPlaces, Gone
<1>10. SizesOK
  <2>1. \A r \in World : ~ Sized(r)
    BY <1>7 DEF Sized
  <2>2. \A r \in Ranks : at[r] \in {"config", "off"}
    BY <1>2
  <2> QED BY <1>4, <2>1, <2>2 DEF SizesOK, Gone
<1>11. RankPlacesOK /\ ~ Started
  BY <1>1, <1>4 DEF RankPlacesOK, Announcing, Meeting0, Started, StartPlaces, Gone
<1>12. \A w \in Workers : ~ event[w] /\ log[w] = << >> /\ at[w] = "off"
  BY <1>1, <1>3, <1>4
<1>13. NothingYet /\ MessageOK /\ WorkersOK /\ StepsOK
  BY <1>1, <1>11, <1>12 DEF NothingYet, MessageOK, WorkersOK, StepsOK, StartPlaces, Gone
<1> QED BY <1>6, <1>8, <1>9, <1>10, <1>11, <1>13 DEF EngineInv

LEMMA EngineStep ==
  ASSUME EngineInv, [EngineNext]_engineVars
  PROVE  EngineInv'
<1>1. CASE Configure
  BY <1>1, ConfigureStep
<1>2. CASE CreateShm
  BY <1>2, CreateStep
<1>3. ASSUME NEW w \in Workers, OpenShm(w) PROVE EngineInv'
  BY <1>3, OpenStep
<1>4. CASE WriteLength \/ StartCopy \/ EndCopy
  BY <1>4, WritesStep
<1>5. CASE SetEvent
  BY <1>5, SetEventStep
<1>6. CASE Join
  BY <1>6, JoinStep
<1>7. ASSUME NEW r \in World, Enter(r) PROVE EngineInv'
  BY <1>7, EnterStep
<1>8. ASSUME NEW r \in World, Leave(r) PROVE EngineInv'
  BY <1>8, LeaveStep, RaiseStep DEF Leave
<1>9. ASSUME NEW w \in Workers, Working(w) PROVE EngineInv'
  BY <1>9, ReadLengthStep, ReadBodyStep, ClearStep DEF Working
<1>10. ASSUME NEW m \in Methods, Call(m) PROVE EngineInv'
  BY <1>10, CallStep
<1>11. CASE UNCHANGED engineVars
  <2>1. /\ UNCHANGED <<cfg, at, inside, entered, kvBlocks>> /\ UNCHANGED <<shm, event, signal, got, log>>
        /\ UNCHANGED <<calls, mode>>
    BY <1>11 DEF engineVars, place, wire, program
  <2>2. EngineTypeOK' /\ Met'
    BY <2>1 DEF EngineInv, EngineTypeOK, Met, Left, World, Workers
  <2>3. StagesOK' /\ SizesOK'
    BY <2>1 DEF EngineInv, StagesOK, SizesOK, World, Left, InStart, Before, StartMeetings, Sized, Gone
  <2>4. RankPlacesOK' /\ NothingYet' /\ MessageOK' /\ WorkersOK'
    BY <2>1 DEF EngineInv, RankPlacesOK, NothingYet, MessageOK, WorkersOK, World, Workers, Announcing,
                Meeting0, Started, StartMeetings, Gone
  <2>5. StepsOK'
    BY <2>1 DEF EngineInv, StepsOK, World, Workers, Started, InStepSoFar, FollowsOK, LostStep, Told,
                Announced, Announcing, Meeting0, Due, Owes, Next1, Meets, Gone, Raised
  <2> QED BY <2>2, <2>3, <2>4, <2>5 DEF EngineInv
<1> QED BY <1>1, <1>2, <1>3, <1>4, <1>5, <1>6, <1>7, <1>8, <1>9, <1>10, <1>11
     DEF EngineNext, Starting, Sending, Meeting

(* Where the ranks are, what they have entered and agreed on, and what     *)
(* rank 0 told the others and they executed fit together in every state,   *)
(* for any number of ranks and calls (LLMEngine.__init__, ModelRunner).    *)
THEOREM EngineInvariance == EngineSpec => []EngineInv
<1>1. EngineInit => EngineInv
  BY EngineInitial
<1>2. EngineInv /\ [EngineNext]_engineVars => EngineInv'
  BY EngineStep
<1> QED BY <1>1, <1>2, PTL DEF EngineSpec

(* A worker that kept step makes every call that has collectives as the    *)
(* main process does, for any number of workers and calls                  *)
(* (ModelRunner.loop, read_shm, write_shm and call).                       *)
THEOREM StepsKept == EngineSpec => []StaysInStep
<1>1. EngineInv => StaysInStep
  <2> SUFFICES ASSUME EngineInv, NEW w \in Workers, NEW k \in 1 .. Len(calls), Meets(k),
                      \A j \in 1 .. k - 1 : InStep(w, j) /\ ~ Raised(j)
               PROVE  /\ k \in DOMAIN log[w] => InStep(w, k)
                      /\ Len(log[w]) = k - 1 => at[w] # "failed"
    BY DEF StaysInStep
  <2>1. Len(calls) \in Nat /\ w \in Ranks
    BY Lengths, WorldRanks DEF EngineInv, EngineTypeOK
  <2>2. PICK l \in Nat : l = Len(log[w]) /\ DOMAIN log[w] = 1 .. l
    BY <2>1, Lengths
  <2>3. Started
    <3>1. calls # << >>
      BY <2>1
    <3> QED BY <3>1 DEF EngineInv, NothingYet, Gone
  <2>4. CASE InStepSoFar(w)
    <3>1. at[w] = "failed" => ~ Meets(l + 1)
      BY <2>2, <2>3, <2>4 DEF EngineInv, StepsOK, FollowsOK, Next1
    <3>2. l = k - 1 => l + 1 = k
      BY <2>2
    <3> QED BY <2>2, <2>4, <3>1, <3>2 DEF InStepSoFar, InStep, Raised
  <2>5. CASE ~ InStepSoFar(w)
    <3>1. PICK i \in 1 .. l : /\ log[w][i] # i \/ Raised(i)
                              /\ ~ Meets(i) /\ \A j \in 1 .. i - 1 : log[w][j] = j
      BY <2>2, <2>3, <2>5 DEF EngineInv, StepsOK, LostStep
    <3>2. i # k
      BY <3>1
    <3>3. ~ i < k
      BY <2>2, <3>1 DEF InStep
    <3>4. k < i
      BY <3>2, <3>3
    <3> QED BY <2>2, <3>1, <3>4 DEF InStep
  <2> QED BY <2>4, <2>5
<1> QED BY <1>1, EngineInvariance, PTL

LEMMA MoreBlocks ==
  ASSUME NEW n \in Nat, NEW m \in Nat, n <= m
  PROVE  BlocksFor(n) \in Int /\ BlocksFor(n) <= BlocksFor(m)
<1>1. TokensPerBlock \in Nat \ {0}
  BY EngineAssumption
<1>2. \A T \in Nat \ {0} : (n + T - 1) \div T \in Int /\ (n + T - 1) \div T <= (m + T - 1) \div T
  OBVIOUS
<1> QED BY <1>1, <1>2 DEF BlocksFor

LEMMA TierBlocksInt ==
  ASSUME NEW c \in Configs, ValidConfig(c), NEW t \in {"cpu", "ssd", "remote"}
  PROVE  TierBlocks(c, t) \in Int
<1>1. /\ c.bytes[t] \in Int /\ c.blocks[t] \in Int /\ BytesPerBlock \in Nat \ {0}
      /\ c.tp \in 1 .. 8
  BY EngineAssumption DEF ValidConfig
<1>2. \A b \in Nat \ {0} : \A n \in 1 .. 8 : n * b \in Nat \ {0}
  OBVIOUS
<1>3. \A x \in Int : \A d \in Nat \ {0} : x \div d \in Int
  OBVIOUS
<1> HIDE DEF ValidConfig
<1> QED BY <1>1, <1>2, <1>3 DEF TierBlocks

(* When the first request can come every rank has the GPU blocks rank 0    *)
(* hands out, the tiers have blocks as configured and a transfer budget    *)
(* covers a whole request, for any free memory and model length            *)
(* (Config.__post_init__, ModelRunner.allocate_kv_cache).                  *)
THEOREM StartEstablished == EngineSpec => []StartEstablishes
<1>1. EngineInv => StartEstablishes
  <2> SUFFICES ASSUME EngineInv, Started
               PROVE  /\ \A r \in World : at[r] # "raised"
                      /\ kvBlocks[0] > 0 /\ \A r \in World : kvBlocks[0] <= kvBlocks[r]
                      /\ \A t \in {"cpu", "ssd", "remote"} : (TierBlocks(cfg, t) > 0) <=> (t \in Lower(cfg))
                      /\ (cfg.engine > 1 /\ cfg.transfer > 0) =>
                           \A n \in 1 .. ModelLen(cfg) : BlocksFor(n) <= cfg.transfer
    BY DEF StartEstablishes, Started, Gone
  <2>1. cfg \in Configs /\ 0 \in Ranks
    BY WorldRanks DEF EngineInv, EngineTypeOK
  <2>2. ValidConfig(cfg)
    <3>1. at[0] \notin {"config", "off"} \cup Gone
      BY DEF Started, StartPlaces
    <3> QED BY <2>1, <3>1 DEF EngineInv, SizesOK
  <2>3. 0 \in World
    BY <2>1, <2>2, WorldRanks
  <2>4. kvBlocks[0] > 0 /\ ~ TooSmall(cfg)
    BY DEF EngineInv, SizesOK, Started, StartPlaces, Gone
  <2>5. \A r \in World : kvBlocks[0] <= kvBlocks[r]
    <3>1. Sized(0)
      <4>1. Left(0) >= 3 /\ at[0] # "reduce"
        BY <2>3 DEF EngineInv, StagesOK, Started, StartPlaces, Gone
      <4> QED BY <2>3, <4>1, Lefts DEF Sized
    <3> QED BY <2>3, <3>1 DEF EngineInv, SizesOK, Gone
  <2>6. ASSUME NEW t \in {"cpu", "ssd", "remote"}
        PROVE  (TierBlocks(cfg, t) > 0) <=> (t \in Lower(cfg))
    <3>1. TierBlocks(cfg, t) \in Int
      BY <2>1, <2>2, TierBlocksInt
    <3>2. CASE t \in Lower(cfg)
      <4>1. ~ TierBlocks(cfg, t) <= 0
        BY <2>4, <3>2 DEF TooSmall
      <4> QED BY <3>1, <3>2, <4>1
    <3>3. CASE t \notin Lower(cfg)
      <4>1. TierBlocks(cfg, t) = 0
        BY <3>3 DEF TierBlocks
      <4> QED BY <3>3, <4>1
    <3> QED BY <3>2, <3>3
  <2>7. ASSUME cfg.engine > 1, cfg.transfer > 0, NEW n \in 1 .. ModelLen(cfg)
        PROVE  BlocksFor(n) <= cfg.transfer
    <3>1. cfg.transfer \in Int /\ cfg.len \in Int /\ MaxPositions \in Nat
      BY <2>1, EngineAssumption
    <3>2. ModelLen(cfg) \in Int
      <4>1. \E x \in {cfg.len, MaxPositions} : \A y \in {cfg.len, MaxPositions} : x <= y
        BY <3>1
      <4>2. Min({cfg.len, MaxPositions}) \in {cfg.len, MaxPositions}
        BY <4>1 DEF Min
      <4> QED BY <3>1, <4>2 DEF ModelLen
    <3>3. cfg.transfer >= BlocksFor(ModelLen(cfg))
      <4>1. cfg.transfer # -1
        BY <2>7, <3>1
      <4> QED BY <2>2, <2>7, <4>1 DEF ValidConfig, CoversRequest
    <3>4. n \in Nat /\ ModelLen(cfg) \in Nat /\ n <= ModelLen(cfg)
      BY <2>7, <3>2
    <3>5. /\ BlocksFor(n) \in Int /\ BlocksFor(ModelLen(cfg)) \in Int
          /\ BlocksFor(n) <= BlocksFor(ModelLen(cfg))
      BY <3>4, MoreBlocks
    <3> QED BY <3>1, <3>3, <3>5
  <2>8. ASSUME NEW r \in World PROVE at[r] # "raised"
    <3>1. r # 0 => r \in Workers
      BY DEF Workers
    <3>2. r # 0 => entered[r] >= StartMeetings /\ entered[r] \in Nat /\ StartMeetings \in Nat
      BY <3>1, PastStart, Lefts
    <3>3. r # 0 => at[r] # "raised"
      BY <3>2 DEF EngineInv, StagesOK
    <3> QED BY <3>3 DEF Started, Gone
  <2> QED BY <2>4, <2>5, <2>6, <2>7, <2>8
<1> QED BY <1>1, EngineInvariance, PTL
=============================================================================
