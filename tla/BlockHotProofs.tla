---------------------------- MODULE BlockHotProofs ----------------------------
(***************************************************************************)
(* Theorems about BlockHot: the scheduler that moves single blocks keeps   *)
(* the discipline of BlockManager, the promises about the queues that      *)
(* Scheduler keeps, and the transfer budget; although its loops move       *)
(* blocks one at a time, no request runs with a block missing; and the     *)
(* blocks that swapped requests keep on the GPU never shut all of them     *)
(* out, while the watermark of the GPU is below its size and until a block *)
(* of the prefix cache gets a second owner.                                *)
(***************************************************************************)
EXTENDS BlockHot, QueueProofs

(* The steps that are BlockHot's own, and those it shares with Scheduler.  *)
OwnSteps == HotWatermarks \/ HotTargets \/ HotSwapIn \/ TakeBlock \/ ThrowAway

LEMMA HotCases ==
  ASSUME [HotNext]_hotVars
  PROVE  SharedSteps \/ OwnSteps \/ FailTransfer \/ UNCHANGED allVars
<1>1. CASE HotEngine
  BY <1>1 DEF HotEngine, HotDecode, HotEndStep, Model, SharedSteps, OwnSteps
<1>2. CASE UNCHANGED hotVars
  BY <1>2 DEF hotVars
<1> QED BY <1>1, <1>2 DEF HotNext, SharedSteps

(* shared remembers that a block had two owners: before and after a step   *)
(* that leaves it FALSE no block has.                                      *)
Remembered == (shared => shared') /\ (shared' \/ Unshared)

LEMMA HistoryStep ==
  ASSUME HistoryOk, [HotNext]_hotVars
  PROVE  HistoryOk' /\ Remembered
<1>1. CASE HotNext
  <2>1. Remember
    BY <1>1 DEF HotNext, HotEngine, HotEndStep, Unaged
  <2> QED BY <2>1 DEF Remember, HistoryOk, Remembered
<1>2. CASE UNCHANGED hotVars
  <2>1. shared' = shared /\ refCount' = refCount
    BY <1>2 DEF hotVars, allVars, vars, poolVars
  <2> QED BY <2>1 DEF HistoryOk, Remembered, Unshared
<1> QED BY <1>1, <1>2

-----------------------------------------------------------------------------
(***************************************************************************)
(* The work lists and the pending calls.                                   *)
(***************************************************************************)
HotPending == DemoteCall \cup LoopCall

LEMMA BlocksFinite ==
  ASSUME TypeOK, NEW S \in SUBSET Seqs, NEW t
  PROVE  IsFiniteSet(BlocksOn(S, t)) /\ BlocksOn(S, t) \subseteq S \X Nat
<1> DEFINE on(s) == {j \in DOMAIN tiers[s] : tiers[s][j] = t}
           of(s) == {<<s, i>> : i \in on(s)}
<1>1. ASSUME NEW s \in S PROVE IsFiniteSet(of(s)) /\ of(s) \subseteq S \X Nat
  <2>1. PICK n \in Nat : DOMAIN tiers[s] = 1 .. n
    BY SeqTypes
  <2>2. IsFiniteSet(on(s)) /\ on(s) \subseteq Nat
    <3>1. IsFiniteSet(1 .. n)
      BY FS_Interval
    <3> QED BY <2>1, <3>1, FS_Subset
  <2>3. [i \in on(s) |-> <<s, i>>] \in Surjection(on(s), of(s))
    BY DEF Surjection
  <2>4. IsFiniteSet(of(s))
    BY <2>2, <2>3, FS_Surjection
  <2> QED BY <2>2, <2>4
<1>2. IsFiniteSet({of(s) : s \in S})
  <2>1. IsFiniteSet(S)
    BY ConstantsAssumption, FS_Subset
  <2>2. [s \in S |-> of(s)] \in Surjection(S, {of(s) : s \in S})
    BY DEF Surjection
  <2> QED BY <2>1, <2>2, FS_Surjection
<1>3. BlocksOn(S, t) = UNION {of(s) : s \in S}
  BY DEF BlocksOn
<1> HIDE DEF of
<1> QED BY <1>1, <1>2, <1>3, FS_UNION

(* A loop over the cold blocks of S visits blocks of requests of S.        *)
LEMMA SortedType ==
  ASSUME TypeOK, NEW S \in SUBSET Seqs, NEW t, NEW B \in SUBSET BlocksOn(S, t), NEW q \in Sorted(B)
  PROVE  q \in Seq(Seqs \X Nat) /\ \A p \in ToSet(q) : p[1] \in S
<1>1. IsFiniteSet(B) /\ B \subseteq S \X Nat
  BY BlocksFinite, FS_Subset
<1>2. Cardinality(B) \in Nat
  BY <1>1, FS_CardinalityType
<1>3. q \in [1 .. Cardinality(B) -> B]
  BY DEF Sorted
<1>4. q \in Seq(B)
  BY <1>2, <1>3
<1>5. ToSet(q) \subseteq B
  BY <1>4, SetOfSeq
<1> QED BY <1>1, <1>4, <1>5

LEMMA ColdType ==
  ASSUME TypeOK, QueueTypes, NEW t, NEW s, NEW q \in Cold(t, s)
  PROVE  q \in Seq(Seqs \X Nat) /\ \A p \in ToSet(q) : p[1] \in ToSet(swapped) \ {s}
<1>1. ToSet(swapped) \ {s} \in SUBSET Seqs
  BY ToSetType DEF QueueTypes
<1> QED BY <1>1, SortedType DEF Cold

LEMMA OwnGpuType ==
  ASSUME TypeOK, NEW s \in Seqs, NEW q \in OwnGpu(s)
  PROVE  q \in Seq(Seqs \X Nat) /\ \A p \in ToSet(q) : p[1] = s
<1>1. q \in Sorted({p \in BlocksOn({s}, GPU) : ~ SharedAt(p)})
  BY DEF OwnGpu
<1>2. q \in Seq(Seqs \X Nat) /\ \A p \in ToSet(q) : p[1] \in {s}
  BY <1>1, SortedType
<1> QED BY <1>2

LEMMA HotUpdates ==
  /\ \A f \in DemoteCall : /\ [f EXCEPT !.cleared = TRUE] \in DemoteCall
                           /\ f.to # << >> =>
                                [f EXCEPT !.to = Tail(@), !.cleared = FALSE] \in DemoteCall
  /\ \A f \in LoopCall : f.items # << >> => [f EXCEPT !.items = Tail(@)] \in LoopCall
<1>1. ASSUME NEW f \in DemoteCall PROVE [f EXCEPT !.cleared = TRUE] \in DemoteCall
  BY DEF DemoteCall
<1>2. ASSUME NEW f \in DemoteCall, f.to # << >>
      PROVE  [f EXCEPT !.to = Tail(@), !.cleared = FALSE] \in DemoteCall
  <2>1. Tail(f.to) \in Seq(Tier)
    BY <1>2 DEF DemoteCall
  <2> QED BY <2>1 DEF DemoteCall
<1>3. ASSUME NEW f \in LoopCall, f.items # << >>
      PROVE  [f EXCEPT !.items = Tail(@)] \in LoopCall
  <2>1. Tail(f.items) \in Seq(Seqs \X Nat)
    BY <1>3 DEF LoopCall
  <2> QED BY <2>1 DEF LoopCall
<1> QED BY <1>1, <1>2, <1>3

LEMMA HotTop ==
  ASSUME calls \in Seq(HotPending), calls # << >>
  PROVE  /\ Top \in HotPending /\ Tail(calls) \in Seq(HotPending)
         /\ Top.op = "demote" => Top \in DemoteCall
         /\ Top.op # "demote" => Top \in LoopCall
<1>1. Top \in HotPending /\ Tail(calls) \in Seq(HotPending)
  BY DEF Top
<1> QED BY <1>1 DEF HotPending, DemoteCall, LoopCall

LEMMA LoopType ==
  ASSUME NEW op \in {"cool", "gpu", "free", "preempt"}, NEW t \in Tier, NEW n \in Nat,
         NEW q \in Seq(Seqs \X Nat)
  PROVE  Loop(op, t, n, q) \in LoopCall
BY DEF Loop, LoopCall

LEMMA DemoteType ==
  ASSUME NEW p \in Seqs \X Nat, NEW t \in Tier
  PROVE  Demote(p, t) \in DemoteCall
BY LowerSeqType DEF Demote, DemoteCall

LEMMA RequiredType ==
  ASSUME TypeOK, NEW s \in Seqs
  PROVE  /\ IsFiniteSet(Missing(s)) /\ Cardinality(Missing(s)) \in Nat
         /\ Missing(s) \subseteq DOMAIN tiers[s]
         /\ Extra(s) \in {0, 1} /\ Required(s) \in Nat
<1>1. PICK n \in Nat : DOMAIN tiers[s] = 1 .. n
  BY SeqTypes
<1>2. IsFiniteSet(1 .. n)
  BY FS_Interval
<1>3. Missing(s) \subseteq 1 .. n
  BY <1>1 DEF Missing
<1>4. IsFiniteSet(Missing(s)) /\ Cardinality(Missing(s)) \in Nat
  BY <1>2, <1>3, FS_Subset, FS_CardinalityType
<1> QED BY <1>1, <1>3, <1>4 DEF Extra, Required

-----------------------------------------------------------------------------
(***************************************************************************)
(* Type correctness.                                                       *)
(***************************************************************************)
LEMMA LoopTypes ==
  ASSUME TypeOK, HotTypeOK,
         NextBlock \/ EndLoop \/ LookBelow \/ LookFurther \/ MoveBlock \/ NotMoved \/ Copy
  PROVE  HotTypeOK'
<1> USE DEF queues, step
<1>1. calls \in Seq(HotPending)
  BY DEF HotTypeOK, HotPending
<1>2. CASE NextBlock
  <2>1. calls # << >> /\ Top \in LoopCall /\ Tail(calls) \in Seq(HotPending)
    BY <1>1, <1>2, HotTop DEF NextBlock, InLoop
  <2>2. Top.items \in Seq(Seqs \X Nat) /\ Top.items # << >> /\ Top.tier \in Tier
    BY <1>2, <2>1 DEF NextBlock, LoopCall
  <2>3. Head(Top.items) \in Seqs \X Nat
    BY <2>2
  <2>4. Demote(Head(Top.items), Top.tier) \in HotPending
    BY <2>2, <2>3, DemoteType DEF HotPending
  <2>5. [Top EXCEPT !.items = Tail(@)] \in HotPending
    BY <2>1, <2>2, HotUpdates DEF HotPending
  <2>6. calls' \in Seq(HotPending)
    BY <1>2, <2>1, <2>4, <2>5 DEF NextBlock
  <2> QED BY <1>2, <2>6 DEF NextBlock, HotTypeOK, QueueTypes, HotPending
<1>3. CASE EndLoop \/ NotMoved
  <2>1. calls' \in Seq(HotPending)
    BY <1>1, <1>3, HotTop DEF EndLoop, NotMoved, InLoop, InDemote
  <2> QED BY <1>3, <2>1 DEF EndLoop, NotMoved, HotTypeOK, QueueTypes, HotPending
<1>4. CASE LookBelow
  <2>1. calls # << >> /\ Top \in DemoteCall /\ Tail(calls) \in Seq(HotPending) /\ Top.to # << >>
    BY <1>1, <1>4, HotTop DEF LookBelow, InDemote
  <2>2. Head(Top.to) \in Tier
    BY <2>1 DEF DemoteCall
  <2>3. PICK q \in Cold(Head(Top.to), NoSeq) :
          calls' = (IF FreeCount(Head(Top.to)) = 0 THEN <<Loop("free", Head(Top.to), 1, q)>>
                    ELSE << >>) \o <<[Top EXCEPT !.cleared = TRUE]>> \o Tail(calls)
    BY <1>4 DEF LookBelow
  <2>4. Loop("free", Head(Top.to), 1, q) \in HotPending
    BY <2>2, ColdType, LoopType DEF HotTypeOK, HotPending
  <2>5. [Top EXCEPT !.cleared = TRUE] \in HotPending
    BY <2>1, HotUpdates DEF HotPending
  <2>6. calls' \in Seq(HotPending)
    BY <2>1, <2>3, <2>4, <2>5
  <2> QED BY <1>4, <2>6 DEF LookBelow, HotTypeOK, QueueTypes, HotPending
<1>5. CASE LookFurther
  <2>1. calls # << >> /\ Top \in DemoteCall /\ Tail(calls) \in Seq(HotPending) /\ Top.to # << >>
    BY <1>1, <1>5, HotTop DEF LookFurther, InDemote
  <2>2. [Top EXCEPT !.to = Tail(@), !.cleared = FALSE] \in HotPending
    BY <2>1, HotUpdates DEF HotPending
  <2>3. calls' \in Seq(HotPending)
    BY <1>5, <2>1, <2>2 DEF LookFurther
  <2> QED BY <1>5, <2>3 DEF LookFurther, HotTypeOK, QueueTypes, HotPending
<1>6. CASE MoveBlock \/ Copy
  BY <1>6 DEF MoveBlock, Copy, schedVars, control, HotTypeOK, QueueTypes
<1> QED BY <1>2, <1>3, <1>4, <1>5, <1>6

(* _demote_block was called by a loop.                                     *)
LEMMA BlockCall ==
  ASSUME HotTypeOK, HotCallsInv, HotPlanInv, plan # NoPlan, calls # << >>
  PROVE  /\ Len(calls) \in Nat /\ Len(calls) > 1 /\ calls[2].op # "demote"
         /\ Tail(calls) \in Seq(HotPending) /\ Tail(calls) # << >>
         /\ Tail(Tail(calls)) \in Seq(HotPending)
         /\ plan.seq = Top.seq /\ Top.op = "demote" /\ plan.to # GPU
         /\ plan.seq \in Owners(calls[2].op)
<1>1. calls \in Seq(HotPending)
  BY DEF HotTypeOK, HotPending
<1>2. Len(calls) \in Nat /\ 1 \in DOMAIN calls /\ Top = calls[1]
  BY <1>1 DEF Top
<1>3. Top.op = "demote" /\ plan.seq = Top.seq /\ plan.to # GPU
  BY DEF HotPlanInv
<1>4. FrameOk(calls, 1)
  BY <1>2 DEF HotCallsInv
<1>5. 1 < Len(calls) /\ calls[2].op # "demote" /\ plan.seq \in Owners(calls[2].op)
  BY <1>2, <1>3, <1>4 DEF FrameOk
<1>6. Tail(calls) \in Seq(HotPending) /\ Tail(calls) # << >>
  <2>1. PICK n \in Nat : n = Len(calls)
    BY <1>2
  <2>2. Tail(calls) \in Seq(HotPending) /\ Len(Tail(calls)) = n - 1
    BY <1>1, <2>1
  <2>3. n - 1 # 0
    BY <1>5, <2>1
  <2>4. Tail(calls) # << >>
    BY <2>2, <2>3
  <2> QED BY <2>2, <2>4
<1>7. Tail(Tail(calls)) \in Seq(HotPending)
  BY <1>6
<1> QED BY <1>2, <1>3, <1>5, <1>6, <1>7

LEMMA CommitTypes ==
  ASSUME TypeOK, HotTypeOK, HotCallsInv, HotPlanInv, CommitBlock \/ CommitRestore
  PROVE  HotTypeOK'
<1> USE DEF queues, control
<1>1. plan # NoPlan
  BY DEF CommitBlock, CommitRestore, CommitMove, NoPlan
<1>2. plan.seq \in Seqs /\ DOMAIN plan.dst \subseteq DOMAIN table[plan.seq]
  BY <1>1 DEF TypeOK
<1>3. CASE CommitBlock
  <2>1. calls # << >> /\ calls' \in {Tail(calls), Tail(Tail(calls))}
    BY <1>3 DEF CommitBlock
  <2>2. calls' \in Seq(HotPending)
    BY <1>1, <2>1, BlockCall
  <2>3. /\ moved' = moved + 1 /\ swapped' \in {swapped, Append(swapped, plan.seq)}
        /\ victim' \in {victim, NoSeq} /\ cur' \in {cur, NoSeq}
    BY <1>3 DEF CommitBlock
  <2>4. moved' \in Nat
    BY <2>3 DEF HotTypeOK, QueueTypes
  <2>6. swapped \in Seq(Seqs) /\ Append(swapped, plan.seq) \in Seq(Seqs)
    BY <1>2 DEF HotTypeOK, QueueTypes
  <2>5. swapped' \in Seq(Seqs)
    BY <2>3, <2>6
  <2> QED BY <1>3, <2>2, <2>3, <2>4, <2>5 DEF CommitBlock, HotTypeOK, QueueTypes, HotPending
<1>4. CASE CommitRestore
  <2>1. PICK n \in Nat : DOMAIN table[plan.seq] = 1 .. n
    BY <1>2, SeqTypes
  <2>4. IsFiniteSet(1 .. n) /\ DOMAIN plan.dst \in SUBSET (1 .. n)
    BY <1>2, <2>1, FS_Interval
  <2>2. Cardinality(DOMAIN plan.dst) \in Nat
    BY <2>4, FS_Subset, FS_CardinalityType
  <2>3. moved' \in Nat
    BY <1>4, <2>2 DEF CommitRestore, HotTypeOK, QueueTypes
  <2> QED BY <1>4, <2>3 DEF CommitRestore, HotTypeOK, QueueTypes
<1> QED BY <1>3, <1>4

(* The other loops are the outermost call, and belong to the phase.        *)
LEMMA OuterLoop ==
  ASSUME HotTypeOK, HotCallsInv, calls # << >>, Top.op \notin {"demote", "free"}
  PROVE  /\ Len(calls) = 1 /\ Tail(calls) = << >> /\ Outer(Top.op)
         /\ \A p \in ToSet(Top.items) : p[1] \in Owners(Top.op)
<1>1. calls \in Seq(HotPending)
  BY DEF HotTypeOK, HotPending
<1>2. Len(calls) \in Nat /\ Len(calls) > 0 /\ 1 \in DOMAIN calls /\ Top = calls[1]
  BY <1>1 DEF Top
<1>3. FrameOk(calls, 1)
  BY <1>2 DEF HotCallsInv
<1>4. ~ (1 < Len(calls)) /\ Outer(Top.op) /\ \A p \in ToSet(Top.items) : p[1] \in Owners(Top.op)
  BY <1>2, <1>3 DEF FrameOk
<1>5. Len(calls) = 1
  <2>1. PICK n \in Nat : n = Len(calls)
    BY <1>2
  <2>2. n > 0 /\ ~ (1 < n)
    BY <1>2, <1>4, <2>1
  <2> QED BY <2>1, <2>2
<1>6. Tail(calls) = << >>
  <2>1. Tail(calls) \in Seq(HotPending) /\ Len(Tail(calls)) = Len(calls) - 1
    BY <1>1
  <2>2. Len(Tail(calls)) = 0
    BY <1>5, <2>1
  <2>3. ASSUME NEW q \in Seq(HotPending), Len(q) = 0 PROVE q = << >>
    BY <2>3
  <2> QED BY <2>1, <2>2, <2>3
<1> QED BY <1>4, <1>5, <1>6

LEMMA CoolTypes ==
  ASSUME TypeOK, HotTypeOK, HotCallsInv, HotWatermarks
  PROVE  HotTypeOK'
<1> USE DEF queues, step
<1>c. calls \in Seq(HotPending) /\ << >> \in Seq(HotPending)
  BY DEF HotTypeOK, HotPending
<1>1. CASE CoolTier
  <2>1. Head(levels) \in Tier /\ Tail(levels) \in Seq(Tier)
    BY <1>1 DEF CoolTier, HotTypeOK, QueueTypes
  <2>2. PICK q \in Cold(Head(levels), NoSeq) :
          calls' = IF UsedIn(Head(levels)) > High[Head(levels)]
                   THEN <<Loop("cool", Head(levels), 0, q)>> ELSE << >>
    BY <1>1 DEF CoolTier
  <2>3. Loop("cool", Head(levels), 0, q) \in HotPending
    BY <2>1, ColdType, LoopType DEF HotTypeOK, HotPending
  <2>4. calls' \in Seq(HotPending)
    BY <1>c, <2>2, <2>3
  <2> QED BY <1>1, <2>1, <2>4 DEF CoolTier, HotTypeOK, QueueTypes, HotPending
<1>2. CASE CoolGpu
  BY <1>2 DEF CoolGpu, HotTypeOK, QueueTypes
<1>3. CASE GpuPass
  <2>1. \/ calls' = calls
        \/ \E q \in Cold(GPU, NoSeq) : calls' = <<Loop("gpu", GPU, 0, q)>>
    BY <1>3 DEF GpuPass
  <2>2. ASSUME NEW q \in Cold(GPU, NoSeq)
        PROVE  <<Loop("gpu", GPU, 0, q)>> \in Seq(HotPending)
    <3>1. Loop("gpu", GPU, 0, q) \in HotPending
      BY ColdType, LoopType, GpuIsTier DEF HotTypeOK, HotPending
    <3> QED BY <3>1
  <2>3. calls' \in Seq(HotPending)
    BY <1>c, <2>1, <2>2, Zenon
  <2> QED BY <1>3, <2>3 DEF GpuPass, HotTypeOK, QueueTypes, HotPending
<1>4. CASE PreemptForGpu
  <2>1. victim' \in Seqs
    BY <1>4 DEF PreemptForGpu, Oldest, ToSet, HotTypeOK, QueueTypes
  <2>2. running' \in Seq(Seqs)
    BY <1>4, WithoutType DEF PreemptForGpu, RunningWithout, HotTypeOK, QueueTypes
  <2>3. PICK q \in OwnGpu(victim') : calls' = <<Loop("preempt", GPU, 0, q)>>
    BY <1>4 DEF PreemptForGpu
  <2>4. Loop("preempt", GPU, 0, q) \in HotPending
    BY <2>1, OwnGpuType, LoopType, GpuIsTier DEF HotPending
  <2>5. calls' \in Seq(HotPending)
    BY <2>3, <2>4
  <2> QED BY <1>4, <2>1, <2>2, <2>5 DEF PreemptForGpu, HotTypeOK, QueueTypes, HotPending
<1>5. CASE GpuStuck
  <2>1. running' \in Seq(Seqs)
    <3>1. CASE running' = running
      BY <3>1 DEF HotTypeOK, QueueTypes
    <3>2. CASE Top.op = "preempt" /\ running' = <<victim>> \o running
      <4>1. victim # NoSeq
        BY <1>5, <3>2, OuterLoop DEF GpuStuck, InLoop, Outer
      <4>2. victim \in Seqs /\ running \in Seq(Seqs)
        BY <4>1 DEF HotTypeOK, QueueTypes
      <4> QED BY <3>2, <4>2
    <3> QED BY <1>5, <3>1, <3>2 DEF GpuStuck
  <2>2. victim' \in Seqs \cup {NoSeq}
    BY <1>5 DEF GpuStuck, HotTypeOK, QueueTypes
  <2> QED BY <1>5, <1>c, <2>1, <2>2 DEF GpuStuck, HotTypeOK, QueueTypes, HotPending
<1>6. CASE EndCooling
  <2>1. ToSet(swapped) \in SUBSET Seqs
    BY ToSetType DEF HotTypeOK, QueueTypes
  <2>3. todo' = << >> \/ todo' \in ByAge(ToSet(swapped))
    BY <1>6 DEF EndCooling
  <2>4. \A q \in ByAge(ToSet(swapped)) : q \in Seq(Seqs)
    BY <2>1, ByAgeType
  <2>5. << >> \in Seq(Seqs)
    OBVIOUS
  <2>2. todo' \in Seq(Seqs)
    BY <2>3, <2>4, <2>5, Zenon
  <2> QED BY <1>6, <2>2 DEF EndCooling, HotTypeOK, QueueTypes
<1> QED BY <1>1, <1>2, <1>3, <1>4, <1>5, <1>6 DEF HotWatermarks

LEMMA HotSwapInTypes ==
  ASSUME TypeOK, HotTypeOK, HotCallsInv, HotTodoInv, HotPlanInv, HotSwapIn
  PROVE  HotTypeOK'
<1> USE DEF queues, step
<1>c. calls \in Seq(HotPending) /\ << >> \in Seq(HotPending)
  BY DEF HotTypeOK, HotPending
<1>1. CASE LookAtSwapped
  <2>1. Head(todo) \in Seqs
    BY <1>1, HeadType DEF LookAtSwapped, HotTypeOK, QueueTypes
  <2>2. PICK q \in Cold(GPU, Head(todo)) :
          calls' = IF running = << >> /\ FreeCount(GPU) < Required(Head(todo))
                   THEN <<Loop("free", GPU, Required(Head(todo)), q)>> ELSE << >>
    BY <1>1 DEF LookAtSwapped
  <2>3. Required(Head(todo)) \in Nat
    BY <2>1, RequiredType
  <2>4. Loop("free", GPU, Required(Head(todo)), q) \in HotPending
    BY <2>3, ColdType, LoopType, GpuIsTier DEF HotTypeOK, HotPending
  <2>5. calls' \in Seq(HotPending)
    BY <1>c, <2>2, <2>4
  <2> QED BY <1>1, <2>5 DEF LookAtSwapped, HotTypeOK, QueueTypes, HotPending
<1>2. CASE PassOver
  <2>1. Tail(todo) \in Seq(Seqs) \/ todo = << >>
    BY HeadType DEF HotTypeOK, QueueTypes
  <2>2. todo # << >>
    BY <1>2 DEF PassOver, InRestore, HotTodoInv
  <2> QED BY <1>2, <2>1, <2>2 DEF PassOver, HotTypeOK, QueueTypes
<1>3. CASE RestoreBlocks
  BY <1>3 DEF RestoreBlocks, schedVars, control, HotTypeOK, QueueTypes
<1>4. CASE CommitRestore
  BY <1>4, CommitTypes
<1>5. CASE RunAgain
  <2>1. todo # << >>
    BY <1>5 DEF RunAgain, InRestore, HotTodoInv
  <2>2. Head(todo) \in Seqs /\ Tail(todo) \in Seq(Seqs)
    BY <2>1, HeadType DEF HotTypeOK, QueueTypes
  <2>3. swapped' \in Seq(Seqs)
    BY <1>5, WithoutType DEF RunAgain, HotTypeOK, QueueTypes
  <2> QED BY <1>5, <2>2, <2>3 DEF RunAgain, HotTypeOK, QueueTypes
<1>6. CASE EndHotSwapIn
  BY <1>6 DEF EndHotSwapIn, HotTypeOK, QueueTypes
<1>7. CASE Stuck
  <2>1. running \in Seq(Seqs) /\ Raise(running) /\ QueueTypes
    BY <1>7 DEF Stuck, HotTypeOK, QueueTypes
  <2>2. QueueTypes' /\ phase' = "raised" /\ calls' = << >>
    BY <2>1, RaiseTypes
  <2> QED BY <1>c, <2>2 DEF HotTypeOK, HotPending
<1> QED BY <1>1, <1>2, <1>3, <1>4, <1>5, <1>6, <1>7 DEF HotSwapIn

LEMMA TakeTypes ==
  ASSUME TypeOK, HotTypeOK, HotCallsInv, TakeBlock \/ ThrowAway
  PROVE  HotTypeOK'
<1> USE DEF queues, step
<1>1. CASE TakeBlock
  <2>1. victim' \in Seqs
    BY <1>1 DEF TakeBlock, Oldest, ToSet, HotTypeOK, QueueTypes
  <2>2. running' \in Seq(Seqs)
    BY <1>1, WithoutType DEF TakeBlock, RunningWithout, HotTypeOK, QueueTypes
  <2>3. PICK q \in OwnGpu(victim') : calls' = <<Loop("preempt", GPU, 0, q)>>
    BY <1>1 DEF TakeBlock
  <2>4. Loop("preempt", GPU, 0, q) \in HotPending
    BY <2>1, OwnGpuType, LoopType, GpuIsTier DEF HotPending
  <2>5. calls' \in Seq(HotPending)
    BY <2>3, <2>4
  <2> QED BY <1>1, <2>1, <2>2, <2>5 DEF TakeBlock, HotTypeOK, QueueTypes, HotPending
<1>2. CASE ThrowAway
  <2>1. victim # NoSeq
    BY <1>2, OuterLoop DEF ThrowAway, InLoop, Outer
  <2>2. victim \in Seqs /\ <<victim>> \o waiting \in Seq(Seqs)
    BY <2>1 DEF HotTypeOK, QueueTypes
  <2>3. << >> \in Seq(HotPending)
    OBVIOUS
  <2>4. waiting' \in Seq(Seqs) /\ calls' \in Seq(HotPending)
    BY <1>2, <2>2, <2>3 DEF ThrowAway
  <2> QED BY <1>2, <2>4 DEF ThrowAway, HotTypeOK, QueueTypes, HotPending
<1> QED BY <1>1, <1>2

LEMMA HotTypesStep ==
  ASSUME TypeOK, HotTypeOK, HotCallsInv, HotTodoInv, HotPlanInv, [HotNext]_hotVars
  PROVE  HotTypeOK'
<1>1. CASE SharedSteps
  <2>1. QueueTypes' /\ phase' \in SharedPhases /\ (calls' = calls \/ calls' = << >>)
    BY <1>1, SharedTypes, SharedControl DEF HotTypeOK
  <2>2. calls \in Seq(HotPending) /\ << >> \in Seq(HotPending)
    BY DEF HotTypeOK, HotPending
  <2>3. calls' \in Seq(HotPending)
    BY <2>1, <2>2
  <2> QED BY <2>1, <2>3 DEF HotTypeOK, SharedPhases, HotPending
<1>2. CASE HotTargets
  BY <1>2, LoopTypes, CommitTypes DEF HotTargets
<1>3. CASE FailTransfer
  <2>1. QueueTypes' /\ phase' = "raised" /\ calls' = << >>
    BY <1>3, FailTypes DEF HotTypeOK
  <2>2. << >> \in Seq(HotPending)
    OBVIOUS
  <2> QED BY <2>1, <2>2 DEF HotTypeOK, HotPending
<1>4. CASE UNCHANGED allVars
  BY <1>4 DEF allVars, schedVars, queues, step, control, HotTypeOK, QueueTypes
<1> QED BY <1>1, <1>2, <1>3, <1>4, HotCases, CoolTypes, HotSwapInTypes, TakeTypes DEF OwnSteps

-----------------------------------------------------------------------------
(***************************************************************************)
(* Every step is a step of BlockManager's general client or leaves the     *)
(* manager alone.                                                          *)
(***************************************************************************)
LEMMA MoveStep ==
  ASSUME IndInv, NEW s \in Seqs, NEW t \in Tier, NEW I, NEW dst, PrepareMove(s, t, I, dst)
  PROVE  Next
<1>1. /\ I \in SUBSET DOMAIN table[s] /\ dst \in [I -> FreeIn(t)]
  BY DEF PrepareMove
<1>2. Prepare(s)
  BY <1>1 DEF Prepare
<1> QED BY <1>2 DEF Next

(* The loops only move what _move_block and _restore_blocks ask for.       *)
LEMMA HotStepRefines ==
  ASSUME IndInv, HotTypeOK, HotCallsInv, HotTodoInv, [HotNext]_hotVars
  PROVE  [Next]_vars
<1>c. calls \in Seq(HotPending)
  BY DEF HotTypeOK, HotPending
<1>1. CASE SharedSteps
  BY <1>1, SharedRefine DEF HotTypeOK, IndInv
<1>2. CASE HotWatermarks
  BY <1>2 DEF HotWatermarks, CoolTier, CoolGpu, GpuPass, PreemptForGpu, GpuStuck, EndCooling
<1>3. CASE HotTargets
  <2>1. CASE MoveBlock
    <3>1. calls # << >> /\ Top \in DemoteCall /\ Top.to # << >>
      BY <1>c, <2>1, HotTop DEF MoveBlock, InDemote
    <3>2. Top.seq \in Seqs /\ Head(Top.to) \in Tier
      BY <3>1 DEF DemoteCall
    <3>3. \E dst : PrepareMove(Top.seq, Head(Top.to), {Top.index}, dst)
      BY <2>1 DEF MoveBlock
    <3> QED BY <3>2, <3>3, MoveStep
  <2>2. CASE Copy \/ CommitBlock
    BY <2>2 DEF Copy, CommitBlock, Next, Transfer
  <2>3. CASE NextBlock \/ EndLoop \/ LookBelow \/ LookFurther \/ NotMoved
    BY <2>3 DEF NextBlock, EndLoop, LookBelow, LookFurther, NotMoved
  <2> QED BY <1>3, <2>1, <2>2, <2>3 DEF HotTargets
<1>4. CASE HotSwapIn
  <2>1. CASE RestoreBlocks
    <3>1. todo # << >>
      BY <2>1 DEF RestoreBlocks, InRestore, HotTodoInv
    <3>2. Head(todo) \in Seqs
      BY <3>1, HeadType DEF HotTypeOK, QueueTypes
    <3>3. \E dst : PrepareMove(Head(todo), GPU, Missing(Head(todo)), dst)
      BY <2>1 DEF RestoreBlocks
    <3> QED BY <3>2, <3>3, MoveStep, GpuIsTier
  <2>2. CASE RunAgain
    <3>1. todo # << >>
      BY <2>2 DEF RunAgain, InRestore, HotTodoInv
    <3>2. Head(todo) \in Seqs
      BY <3>1, HeadType DEF HotTypeOK, QueueTypes
    <3>3. \E b \in Block : Resume(Head(todo), b)
      BY <2>2 DEF RunAgain
    <3> QED BY <3>2, <3>3, SomeStep
  <2>3. CASE CommitRestore
    BY <2>3 DEF CommitRestore, Next, Transfer
  <2>4. CASE LookAtSwapped \/ PassOver \/ EndHotSwapIn \/ Stuck
    BY <2>4 DEF LookAtSwapped, PassOver, EndHotSwapIn, Stuck
  <2> QED BY <1>4, <2>1, <2>2, <2>3, <2>4 DEF HotSwapIn
<1>5. CASE TakeBlock
  BY <1>5 DEF TakeBlock
<1>6. CASE ThrowAway
  <2>1. victim # NoSeq
    BY <1>6, OuterLoop DEF ThrowAway, InLoop, Outer
  <2>2. victim \in Seqs /\ Recompute(victim)
    BY <1>6, <2>1 DEF ThrowAway, HotTypeOK, QueueTypes
  <2> QED BY <2>2, SomeStep
<1>7. CASE FailTransfer
  BY <1>7 DEF FailTransfer, Next, Transfer
<1>8. CASE UNCHANGED allVars
  BY <1>8 DEF allVars
<1> QED BY <1>1, <1>2, <1>3, <1>4, <1>5, <1>6, <1>7, <1>8, HotCases DEF OwnSteps

-----------------------------------------------------------------------------
(***************************************************************************)
(* The stack of pending calls.                                             *)
(***************************************************************************)
AllFrames(q) == \A i \in DOMAIN q : FrameOk(q, i)
LastOp(q) == q[Len(q)].op

LEMMA PopFrames ==
  ASSUME NEW q \in Seq(HotPending), q # << >>, AllFrames(q)
  PROVE  AllFrames(Tail(q)) /\ (Tail(q) # << >> => LastOp(Tail(q)) = LastOp(q))
<1> DEFINE t == Tail(q)
<1>1. PICK n \in Nat : n = Len(q) /\ n > 0
  OBVIOUS
<1>2. t \in Seq(HotPending) /\ Len(t) = n - 1 /\ DOMAIN t = 1 .. n - 1 /\ DOMAIN q = 1 .. n
  BY <1>1
<1>3. \A i \in 1 .. n - 1 : t[i] = q[i + 1]
  BY <1>1, <1>2
<1> HIDE DEF t
<1>4. ASSUME NEW i \in 1 .. n - 1 PROVE FrameOk(t, i)
  <2>1. i + 1 \in 1 .. n /\ (i < n - 1 <=> i + 1 < n)
    BY <1>1
  <2>2. FrameOk(q, i + 1)
    BY <1>2, <2>1 DEF AllFrames
  <2>3. i < n - 1 => t[i + 1] = q[i + 1 + 1]
    BY <1>3, <2>1
  <2>4. t[i] = q[i + 1]
    BY <1>3
  <2> QED BY <1>1, <1>2, <2>1, <2>2, <2>3, <2>4 DEF FrameOk
<1>5. t # << >> => t[n - 1] = q[n]
  BY <1>1, <1>2, <1>3
<1>6. AllFrames(t)
  BY <1>2, <1>4 DEF AllFrames
<1>7. t # << >> => LastOp(t) = LastOp(q)
  BY <1>1, <1>2, <1>5 DEF LastOp
<1> QED BY <1>6, <1>7 DEF t

(* The innermost call goes on: its next block, or its next tier.           *)
LEMMA TopFrames ==
  ASSUME NEW q \in Seq(HotPending), q # << >>, AllFrames(q), NEW f \in HotPending,
         f.op = Head(q).op,
         f.op = "demote" => f.seq = Head(q).seq /\ GPU \notin ToSet(f.to),
         f.op # "demote" => \A p \in ToSet(f.items) : p[1] \in Owners(f.op)
  PROVE  LET r == <<f>> \o Tail(q)
         IN r \in Seq(HotPending) /\ r # << >> /\ Head(r) = f /\ AllFrames(r) /\ LastOp(r) = LastOp(q)
<1> DEFINE r == <<f>> \o Tail(q)
<1>1. PICK n \in Nat : n = Len(q) /\ n > 0 /\ DOMAIN q = 1 .. n
  OBVIOUS
<1>2. r \in Seq(HotPending) /\ Len(r) = n /\ DOMAIN r = 1 .. n
  BY <1>1
<1>3. r[1] = f /\ q[1] = Head(q) /\ \A i \in 2 .. n : r[i] = q[i]
  BY <1>1, <1>2
<1>h. Head(r) = f
  BY <1>1, <1>2, <1>3
<1> HIDE DEF r
<1>4. ASSUME NEW i \in 1 .. n PROVE FrameOk(r, i)
  <2>1. FrameOk(q, i)
    BY <1>1 DEF AllFrames
  <2>2. i < n => r[i + 1] = q[i + 1]
    BY <1>1, <1>3
  <2>3. CASE i = 1
    BY <1>1, <1>2, <1>3, <2>1, <2>2, <2>3 DEF FrameOk
  <2>4. CASE i # 1
    <3>1. r[i] = q[i]
      BY <1>1, <1>3, <2>4
    <3> QED BY <1>1, <1>2, <2>1, <2>2, <3>1 DEF FrameOk
  <2> QED BY <2>3, <2>4
<1>5. LastOp(r) = LastOp(q)
  <2>1. CASE n = 1
    BY <1>1, <1>2, <1>3, <2>1 DEF LastOp
  <2>2. CASE n # 1
    BY <1>1, <1>2, <1>3, <2>2 DEF LastOp
  <2> QED BY <2>1, <2>2
<1>6. AllFrames(r) /\ r # << >>
  BY <1>1, <1>2, <1>4 DEF AllFrames
<1> QED BY <1>2, <1>h, <1>5, <1>6 DEF r

(* It calls _demote_block or _ensure_free_blocks.                          *)
LEMMA PushFrames ==
  ASSUME NEW q \in Seq(HotPending), q # << >>, AllFrames(q), NEW e \in HotPending,
         IF e.op = "demote"
         THEN /\ Head(q).op # "demote" /\ GPU \notin ToSet(e.to)
              /\ e.seq \in Owners(Head(q).op)
         ELSE /\ e.op = "free" /\ Head(q).op = "demote"
              /\ \A p \in ToSet(e.items) : p[1] \in Owners(e.op)
  PROVE  LET r == <<e>> \o q
         IN r \in Seq(HotPending) /\ r # << >> /\ AllFrames(r) /\ LastOp(r) = LastOp(q)
<1> DEFINE r == <<e>> \o q
<1>1. PICK n \in Nat : n = Len(q) /\ n > 0 /\ DOMAIN q = 1 .. n
  OBVIOUS
<1>2. r \in Seq(HotPending) /\ Len(r) = n + 1 /\ DOMAIN r = 1 .. n + 1
  BY <1>1
<1>3. r[1] = e /\ q[1] = Head(q) /\ \A i \in 1 .. n : r[i + 1] = q[i]
  BY <1>1, <1>2
<1> HIDE DEF r
<1>4. ASSUME NEW i \in 1 .. n PROVE FrameOk(r, i + 1)
  <2>1. FrameOk(q, i)
    BY <1>1 DEF AllFrames
  <2>2. i < n => r[i + 1 + 1] = q[i + 1]
    BY <1>1, <1>3
  <2>3. r[i + 1] = q[i] /\ (i < n <=> i + 1 < n + 1)
    BY <1>3
  <2> QED BY <1>1, <1>2, <2>1, <2>2, <2>3 DEF FrameOk
<1>5. FrameOk(r, 1)
  BY <1>1, <1>2, <1>3 DEF FrameOk
<1>6. ASSUME NEW i \in 1 .. n + 1 PROVE FrameOk(r, i)
  <2>1. CASE i = 1
    BY <1>5, <2>1
  <2>2. CASE i # 1
    <3>1. i - 1 \in 1 .. n /\ (i - 1) + 1 = i
      BY <1>1, <2>2
    <3> QED BY <1>4, <3>1
  <2> QED BY <2>1, <2>2
<1>7. LastOp(r) = LastOp(q)
  BY <1>1, <1>2, <1>3 DEF LastOp
<1>8. AllFrames(r) /\ r # << >>
  BY <1>1, <1>2, <1>6 DEF AllFrames
<1> QED BY <1>2, <1>7, <1>8 DEF r

LEMMA FirstFrame ==
  ASSUME NEW f, f.op # "demote", Outer(f.op), \A p \in ToSet(f.items) : p[1] \in Owners(f.op)
  PROVE  AllFrames(<<f>>) /\ LastOp(<<f>>) = f.op
BY DEF AllFrames, FrameOk, LastOp

(* Pending calls stay in order while the requests they may move do.        *)
LEMMA KeepFrames ==
  ASSUME NEW q, AllFrames(q), phase' = phase, victim' = victim,
         ToSet(swapped) \subseteq ToSet(swapped)'
  PROVE  AllFrames(q)'
<1>1. \A op : Owners(op) \subseteq Owners(op)'
  BY DEF Owners
<1>2. \A op : Outer(op)' <=> Outer(op)
  BY DEF Outer
<1>3. ASSUME NEW i \in DOMAIN q, FrameOk(q, i) PROVE FrameOk(q, i)'
  BY <1>1, <1>2, <1>3 DEF FrameOk
<1> QED BY <1>3 DEF AllFrames

LEMMA HotHandsFree == ASSUME HotCallsInv, HotPlanInv PROVE HandsFree
BY DEF HotCallsInv, HotPlanInv, HandsFree

LEMMA HotNoCalls ==
  ASSUME calls' = << >>, victim' = NoSeq, cur' # NoSeq => phase' = "decode"
  PROVE  HotCallsInv'
BY DEF HotCallsInv

LEMMA HotStackNext ==
  ASSUME HotCallsInv, NEW q, NEW r, calls # << >>, q = calls, calls' = r, AllFrames(r),
         r # << >> => LastOp(r) = LastOp(q),
         r = << >> => victim = NoSeq,
         UNCHANGED <<phase, victim, cur>>, ToSet(swapped) \subseteq ToSet(swapped)',
         victim # NoSeq => Len(table'[victim]) = Len(table[victim]), Remembered
  PROVE  HotCallsInv'
<1>1. AllFrames(r)'
  BY KeepFrames
<1>2. \A i \in DOMAIN calls' : FrameOk(calls, i)'
  BY <1>1 DEF AllFrames
<1>3. victim' # NoSeq => /\ calls' # << >> /\ calls'[Len(calls')].op = "preempt"
                         /\ shared' \/ ~ TooManyBlocks(Size(victim) + 1)'
                         /\ phase' = "decode" => cur' # NoSeq
  BY DEF HotCallsInv, LastOp, TooManyBlocks, Size, Capacity, Remembered
<1> QED BY <1>2, <1>3 DEF HotCallsInv

LEMMA LoopSteps ==
  ASSUME TypeOK, HotTypeOK, HotCallsInv, Remembered,
         NextBlock \/ EndLoop \/ LookBelow \/ LookFurther \/ MoveBlock \/ NotMoved \/ Copy
  PROVE  HotCallsInv'
<1> USE DEF vars, placeVars, queues
<1>c. calls \in Seq(HotPending)
  BY DEF HotTypeOK, HotPending
<1>q. PICK q \in Seq(HotPending) : q = calls
  BY <1>c
<1>1. CASE MoveBlock \/ Copy
  <2>1. /\ UNCHANGED <<phase, victim, cur, swapped, table, calls>>
    BY <1>1 DEF MoveBlock, Copy, CopyBlocks, PrepareMove, schedVars, control
  <2>2. CASE calls # << >>
    <3>1. AllFrames(q)
      BY <1>q DEF AllFrames, HotCallsInv
    <3>2. q # << >> /\ calls' = q
      BY <1>q, <2>1, <2>2
    <3> QED BY <1>q, <2>1, <2>2, <3>1, <3>2, HotStackNext
  <2>3. CASE calls = << >>
    BY <2>1, <2>3, HotNoCalls DEF HotCallsInv
  <2> QED BY <2>2, <2>3
<1> SUFFICES ASSUME NextBlock \/ EndLoop \/ LookBelow \/ LookFurther \/ NotMoved
             PROVE  HotCallsInv'
  BY <1>1
<1>2. /\ calls # << >> /\ UNCHANGED <<phase, victim, cur, swapped, table>>
  BY DEF NextBlock, EndLoop, LookBelow, LookFurther, NotMoved, InLoop, InDemote
<1>3. q # << >> /\ AllFrames(q) /\ Head(q) = Top
  BY <1>q, <1>2 DEF AllFrames, HotCallsInv, Top
<1>4. /\ Top \in HotPending
      /\ Top.op = "demote" => Top \in DemoteCall
      /\ Top.op # "demote" => Top \in LoopCall
  BY <1>c, <1>2, HotTop
<1>5. FrameOk(q, 1) /\ q[1] = Top
  BY <1>q, <1>3 DEF AllFrames
<1>6. ASSUME NEW r, calls' = r, r # << >>, AllFrames(r), LastOp(r) = LastOp(q)
      PROVE  HotCallsInv'
  BY <1>2, <1>6, <1>q, HotStackNext
<1>7. CASE EndLoop \/ NotMoved
  <2>1. calls' = Tail(q) /\ Top.op \in {"free", "cool", "demote"}
    BY <1>7, <1>q DEF EndLoop, NotMoved, InDemote
  <2>2. PICK r : r = Tail(q)
    OBVIOUS
  <2>3. AllFrames(r) /\ (r # << >> => LastOp(r) = LastOp(q))
    BY <1>3, <2>2, PopFrames
  <2>4. ASSUME r = << >> PROVE victim = NoSeq
    <3>1. Len(q) = 1
      <4>1. PICK n \in Nat : n = Len(q)
        OBVIOUS
      <4>2. r \in Seq(HotPending) /\ Len(r) = n - 1
        BY <1>3, <2>2, <4>1
      <4>3. Len(r) = 0
        BY <2>4
      <4>4. n - 1 = 0
        BY <4>2, <4>3, Zenon
      <4>5. n = 1
        BY <4>4
      <4> QED BY <4>1, <4>5
    <3>2. calls[Len(calls)] = Top
      BY <1>5, <1>q, <3>1
    <3> QED BY <2>1, <3>2 DEF HotCallsInv
  <2>5. calls' = r
    BY <2>1, <2>2
  <2> QED BY <1>2, <1>q, <2>3, <2>4, <2>5, HotStackNext
<1>8. CASE NextBlock
  <2>1. /\ Top.op # "demote" /\ Top.items # << >> /\ Top.items \in Seq(Seqs \X Nat)
        /\ Top.tier \in Tier
    BY <1>4, <1>8 DEF NextBlock, InLoop, LoopCall
  <2>2. \A p \in ToSet(Top.items) : p[1] \in Owners(Top.op)
    BY <1>5, <2>1 DEF FrameOk
  <2>3. /\ Head(Top.items) \in Seqs \X Nat /\ Head(Top.items) \in ToSet(Top.items)
        /\ ToSet(Tail(Top.items)) \subseteq ToSet(Top.items)
    BY <2>1, HeadTailSet
  <2>4. PICK f : f = [Top EXCEPT !.items = Tail(@)]
    OBVIOUS
  <2>5. f \in LoopCall /\ f.op = Top.op /\ f.items = Tail(Top.items)
    BY <1>4, <2>1, <2>4, HotUpdates DEF LoopCall
  <2>6. PICK e : e = Demote(Head(Top.items), Top.tier)
    OBVIOUS
  <2>7. e \in DemoteCall /\ e.op = "demote" /\ e.seq \in Owners(Top.op) /\ GPU \notin ToSet(e.to)
    BY <2>1, <2>2, <2>3, <2>6, DemoteType, BelowGpu DEF Demote
  <2>8. PICK s : s = <<f>> \o Tail(q)
    OBVIOUS
  <2>9. /\ s \in Seq(HotPending) /\ s # << >> /\ Head(s) = f /\ AllFrames(s)
        /\ LastOp(s) = LastOp(q)
    BY <1>3, <2>1, <2>2, <2>3, <2>5, <2>8, TopFrames DEF HotPending
  <2>10. PICK r : r = <<e>> \o s
    OBVIOUS
  <2>11. r # << >> /\ AllFrames(r) /\ LastOp(r) = LastOp(q)
    BY <2>1, <2>5, <2>7, <2>9, <2>10, PushFrames DEF HotPending
  <2>12. calls' = <<e, f>> \o Tail(q)
    BY <1>8, <1>q, <2>4, <2>6 DEF NextBlock
  <2>13. <<e, f>> \o Tail(q) = <<e>> \o (<<f>> \o Tail(q))
    BY <1>3, <2>5, <2>7 DEF HotPending
  <2> QED BY <1>6, <2>8, <2>10, <2>11, <2>12, <2>13
<1>9. CASE LookBelow
  <2>1. Top.op = "demote" /\ Top.to # << >> /\ Top.to \in Seq(Tier) /\ Top \in DemoteCall
    BY <1>4, <1>9 DEF LookBelow, InDemote, DemoteCall
  <2>2. PICK f : f = [Top EXCEPT !.cleared = TRUE]
    OBVIOUS
  <2>3. f \in DemoteCall /\ f.op = "demote" /\ f.seq = Top.seq /\ f.to = Top.to
    BY <2>1, <2>2, HotUpdates DEF DemoteCall
  <2>4. GPU \notin ToSet(f.to)
    BY <1>5, <2>1, <2>3 DEF FrameOk
  <2>5. PICK s : s = <<f>> \o Tail(q)
    OBVIOUS
  <2>6. /\ s \in Seq(HotPending) /\ s # << >> /\ Head(s) = f /\ AllFrames(s)
        /\ LastOp(s) = LastOp(q)
    BY <1>3, <2>1, <2>3, <2>4, <2>5, TopFrames DEF HotPending
  <2>7. Head(Top.to) \in Tier
    BY <2>1
  <2>8. PICK b \in Cold(Head(Top.to), NoSeq) :
          calls' = (IF FreeCount(Head(Top.to)) = 0 THEN <<Loop("free", Head(Top.to), 1, b)>>
                    ELSE << >>) \o <<f>> \o Tail(q)
    BY <1>9, <1>q, <2>2 DEF LookBelow
  <2>9. PICK e : e = Loop("free", Head(Top.to), 1, b)
    OBVIOUS
  <2>10. /\ e \in LoopCall /\ e.op = "free"
         /\ \A p \in ToSet(e.items) : p[1] \in Owners(e.op)
    <3>1. b \in Seq(Seqs \X Nat) /\ \A p \in ToSet(b) : p[1] \in ToSet(swapped)
      BY ColdType DEF HotTypeOK
    <3> QED BY <2>7, <2>9, <3>1, LoopType DEF Loop, Owners
  <2>11. PICK r : r = <<e>> \o s
    OBVIOUS
  <2>12. r # << >> /\ AllFrames(r) /\ LastOp(r) = LastOp(q)
    BY <2>3, <2>6, <2>10, <2>11, PushFrames DEF HotPending
  <2>13. calls' = r \/ calls' = s
    <3>1. <<e>> \o <<f>> \o Tail(q) = <<e>> \o (<<f>> \o Tail(q))
      BY <1>3, <2>3, <2>10 DEF HotPending
    <3>2. << >> \o <<f>> \o Tail(q) = <<f>> \o Tail(q)
      BY <1>3, <2>3 DEF HotPending
    <3> QED BY <2>5, <2>8, <2>9, <2>11, <3>1, <3>2
  <2> QED BY <1>6, <2>6, <2>12, <2>13
<1>10. CASE LookFurther
  <2>1. Top.op = "demote" /\ Top.to # << >> /\ Top.to \in Seq(Tier) /\ Top \in DemoteCall
    BY <1>4, <1>10 DEF LookFurther, InDemote, DemoteCall
  <2>2. PICK f : f = [Top EXCEPT !.to = Tail(@), !.cleared = FALSE]
    OBVIOUS
  <2>3. f \in DemoteCall /\ f.op = "demote" /\ f.seq = Top.seq /\ f.to = Tail(Top.to)
    BY <2>1, <2>2, HotUpdates DEF DemoteCall
  <2>4. GPU \notin ToSet(f.to)
    BY <1>5, <2>1, <2>3, HeadTailSet DEF FrameOk
  <2>5. PICK s : s = <<f>> \o Tail(q)
    OBVIOUS
  <2>6. s # << >> /\ AllFrames(s) /\ LastOp(s) = LastOp(q)
    BY <1>3, <2>1, <2>3, <2>4, <2>5, TopFrames DEF HotPending
  <2>7. calls' = s
    BY <1>10, <1>q, <2>2, <2>5 DEF LookFurther
  <2> QED BY <1>6, <2>6, <2>7
<1> QED BY <1>7, <1>8, <1>9, <1>10

(* A committed move changes where blocks of one request are, nothing else. *)
LEMMA MoveKeepsSize ==
  ASSUME IndInv, CommitMove
  PROVE  /\ plan # NoPlan /\ plan.op = "move" /\ plan.seq \in Seqs /\ plan.to \in Tier
         /\ tokens' = tokens /\ numSched' = numSched /\ plan' = NoPlan /\ status' = StatusAfterMove
         /\ DOMAIN plan.dst \subseteq DOMAIN table[plan.seq]
         /\ \A s \in Seqs : Len(table'[s]) = Len(table[s])
         /\ \A s \in Seqs : s # plan.seq => table'[s] = table[s] /\ tiers'[s] = tiers[s]
         /\ tiers'[plan.seq] = [i \in DOMAIN tiers[plan.seq] |->
                                  IF i \in DOMAIN plan.dst THEN plan.to ELSE tiers[plan.seq][i]]
         /\ DOMAIN tiers[plan.seq] = DOMAIN table[plan.seq]
<1>1. TypeOK /\ TagsAgree
  BY DEF IndInv
<1>2. plan # NoPlan /\ plan.op = "move"
  BY DEF CommitMove, NoPlan
<1>3. plan.seq \in Seqs /\ plan.to \in Tier /\ DOMAIN plan.dst \subseteq DOMAIN table[plan.seq]
  BY <1>1, <1>2 DEF TypeOK
<1>4. DOMAIN tiers[plan.seq] = DOMAIN table[plan.seq]
  BY <1>1, <1>3 DEF TagsAgree, TagsOf
<1>5. /\ table' = [table EXCEPT ![plan.seq] = [i \in DOMAIN table[plan.seq] |->
                     IF i \in DOMAIN plan.dst THEN plan.dst[i] ELSE table[plan.seq][i]]]
      /\ tiers' = [tiers EXCEPT ![plan.seq] = [i \in DOMAIN tiers[plan.seq] |->
                     IF i \in DOMAIN plan.dst THEN plan.to ELSE tiers[plan.seq][i]]]
      /\ tokens' = tokens /\ numSched' = numSched /\ plan' = NoPlan /\ status' = StatusAfterMove
  BY DEF CommitMove
<1>6. table \in [Seqs -> Seq(Block)] /\ tiers \in [Seqs -> Seq(Tier)]
  BY <1>1 DEF TypeOK
<1>7. PICK n \in Nat : DOMAIN table[plan.seq] = 1 .. n /\ Len(table[plan.seq]) = n
  BY <1>3, <1>6
<1>8. \A s \in Seqs : s # plan.seq => table'[s] = table[s] /\ tiers'[s] = tiers[s]
  BY <1>5, <1>6
<1>9. tiers'[plan.seq] = [i \in DOMAIN tiers[plan.seq] |->
                            IF i \in DOMAIN plan.dst THEN plan.to ELSE tiers[plan.seq][i]]
  BY <1>3, <1>5, <1>6
<1>10. Len(table'[plan.seq]) = Len(table[plan.seq])
  <2>1. table'[plan.seq] = [i \in 1 .. n |->
                     IF i \in DOMAIN plan.dst THEN plan.dst[i] ELSE table[plan.seq][i]]
    BY <1>3, <1>5, <1>6, <1>7
  <2> QED BY <1>7, <2>1
<1>11. \A s \in Seqs : Len(table'[s]) = Len(table[s])
  BY <1>8, <1>10
<1> QED BY <1>2, <1>3, <1>4, <1>5, <1>8, <1>9, <1>11

(* _demote_block returned: to a loop over cold blocks, which looks at all  *)
(* blocks again, to preempt, whose victim is swapped now, or to the others.*)
LEMMA CommitCalls ==
  ASSUME IndInv, HotTypeOK, HotCallsInv, HotPlanInv, Remembered, CommitBlock \/ CommitRestore
  PROVE  HotCallsInv'
<1>1. CASE CommitRestore
  BY <1>1, HotNoCalls DEF CommitRestore, control, HotCallsInv
<1>2. CASE CommitBlock
  <2>1. calls # << >> /\ CommitMove /\ phase' = phase
    BY <1>2 DEF CommitBlock
  <2>2. plan # NoPlan /\ \A s \in Seqs : Len(table'[s]) = Len(table[s])
    BY <2>1, MoveKeepsSize
  <2>3. PICK q \in Seq(HotPending) : q = calls
    BY DEF HotTypeOK, HotPending
  <2>4. PICK n \in Nat : n = Len(q) /\ n > 1 /\ DOMAIN q = 1 .. n
    BY <2>1, <2>2, <2>3, BlockCall
  <2>5. q # << >> /\ AllFrames(q)
    BY <2>1, <2>3 DEF AllFrames, HotCallsInv
  <2>6. PICK r : r = Tail(q)
    OBVIOUS
  <2>7. r \in Seq(HotPending) /\ Len(r) = n - 1
    BY <2>4, <2>5, <2>6
  <2>8. r # << >>
    <3>1. Len(r) # 0
      BY <2>4, <2>7
    <3> QED BY <3>1
  <2>9. CASE q[2].op \in {"gpu", "preempt"}
    <3>1. FrameOk(q, 2)
      BY <2>4, <2>5 DEF AllFrames
    <3>2. n = 2
      <4>1. ~ (2 < n)
        BY <2>4, <2>9, <3>1 DEF FrameOk
      <4> QED BY <2>4, <4>1
    <3>3. calls' = Tail(r)
      BY <1>2, <2>3, <2>6, <2>9 DEF CommitBlock
    <3>4. Tail(r) \in Seq(HotPending) /\ Len(Tail(r)) = 0
      BY <2>7, <2>8, <3>2
    <3>5. Tail(r) = << >>
      <4>1. ASSUME NEW p \in Seq(HotPending), Len(p) = 0 PROVE p = << >>
        BY <4>1
      <4> QED BY <3>4, <4>1
    <3>6. victim' = NoSeq
      <4>1. CASE q[2].op = "preempt"
        BY <1>2, <2>3, <4>1 DEF CommitBlock
      <4>2. CASE q[2].op = "gpu"
        <5>1. victim = NoSeq
          BY <2>3, <2>4, <3>2, <4>2 DEF HotCallsInv
        <5> QED BY <1>2, <2>3, <4>2, <5>1 DEF CommitBlock
      <4> QED BY <2>9, <4>1, <4>2
    <3>7. cur' # NoSeq => phase' = "decode"
      BY <1>2, <2>1 DEF CommitBlock, HotCallsInv
    <3> QED BY <3>3, <3>5, <3>6, <3>7, HotNoCalls
  <2>10. CASE q[2].op \notin {"gpu", "preempt"}
    <3>1. calls' = r /\ UNCHANGED <<swapped, victim, cur>>
      BY <1>2, <2>3, <2>6, <2>10 DEF CommitBlock
    <3>2. AllFrames(r) /\ LastOp(r) = LastOp(q)
      BY <2>5, <2>6, <2>8, PopFrames
    <3>3. victim # NoSeq => victim \in Seqs
      BY DEF HotTypeOK, QueueTypes
    <3> QED BY <2>1, <2>2, <2>3, <2>8, <3>1, <3>2, <3>3, HotStackNext
  <2> QED BY <2>9, <2>10
<1> QED BY <1>1, <1>2

LEMMA HotFirstCall ==
  ASSUME NEW f, calls' = <<f>>, f.op # "demote",
         phase' \in {"demote", "gpu", "restore", "decode"}, Outer(f.op)',
         \A p \in ToSet(f.items) : p[1] \in Owners(f.op)',
         victim' # NoSeq => /\ f.op = "preempt" /\ (shared' \/ ~ TooManyBlocks(Size(victim) + 1)')
                            /\ phase' = "decode" => cur' # NoSeq,
         cur' # NoSeq => phase' = "decode"
  PROVE  HotCallsInv'
<1>1. \A i \in DOMAIN calls' : FrameOk(calls, i)'
  BY DEF FrameOk
<1>2. calls' # << >> /\ calls'[Len(calls')] = f
  OBVIOUS
<1> QED BY <1>1, <1>2 DEF HotCallsInv

(* Requests that hold GPU blocks at the same time fit with one block more. *)
LEMMA VictimFits ==
  ASSUME IndInv, Unshared, NEW s \in Seqs, NEW r \in Seqs, r # s,
         status[s] = "running", status[r] = "running"
  PROVE  ~ TooManyBlocks(Size(s) + 1)
<1>1. AllOn(s, GPU)
  BY RunningOnGpu
<1>2. /\ TypeOK /\ RefCountsExact
  BY DEF IndInv
<1>3. \A b \in Held(s) : refCount[b] = 1
  <2> SUFFICES ASSUME NEW b \in Held(s) PROVE refCount[b] = 1
    OBVIOUS
  <2>1. b \in Block
    BY <1>2 DEF Held, TypeOK
  <2>2. s \in Holders(b)
    BY DEF Holders
  <2>3. IsFiniteSet(Holders(b)) /\ Cardinality(Holders(b)) \in Nat
    BY HoldersFinite
  <2>4. Cardinality(Holders(b)) # 0
    BY <2>2, <2>3, FS_EmptySet
  <2>5. refCount[b] = Cardinality(Holders(b)) + InFlight(b) /\ InFlight(b) \in {0, 1}
    BY <1>2, <2>1 DEF RefCountsExact, InFlight
  <2>6. refCount[b] <= 1 /\ refCount[b] \in Nat
    BY <1>2, <2>1 DEF Unshared, TypeOK
  <2> QED BY <2>3, <2>4, <2>5, <2>6
<1>4. Size(s) + 1 <= Capacity(GPU)
  BY <1>1, <1>3, OneMoreFits
<1>5. Size(s) \in Nat /\ Capacity(GPU) \in Nat
  BY <1>2, SizeType, GpuSize
<1> QED BY <1>4, <1>5 DEF TooManyBlocks

LEMMA VictimCalls ==
  ASSUME IndInv, HotTypeOK, HotCallsInv, HotTodoInv, HotPlanInv, HomeInv, Remembered,
         PreemptForGpu \/ TakeBlock
  PROVE  HotCallsInv'
<1> USE DEF vars, placeVars, queues
<1>t. QueueTypes /\ TypeOK
  BY DEF HotTypeOK, IndInv
<1>h. /\ phase # "raised"
      /\ Injective(running) /\ running \in Seq(Seqs)
      /\ \A s \in ToSet(running) \cup Handled : status[s] = "running"
      /\ ToSet(running) \cap Handled = {} /\ ToSet(running) \subseteq Seqs
  <2>1. phase # "raised"
    <3>1. CASE PreemptForGpu
      BY <3>1, OuterLoop DEF PreemptForGpu, InLoop, Outer
    <3> QED BY <3>1 DEF TakeBlock, InDecode
  <2> QED BY <1>t, <2>1, SetOfSeq DEF HomeInv, WithStatus, QueueTypes
<1>1. CASE PreemptForGpu
  <2>1. phase = "gpu" /\ Len(calls) = 1 /\ Top.op = "gpu" /\ phase' = phase /\ cur' = cur
    BY <1>1, OuterLoop DEF PreemptForGpu, InLoop, Outer
  <2>2. victim' \in ToSet(running)
    BY <1>1 DEF PreemptForGpu, Oldest
  <2>3. PICK r \in ToSet(running) : r # victim'
    <3>1. 1 \in DOMAIN running /\ 2 \in DOMAIN running /\ running[1] # running[2]
      <4>1. Len(running) \in Nat /\ Len(running) > 1
        BY <1>1, <1>h DEF PreemptForGpu
      <4> QED BY <1>h, <4>1 DEF Injective
    <3>2. running[1] \in ToSet(running) /\ running[2] \in ToSet(running)
      BY <3>1 DEF ToSet
    <3> QED BY <3>1, <3>2
  <2>4. PICK v \in Seqs : v = victim'
    BY <1>h, <2>2
  <2>5. shared' \/ ~ TooManyBlocks(Size(v) + 1)
    BY <1>h, <2>2, <2>3, <2>4, VictimFits DEF Remembered
  <2>6. table' = table
    BY <1>1 DEF PreemptForGpu
  <2>7. shared' \/ ~ TooManyBlocks(Size(victim) + 1)'
    BY <2>4, <2>5, <2>6 DEF TooManyBlocks, Size, Capacity
  <2>8. PICK q \in OwnGpu(v) : calls' = <<Loop("preempt", GPU, 0, q)>>
    BY <1>1, <2>4 DEF PreemptForGpu
  <2>9. \A p \in ToSet(q) : p[1] = v
    BY <1>t, OwnGpuType
  <2>10. v # NoSeq
    BY ConstantsAssumption
  <2>11. Outer("preempt")' /\ \A p \in ToSet(q) : p[1] \in Owners("preempt")'
    BY <2>1, <2>4, <2>9, <2>10 DEF Outer, Owners
  <2>12. cur = NoSeq
    BY <2>1 DEF HotCallsInv
  <2>13. PICK f : f = Loop("preempt", GPU, 0, q)
    OBVIOUS
  <2>14. f.op = "preempt" /\ f.items = q
    BY <2>13 DEF Loop
  <2> QED BY <2>1, <2>7, <2>8, <2>11, <2>12, <2>13, <2>14, HotFirstCall
<1>2. CASE TakeBlock
  <2>1. phase = "decode" /\ phase' = phase /\ cur # NoSeq /\ cur' = cur /\ table' = table
    BY <1>2 DEF TakeBlock, InDecode
  <2>2. cur \in Seqs /\ cur \in Handled
    BY <1>t, <2>1 DEF QueueTypes, Handled
  <2>3. PICK v \in Seqs : v = victim'
    BY <1>2, <1>h, <2>2 DEF TakeBlock, Oldest
  <2>4. shared' \/ ~ TooManyBlocks(Size(v) + 1)
    <3>1. CASE running # << >>
      <4>1. v \in ToSet(running)
        BY <1>2, <2>3, <3>1 DEF TakeBlock, Oldest
      <4>2. v # cur
        BY <1>h, <2>2, <4>1
      <4> QED BY <1>h, <2>2, <4>1, <4>2, VictimFits DEF Remembered
    <3>2. CASE running = << >>
      BY <1>2, <2>3, <3>2 DEF TakeBlock
    <3> QED BY <3>1, <3>2
  <2>5. shared' \/ ~ TooManyBlocks(Size(victim) + 1)'
    BY <2>1, <2>3, <2>4 DEF TooManyBlocks, Size, Capacity
  <2>6. PICK q \in OwnGpu(v) : calls' = <<Loop("preempt", GPU, 0, q)>>
    BY <1>2, <2>3 DEF TakeBlock
  <2>7. \A p \in ToSet(q) : p[1] = v
    BY <1>t, OwnGpuType
  <2>8. v # NoSeq
    BY ConstantsAssumption
  <2>9. Outer("preempt")' /\ \A p \in ToSet(q) : p[1] \in Owners("preempt")'
    BY <2>1, <2>3, <2>7, <2>8 DEF Outer, Owners
  <2>10. PICK f : f = Loop("preempt", GPU, 0, q)
    OBVIOUS
  <2>11. f.op = "preempt" /\ f.items = q
    BY <2>10 DEF Loop
  <2> QED BY <2>1, <2>5, <2>6, <2>9, <2>10, <2>11, HotFirstCall
<1> QED BY <1>1, <1>2

LEMMA CoolCalls ==
  ASSUME IndInv, HotTypeOK, HotCallsInv, HotTodoInv, HotPlanInv, HomeInv, Remembered,
         HotWatermarks
  PROVE  HotCallsInv'
<1>t. QueueTypes /\ TypeOK
  BY DEF HotTypeOK, IndInv
<1> USE DEF queues
<1>1. CASE CoolTier
  <2>1. calls = << >> /\ phase' = "demote" /\ phase = "demote" /\ UNCHANGED <<swapped, victim, cur>>
    BY <1>1 DEF CoolTier
  <2>2. victim = NoSeq /\ cur = NoSeq
    BY <2>1 DEF HotCallsInv
  <2>3. PICK q \in Cold(Head(levels), NoSeq) :
          calls' = IF UsedIn(Head(levels)) > High[Head(levels)]
                   THEN <<Loop("cool", Head(levels), 0, q)>> ELSE << >>
    BY <1>1 DEF CoolTier
  <2>4. \A p \in ToSet(q) : p[1] \in ToSet(swapped)
    BY <1>t, ColdType
  <2>5. PICK f : f = Loop("cool", Head(levels), 0, q)
    OBVIOUS
  <2>6. f.op = "cool" /\ f.items = q
    BY <2>5 DEF Loop
  <2>7. Outer("cool")' /\ \A p \in ToSet(q) : p[1] \in Owners("cool")'
    BY <2>1, <2>4 DEF Outer, Owners
  <2>8. CASE calls' = <<f>>
    BY <2>1, <2>2, <2>6, <2>7, <2>8, HotFirstCall
  <2>9. CASE calls' = << >>
    BY <2>1, <2>2, <2>9, HotNoCalls
  <2> QED BY <2>3, <2>5, <2>8, <2>9
<1>2. CASE CoolGpu \/ EndCooling
  <2>1. calls = << >> /\ calls' = << >> /\ UNCHANGED <<victim, cur>>
    BY <1>2 DEF CoolGpu, EndCooling, HotCallsInv
  <2>2. victim = NoSeq /\ cur = NoSeq
    BY <1>2, <2>1 DEF CoolGpu, EndCooling, HotCallsInv
  <2> QED BY <2>1, <2>2, HotNoCalls
<1>3. CASE GpuPass
  <2>1. calls = << >> /\ phase = "gpu" /\ UNCHANGED <<swapped, victim, cur>>
    BY <1>3 DEF GpuPass
  <2>2. victim = NoSeq /\ cur = NoSeq
    BY <2>1 DEF HotCallsInv
  <2>3. CASE calls' = calls
    BY <2>1, <2>2, <2>3, HotNoCalls
  <2>4. ASSUME NEW q \in Cold(GPU, NoSeq), calls' = <<Loop("gpu", GPU, 0, q)>>, phase' = phase
        PROVE  HotCallsInv'
    <3>1. \A p \in ToSet(q) : p[1] \in ToSet(swapped)
      BY <1>t, ColdType
    <3>2. PICK f : f = Loop("gpu", GPU, 0, q)
      OBVIOUS
    <3>3. f.op = "gpu" /\ f.items = q
      BY <3>2 DEF Loop
    <3>4. Outer("gpu")' /\ \A p \in ToSet(q) : p[1] \in Owners("gpu")'
      BY <2>1, <2>4, <3>1 DEF Outer, Owners
    <3> QED BY <2>1, <2>2, <2>4, <3>2, <3>3, <3>4, HotFirstCall
  <2> QED BY <1>3, <2>3, <2>4 DEF GpuPass
<1>4. CASE PreemptForGpu
  BY <1>4, VictimCalls
<1>5. CASE GpuStuck
  <2>1. calls # << >> /\ Top.op \in {"gpu", "preempt"} /\ phase = "gpu" /\ calls' = << >>
    BY <1>5 DEF GpuStuck, InLoop
  <2>2. cur = NoSeq /\ cur' = cur
    BY <1>5, <2>1 DEF GpuStuck, HotCallsInv
  <2>3. victim' = NoSeq
    <3>1. CASE Top.op = "preempt"
      BY <1>5, <3>1 DEF GpuStuck
    <3>2. CASE Top.op = "gpu"
      <4>1. Len(calls) = 1
        BY <2>1, <3>2, OuterLoop
      <4>2. calls[Len(calls)] = Top
        BY <2>1, <4>1 DEF Top
      <4>3. victim = NoSeq
        BY <3>2, <4>2 DEF HotCallsInv
      <4> QED BY <1>5, <3>2, <4>3 DEF GpuStuck
    <3> QED BY <2>1, <3>1, <3>2
  <2> QED BY <2>1, <2>2, <2>3, HotNoCalls
<1> QED BY <1>1, <1>2, <1>3, <1>4, <1>5 DEF HotWatermarks

LEMMA SwapInCalls ==
  ASSUME IndInv, HotTypeOK, HotCallsInv, HotTodoInv, HotPlanInv, Remembered, HotSwapIn
  PROVE  HotCallsInv'
<1>t. QueueTypes /\ TypeOK
  BY DEF HotTypeOK, IndInv
<1> USE DEF queues
<1>1. CASE LookAtSwapped
  <2>1. /\ calls = << >> /\ phase' = "restore" /\ UNCHANGED <<swapped, victim, cur>>
        /\ victim = NoSeq /\ cur = NoSeq
    BY <1>1 DEF LookAtSwapped, HotCallsInv
  <2>2. PICK q \in Cold(GPU, Head(todo)) :
          calls' = IF running = << >> /\ FreeCount(GPU) < Required(Head(todo))
                   THEN <<Loop("free", GPU, Required(Head(todo)), q)>> ELSE << >>
    BY <1>1 DEF LookAtSwapped
  <2>3. \A p \in ToSet(q) : p[1] \in ToSet(swapped)
    BY <1>t, ColdType
  <2>4. PICK f : f = Loop("free", GPU, Required(Head(todo)), q)
    OBVIOUS
  <2>5. f.op = "free" /\ f.items = q
    BY <2>4 DEF Loop
  <2>6. Outer("free")' /\ \A p \in ToSet(q) : p[1] \in Owners("free")'
    BY <2>1, <2>3 DEF Outer, Owners
  <2>7. CASE calls' = <<f>>
    BY <2>1, <2>5, <2>6, <2>7, HotFirstCall
  <2>8. CASE calls' = << >>
    BY <2>1, <2>8, HotNoCalls
  <2> QED BY <2>2, <2>4, <2>7, <2>8
<1>2. CASE PassOver \/ RestoreBlocks \/ RunAgain \/ EndHotSwapIn
  <2>1. calls = << >> /\ phase \in {"swapin", "restore"}
    BY <1>2 DEF PassOver, RestoreBlocks, RunAgain, EndHotSwapIn, HotSwapInDone, InRestore,
       HotCallsInv
  <2>2. UNCHANGED <<calls, cur, victim>>
    BY <1>2 DEF PassOver, RestoreBlocks, RunAgain, EndHotSwapIn, schedVars, control
  <2> QED BY <2>1, <2>2, HotNoCalls DEF HotCallsInv
<1>3. CASE CommitRestore
  BY <1>3, CommitCalls
<1>4. CASE Stuck
  BY <1>4, HotNoCalls DEF Stuck, Raise
<1> QED BY <1>1, <1>2, <1>3, <1>4 DEF HotSwapIn

LEMMA SharedCalls ==
  ASSUME HotCallsInv, HotPlanInv, SharedSteps
  PROVE  HotCallsInv'
<1>1. CASE StartStep \/ ResetStats \/ \E s \in Seqs : Arrive(s)
  BY <1>1, HotNoCalls DEF StartStep, ResetStats, Arrive, control, HotCallsInv
<1>2. CASE PrefillPhase
  BY <1>2, HotNoCalls DEF PrefillPhase, AdmitNew, AdmitMore, Scheduled, PrefillTooLarge,
     EndPrefill, Raise, HotCallsInv
<1>3. CASE TakeRunning \/ DecodeCur \/ DecodeTooLarge \/ EndDecode
  BY <1>3, HotNoCalls DEF TakeRunning, DecodeCur, DecodeTooLarge, EndDecode, InDecode, Raise,
     HotCallsInv
<1>4. CASE Model
  BY <1>4, HotNoCalls DEF Model, RunNext, EndRun, PostNext, EndStep, HotCallsInv
<1> QED BY <1>1, <1>2, <1>3, <1>4 DEF SharedSteps

LEMMA HotCallsStep ==
  ASSUME IndInv, HotTypeOK, HotCallsInv, HotTodoInv, HotPlanInv, HomeInv, Remembered,
         SharedSteps \/ OwnSteps \/ FailTransfer
  PROVE  HotCallsInv'
<1>t. TypeOK
  BY DEF IndInv
<1>1. CASE ThrowAway
  <2>1. phase' = phase /\ phase = "decode" /\ calls' = << >> /\ victim' = NoSeq
    BY <1>1 DEF ThrowAway
  <2> QED BY <2>1, HotNoCalls
<1>2. CASE FailTransfer
  BY <1>2, HotNoCalls DEF FailTransfer, Raise
<1> QED BY <1>t, <1>1, <1>2, CoolCalls, LoopSteps, CommitCalls, SwapInCalls, VictimCalls, SharedCalls
        DEF OwnSteps, HotTargets

(* An exception ends every loop, so no step follows it.                    *)
LEMMA HotNeverRaised ==
  ASSUME HotCallsInv, HotPlanInv, SharedSteps \/ OwnSteps \/ FailTransfer
  PROVE  phase # "raised"
<1> SUFFICES ASSUME phase = "raised" PROVE FALSE
  OBVIOUS
<1>1. calls = << >> /\ plan = NoPlan /\ phase \notin {"idle", "demote", "gpu", "cooled", "swapin",
                                          "restore", "prefill", "decode", "run", "post"}
  BY DEF HotCallsInv, HotPlanInv
<1>2. ~ (ResetStats \/ StartStep \/ \E s \in Seqs : Arrive(s))
  BY <1>1 DEF ResetStats, StartStep, Arrive
<1>3. ~ HotWatermarks
  BY <1>1 DEF HotWatermarks, CoolTier, CoolGpu, GpuPass, PreemptForGpu, GpuStuck, EndCooling, InLoop
<1>4. ~ HotTargets /\ ~ FailTransfer
  BY <1>1 DEF HotTargets, NextBlock, EndLoop, LookBelow, LookFurther, MoveBlock, NotMoved,
     InLoop, InDemote, Copy, CopyBlocks, CommitBlock, FailTransfer, AbortTransfer
<1>5. ~ HotSwapIn
  BY <1>1 DEF HotSwapIn, LookAtSwapped, PassOver, RestoreBlocks, CommitRestore, CommitMove, NoPlan,
     RunAgain, EndHotSwapIn, Stuck, NextTooLarge, HotSwapInDone, InRestore
<1>6. ~ PrefillPhase /\ ~ Model
  BY <1>1 DEF PrefillPhase, AdmitNew, AdmitMore, PrefillTooLarge, EndPrefill,
     Model, RunNext, EndRun, PostNext, EndStep
<1>7. ~ (TakeRunning \/ DecodeCur \/ DecodeTooLarge \/ EndDecode) /\ ~ TakeBlock /\ ~ ThrowAway
  BY <1>1 DEF TakeRunning, DecodeCur, DecodeTooLarge, EndDecode, InDecode, TakeBlock, ThrowAway
<1> QED BY <1>2, <1>3, <1>4, <1>5, <1>6, <1>7 DEF SharedSteps, OwnSteps

-----------------------------------------------------------------------------
(***************************************************************************)
(* The candidates, and the transfer in flight.                             *)
(***************************************************************************)
LEMMA HotTodoSame ==
  ASSUME HotTodoInv, older' = older,
         phase' \in {"swapin", "restore"} =>
           UNCHANGED <<phase, swapped, todo, running>>
  PROVE  HotTodoInv'
BY DEF HotTodoInv

LEMMA HotTodoStep ==
  ASSUME HotTypeOK, HotCallsInv, HotTodoInv, HotPlanInv, HomeInv,
         SharedSteps \/ OwnSteps \/ FailTransfer
  PROVE  HotTodoInv'
<1> USE DEF queues, step
<1>t. QueueTypes
  BY DEF HotTypeOK
<1>0. phase # "raised"
  BY HotNeverRaised
<1>1. CASE SharedSteps /\ ~ EndStep
  <2>1. phase' \notin {"swapin", "restore"}
    BY <1>1, SharedControl DEF SharedPhases
  <2>2. older' = older
    BY <1>1 DEF SharedSteps, StartStep, ResetStats, Arrive, PrefillPhase, AdmitNew, AdmitMore,
       Scheduled, PrefillTooLarge, EndPrefill, Raise, TakeRunning, DecodeCur, DecodeTooLarge,
       EndDecode, Model, RunNext, EndRun, PostNext
  <2> QED BY <2>1, <2>2, HotTodoSame
<1>2. CASE EndStep
  <2>1. \A s \in Seqs : <<s, s>> \notin older /\ <<s, s>> \notin ById
    BY ByIdIrreflexive DEF HotTodoInv
  <2>2. ASSUME NEW s \in Seqs, NEW S PROVE <<s, s>> \notin Touched(S)
    BY <2>1 DEF Touched
  <2>3. older' = Touched(ToSet(batch)) /\ phase' = "idle"
    BY <1>2 DEF EndStep
  <2> QED BY <2>2, <2>3 DEF HotTodoInv
<1>3. CASE FailTransfer \/ Stuck
  BY <1>3, HotTodoSame DEF FailTransfer, Stuck, Raise
<1>4. CASE CoolTier \/ CoolGpu \/ GpuPass \/ PreemptForGpu \/ GpuStuck \/ TakeBlock \/ ThrowAway
  <2>1. phase' \notin {"swapin", "restore"} /\ older' = older
    <3>1. CASE PreemptForGpu
      BY <3>1, OuterLoop DEF PreemptForGpu, InLoop, Outer
    <3>2. CASE CoolTier \/ CoolGpu \/ GpuPass \/ GpuStuck \/ TakeBlock \/ ThrowAway
      BY <3>2 DEF CoolTier, CoolGpu, GpuPass, GpuStuck, TakeBlock, InDecode, ThrowAway
    <3> QED BY <1>4, <3>1, <3>2
  <2> QED BY <2>1, HotTodoSame
<1>5. CASE EndCooling
  <2>1. older' = older /\ swapped' = swapped
    BY <1>5 DEF EndCooling
  <2>2. CASE phase' = "swapin" /\ todo' \in ByAge(ToSet(swapped))
    <3>1. ToSet(swapped) \in SUBSET Seqs
      BY <1>t, SetOfSeq DEF QueueTypes
    <3>2. ToSet(todo') \subseteq ToSet(swapped) /\ Injective(todo')
      BY <2>2, <3>1, ByAgeSet DEF HotTodoInv
    <3> QED BY <2>1, <2>2, <3>2 DEF HotTodoInv
  <2>3. CASE phase' = "prefill"
    BY <2>1, <2>3, HotTodoSame
  <2> QED BY <1>5, <2>2, <2>3 DEF EndCooling
<1>6. CASE NextBlock \/ EndLoop \/ LookBelow \/ LookFurther \/ MoveBlock \/ NotMoved \/ Copy
             \/ RestoreBlocks \/ CommitRestore
  BY <1>6, HotTodoSame DEF NextBlock, EndLoop, LookBelow, LookFurther, MoveBlock, NotMoved, Copy,
     RestoreBlocks, CommitRestore, schedVars, control
<1>7. CASE CommitBlock
  <2>1. UNCHANGED <<older, phase, todo, running>> /\ calls # << >> /\ plan # NoPlan
    BY <1>7 DEF CommitBlock, CommitMove, NoPlan
  <2>2. CASE calls[2].op # "preempt"
    BY <1>7, <2>1, <2>2, HotTodoSame DEF CommitBlock
  <2>3. CASE calls[2].op = "preempt"
    <3>1. 2 \in DOMAIN calls
      <4>1. PICK n \in Nat : n = Len(calls) /\ n > 1
        BY <2>1, BlockCall
      <4>2. calls \in Seq(HotPending)
        BY DEF HotTypeOK, HotPending
      <4> QED BY <4>1, <4>2
    <3>2. FrameOk(calls, 2)
      BY <3>1 DEF HotCallsInv
    <3>3. phase \in {"gpu", "decode"}
      BY <2>3, <3>2 DEF FrameOk, Outer
    <3> QED BY <2>1, <3>3, HotTodoSame
  <2> QED BY <2>2, <2>3
<1>8. CASE LookAtSwapped
  <2>1. /\ phase = "swapin" /\ todo # << >> /\ phase' = "restore"
        /\ UNCHANGED <<older, todo, running, swapped>> /\ ~ Full
    BY <1>8 DEF LookAtSwapped
  <2>2. Len(running) < MaxSeqs
    <3>1. Len(running) \in Nat /\ MaxSeqs \in Nat /\ ~ (Len(running) >= MaxSeqs)
      BY <1>t, <2>1, SchedulerAssumption DEF QueueTypes, Full
    <3> QED BY <3>1
  <2> QED BY <2>1, <2>2 DEF HotTodoInv
<1>9. CASE PassOver
  <2>1. /\ phase = "restore" /\ phase' = "swapin" /\ todo' = Tail(todo)
        /\ UNCHANGED <<older, swapped>>
    BY <1>9 DEF PassOver, InRestore
  <2>2. todo # << >> /\ Injective(todo) /\ ToSet(todo) \subseteq ToSet(swapped)
    BY <2>1 DEF HotTodoInv
  <2>3. ToSet(Tail(todo)) \subseteq ToSet(todo) /\ Injective(Tail(todo))
    BY <1>t, <2>2, HeadTailSet DEF QueueTypes
  <2> QED BY <2>1, <2>2, <2>3 DEF HotTodoInv
<1>10. CASE RunAgain
  <2>1. /\ phase = "restore" /\ phase' = "swapin" /\ todo' = Tail(todo)
        /\ swapped' \in Without(swapped, Head(todo)) /\ older' = older
    BY <1>10 DEF RunAgain, InRestore
  <2>2. /\ todo # << >> /\ Injective(todo) /\ ToSet(todo) \subseteq ToSet(swapped)
        /\ Injective(swapped)
    BY <1>0, <2>1 DEF HotTodoInv, HomeInv
  <2>3. ToSet(swapped') = ToSet(swapped) \ {Head(todo)}
    BY <1>t, <2>1, <2>2, WithoutSet DEF QueueTypes
  <2>4. ToSet(todo') = ToSet(todo) \ {Head(todo)} /\ Injective(todo')
    BY <1>t, <2>1, <2>2, HeadTailSet DEF QueueTypes
  <2> QED BY <2>1, <2>2, <2>3, <2>4 DEF HotTodoInv
<1>11. CASE EndHotSwapIn
  BY <1>11, HotTodoSame DEF EndHotSwapIn
<1> QED BY <1>1, <1>2, <1>3, <1>4, <1>5, <1>6, <1>7, <1>8, <1>9, <1>10, <1>11
        DEF OwnSteps, HotWatermarks, HotTargets, HotSwapIn, SharedSteps

LEMMA HotNoPlan == ASSUME plan' = NoPlan PROVE HotPlanInv'
BY DEF HotPlanInv

LEMMA SharedNoPlan ==
  ASSUME HandsFree, SharedSteps
  PROVE  plan = NoPlan /\ plan' = NoPlan
<1> USE DEF vars
<1>1. CASE StartStep \/ ResetStats \/ \E s \in Seqs : Arrive(s)
  BY <1>1 DEF StartStep, ResetStats, ClearPrefixCache, Arrive, Add, Quiet, HandsFree
<1>2. CASE PrefillPhase
  BY <1>2 DEF PrefillPhase, AdmitNew, AdmitMore, PrefillNew, PrefillMore, Quiet, PrefillTooLarge,
     EndPrefill, HandsFree
<1>3. CASE TakeRunning \/ DecodeCur \/ DecodeTooLarge \/ EndDecode
  BY <1>3 DEF TakeRunning, DecodeCur, DecodeTooLarge, EndDecode, InDecode, Decode, Quiet, HandsFree
<1>4. CASE Model
  BY <1>4 DEF Model, RunNext, Run, EndRun, PostNext, PostChunk, PostToken, PostFinish, EndStep,
     Quiet, HandsFree
<1> QED BY <1>1, <1>2, <1>3, <1>4 DEF SharedSteps

LEMMA HotOtherPlans ==
  ASSUME HotCallsInv, HotPlanInv, SharedSteps \/ OwnSteps \/ FailTransfer,
         ~ MoveBlock, ~ RestoreBlocks, ~ Copy
  PROVE  plan' = NoPlan
<1> USE DEF vars
<1>1. CASE SharedSteps
  BY <1>1, SharedNoPlan, HotHandsFree
<1>2. CASE HotWatermarks
  BY <1>2 DEF HotWatermarks, CoolTier, CoolGpu, GpuPass, PreemptForGpu, GpuStuck, EndCooling,
     InLoop, HotPlanInv, HotCallsInv
<1>3. CASE HotTargets
  BY <1>3 DEF HotTargets, NextBlock, EndLoop, LookBelow, LookFurther, NotMoved, InLoop, InDemote,
     CommitBlock, CommitMove
<1>4. CASE HotSwapIn
  <2>1. phase = "swapin" => calls = << >> /\ plan = NoPlan
    BY DEF HotPlanInv, HotCallsInv
  <2> QED BY <1>4, <2>1 DEF HotSwapIn, LookAtSwapped, PassOver, CommitRestore, CommitMove, RunAgain, Resume,
     Quiet, EndHotSwapIn, Stuck, NextTooLarge, HotSwapInDone, InRestore
<1>5. CASE TakeBlock \/ ThrowAway \/ FailTransfer
  <2>1. phase = "decode" /\ calls = << >> => plan = NoPlan
    BY DEF HotPlanInv
  <2> QED BY <1>5, <2>1 DEF TakeBlock, InDecode, ThrowAway, Recompute, Quiet, FailTransfer, AbortTransfer
<1> QED BY <1>1, <1>2, <1>3, <1>4, <1>5 DEF OwnSteps

LEMMA HotPlanStep ==
  ASSUME IndInv, HotTypeOK, HotCallsInv, HotTodoInv, HotPlanInv,
         SharedSteps \/ OwnSteps \/ FailTransfer
  PROVE  HotPlanInv'
<1>c. calls \in Seq(HotPending)
  BY DEF HotTypeOK, HotPending
<1>1. CASE MoveBlock
  <2>1. calls # << >> /\ Top \in DemoteCall /\ Top.op = "demote" /\ Top.to # << >>
    BY <1>c, <1>1, HotTop DEF MoveBlock, InDemote
  <2>2. PICK dst \in [{Top.index} -> FreeIn(Head(Top.to))] :
          PrepareMove(Top.seq, Head(Top.to), {Top.index}, dst)
    BY <1>1 DEF MoveBlock
  <2>3. /\ plan'.op = "move" /\ plan'.seq = Top.seq /\ plan'.to = Head(Top.to)
        /\ plan'.dst = dst
    BY <2>2 DEF PrepareMove, StartPlan
  <2>4. DOMAIN plan'.dst = {Top.index}
    BY <2>2, <2>3
  <2>5. Head(Top.to) # GPU
    <3>1. FrameOk(calls, 1) /\ calls[1] = Top
      BY <1>c, <2>1 DEF HotCallsInv, Top
    <3>2. GPU \notin ToSet(Top.to)
      BY <2>1, <3>1 DEF FrameOk
    <3>3. Head(Top.to) \in ToSet(Top.to)
      BY <2>1, HeadTailSet DEF DemoteCall
    <3> QED BY <3>2, <3>3
  <2>6. calls' = calls
    BY <1>1 DEF MoveBlock, schedVars, control
  <2>7. Top' = Top
    BY <2>6 DEF Top
  <2> QED BY <2>1, <2>3, <2>4, <2>5, <2>6, <2>7 DEF HotPlanInv
<1>2. CASE RestoreBlocks
  <2>1. calls = << >> /\ phase = "restore" /\ UNCHANGED <<calls, phase, todo>>
    BY <1>2 DEF RestoreBlocks, InRestore, schedVars, control
  <2>2. PICK dst \in [Missing(Head(todo)) -> FreeIn(GPU)] :
          PrepareMove(Head(todo), GPU, Missing(Head(todo)), dst)
    BY <1>2 DEF RestoreBlocks
  <2>3. /\ plan'.op = "move" /\ plan'.seq = Head(todo) /\ plan'.to = GPU /\ plan'.dst = dst
        /\ tiers' = tiers
    BY <2>2 DEF PrepareMove, StartPlan, placeVars
  <2>4. DOMAIN plan'.dst = Missing(Head(todo))
    BY <2>2, <2>3
  <2>5. Missing(plan.seq)' = Missing(Head(todo))
    BY <2>3 DEF Missing
  <2> QED BY <2>1, <2>3, <2>4, <2>5 DEF HotPlanInv
<1>3. CASE Copy
  <2>1. /\ plan # NoPlan /\ UNCHANGED <<calls, phase, todo, tiers>>
        /\ plan' = [plan EXCEPT !.copied = TRUE]
    BY <1>3 DEF Copy, CopyBlocks, schedVars, control, placeVars
  <2>2. /\ plan'.op = plan.op /\ plan'.seq = plan.seq /\ plan'.to = plan.to
        /\ plan'.dst = plan.dst
    BY <2>1
  <2>3. Top' = Top /\ Missing(plan.seq)' = Missing(plan.seq)
    BY <2>1, <2>2 DEF Top, Missing
  <2> QED BY <2>1, <2>2, <2>3 DEF HotPlanInv
<1> QED BY <1>1, <1>2, <1>3, HotOtherPlans, HotNoPlan

-----------------------------------------------------------------------------
(***************************************************************************)
(* The queues.                                                             *)
(***************************************************************************)
LEMMA HomeTaken ==
  ASSUME IndInv, HotTypeOK, HotCallsInv, HotPlanInv, HomeInv, PreemptForGpu \/ TakeBlock
  PROVE  HomeInv'
<1> USE DEF vars, seqVars, queues
<1>t. QueueTypes
  BY DEF HotTypeOK
<1>1. CASE PreemptForGpu
  <2>1. phase = "gpu" /\ Len(calls) = 1 /\ Top.op = "gpu" /\ calls # << >>
    BY <1>1, OuterLoop DEF PreemptForGpu, InLoop, Outer
  <2>2. victim = NoSeq
    BY <2>1 DEF HotCallsInv, Top
  <2>3. PICK s \in Seqs : s = victim' /\ running' \in Without(running, s)
    BY <1>t, <1>1, SetOfSeq DEF PreemptForGpu, RunningWithout, Oldest, QueueTypes
  <2>4. phase' = phase /\ UNCHANGED <<status, waiting, swapped, cur, batch>>
    BY <1>1 DEF PreemptForGpu
  <2> QED BY <1>t, <2>1, <2>2, <2>3, <2>4, HomeVictim
<1>2. CASE TakeBlock
  <2>1. /\ phase = "decode" /\ victim = NoSeq /\ phase' = phase
        /\ UNCHANGED <<status, waiting, swapped, cur, batch>>
    BY <1>2 DEF TakeBlock, InDecode, HotCallsInv
  <2>2. CASE running # << >>
    <3>1. PICK s \in Seqs : s = victim' /\ running' \in Without(running, s)
      BY <1>t, <1>2, <2>2, SetOfSeq DEF TakeBlock, RunningWithout, Oldest, QueueTypes
    <3> QED BY <1>t, <2>1, <3>1, HomeVictim
  <2>3. CASE running = << >>
    <3>1. victim' = cur /\ running' = running
      BY <1>2, <2>3 DEF TakeBlock
    <3>2. Handled' = Handled
      BY <2>1, <3>1 DEF Handled
    <3>3. TakenOut' = TakenOut /\ \A x : WithStatus(x)' = WithStatus(x)
      BY <2>1 DEF TakenOut, WithStatus
    <3> QED BY <2>1, <3>1, <3>2, <3>3 DEF HomeInv
  <2> QED BY <2>2, <2>3
<1> QED BY <1>1, <1>2

(* _demote_block returned True: a block of a request that is swapped       *)
(* already, or of the victim, which joins the swapped queue.               *)
LEMMA BlockOwner ==
  ASSUME IndInv, HotTypeOK, HotCallsInv, HotPlanInv, HomeInv, CommitBlock
  PROVE  /\ phase # "raised" /\ phase' = phase /\ plan # NoPlan /\ plan.to # GPU /\ CommitMove
         /\ DOMAIN plan.dst = {Top.index}
         /\ \/ /\ calls[2].op = "preempt" /\ plan.seq = victim /\ victim \in Seqs /\ victim # NoSeq
               /\ phase \in {"gpu", "decode"} /\ status[victim] = "running"
               /\ status' = [status EXCEPT ![victim] = "swapped"]
               /\ swapped' = Append(swapped, victim) /\ victim' = NoSeq
               /\ cur' = IF cur = victim THEN NoSeq ELSE cur
            \/ /\ plan.seq \in ToSet(swapped) /\ plan.seq \in Seqs
               /\ status[plan.seq] = "swapped" /\ status' = status
               /\ UNCHANGED <<swapped, victim, cur>>
<1>t. QueueTypes /\ TypeOK
  BY DEF HotTypeOK, IndInv
<1>1. calls # << >> /\ CommitMove /\ phase' = phase
  BY DEF CommitBlock
<1>2. plan # NoPlan /\ plan.seq \in Seqs /\ status' = StatusAfterMove
  BY <1>1, MoveKeepsSize
<1>3. /\ calls[2].op # "demote" /\ Len(calls) > 1 /\ Len(calls) \in Nat /\ plan.to # GPU
      /\ plan.seq \in Owners(calls[2].op)
  BY <1>1, <1>2, BlockCall
<1>4. FrameOk(calls, 2)
  <2>1. calls \in Seq(HotPending)
    BY DEF HotTypeOK, HotPending
  <2>2. 2 \in DOMAIN calls
    BY <1>3, <2>1
  <2> QED BY <2>2 DEF HotCallsInv
<1>5. phase # "raised" /\ DOMAIN plan.dst = {Top.index}
  BY <1>1, <1>2 DEF HotCallsInv, HotPlanInv
<1>6. status' = [status EXCEPT ![plan.seq] = "swapped"]
  BY <1>2, <1>3 DEF StatusAfterMove
<1>7. CASE calls[2].op = "preempt"
  <2>1. plan.seq = victim /\ victim # NoSeq /\ victim \in Seqs
    BY <1>2, <1>3, <1>7, ConstantsAssumption DEF Owners
  <2>2. phase \in {"gpu", "decode"}
    BY <1>4, <1>7 DEF FrameOk, Outer
  <2>3. status[victim] = "running"
    <3>1. victim \in Handled
      BY <2>1 DEF Handled
    <3> QED BY <1>5, <2>1, <3>1 DEF HomeInv, WithStatus
  <2>4. /\ swapped' = Append(swapped, victim) /\ victim' = NoSeq
        /\ cur' = IF cur = victim THEN NoSeq ELSE cur
    BY <1>7, <2>1 DEF CommitBlock
  <2> QED BY <1>1, <1>2, <1>3, <1>5, <1>6, <1>7, <2>1, <2>2, <2>3, <2>4
<1>8. CASE calls[2].op # "preempt"
  <2>1. plan.seq \in ToSet(swapped)
    BY <1>3, <1>8 DEF Owners
  <2>2. status[plan.seq] = "swapped"
    BY <1>5, <2>1 DEF HomeInv, WithStatus
  <2>3. status' = status
    BY <1>t, <1>2, <1>6, <2>2, SameStatus
  <2>4. UNCHANGED <<swapped, victim, cur>>
    BY <1>8 DEF CommitBlock
  <2> QED BY <1>1, <1>2, <1>3, <1>5, <2>1, <2>2, <2>3, <2>4
<1> QED BY <1>7, <1>8

LEMMA RestoredOwner ==
  ASSUME IndInv, HotTodoInv, HotPlanInv, CommitRestore
  PROVE  /\ calls = << >> /\ phase = "restore" /\ plan # NoPlan /\ CommitMove
         /\ plan.seq = Head(todo) /\ plan.seq \in Seqs /\ plan.to = GPU
         /\ DOMAIN plan.dst = Missing(plan.seq) /\ todo # << >>
         /\ plan.seq \in Seqs /\ status' = status
<1>1. calls = << >> /\ CommitMove
  BY DEF CommitRestore
<1>2. plan # NoPlan /\ plan.seq \in Seqs /\ status' = StatusAfterMove /\ TypeOK
  BY <1>1, MoveKeepsSize DEF IndInv
<1>3. /\ phase = "restore" /\ plan.seq = Head(todo) /\ plan.to = GPU
      /\ DOMAIN plan.dst = Missing(plan.seq) /\ todo # << >>
  BY <1>1, <1>2 DEF HotPlanInv, HotTodoInv
<1>4. status' = status
  BY <1>2, <1>3, SameStatus DEF StatusAfterMove
<1> QED BY <1>1, <1>2, <1>3, <1>4

LEMMA RunAgainFacts ==
  ASSUME HotTypeOK, HotTodoInv, RunAgain
  PROVE  LET s == Head(todo)
         IN /\ s \in Seqs /\ s \in ToSet(swapped) /\ status[s] = "swapped" /\ AllOn(s, GPU)
            /\ phase = "restore" /\ phase' = "swapin" /\ calls = << >> /\ plan = NoPlan
            /\ calls' = calls /\ todo # << >> /\ todo' = Tail(todo)
            /\ UNCHANGED <<waiting, cur, victim, tokens>>
            /\ status' = [status EXCEPT ![s] = "running"]
            /\ numSched' = [numSched EXCEPT ![s] = 1]
            /\ swapped' \in Without(swapped, s)
            /\ running' = Append(running, s) /\ batch' = Append(batch, s)
            /\ \E b \in Block : Resume(s, b)
<1>1. phase = "restore" /\ phase' = "swapin" /\ calls = << >> /\ plan = NoPlan
  BY DEF RunAgain, InRestore
<1>2. todo # << >> /\ todo \in Seq(Seqs) /\ ToSet(todo) \subseteq ToSet(swapped)
  BY <1>1 DEF HotTodoInv, HotTypeOK, QueueTypes
<1>3. Head(todo) \in Seqs /\ Head(todo) \in ToSet(swapped)
  BY <1>2, HeadTailSet
<1> QED BY <1>1, <1>2, <1>3 DEF RunAgain, Resume

LEMMA HotHome ==
  ASSUME IndInv, HotTypeOK, HotCallsInv, HotTodoInv, HotPlanInv, HomeInv, HotBatchInv,
         SharedSteps \/ OwnSteps \/ FailTransfer
  PROVE  HomeInv'
<1> USE DEF vars, seqVars, queues
<1>t. QueueTypes /\ TypeOK
  BY DEF HotTypeOK, IndInv
<1>0. phase # "raised"
  BY HotNeverRaised
<1>1. CASE SharedSteps
  BY <1>t, <1>0, <1>1, HotHandsFree, SharedHome DEF HotBatchInv
<1>2. CASE PreemptForGpu \/ TakeBlock
  BY <1>2, HomeTaken
<1>3. CASE GpuStuck
  <2>1. phase = "gpu" /\ phase' = "cooled" /\ UNCHANGED <<status, waiting, swapped, cur>>
    BY <1>3 DEF GpuStuck
  <2>2. CASE UNCHANGED <<running, victim>>
    <3>1. (phase = "decode" => batch = << >>) /\ (phase' = "decode" => batch' = << >>)
      BY <2>1
    <3> QED BY <1>0, <2>1, <2>2, <3>1, HomeFrame
  <2>3. CASE Top.op = "preempt" /\ running' = <<victim>> \o running /\ victim' = NoSeq
    <3>1. victim # NoSeq /\ victim \in Seqs
      BY <1>t, <1>3, <2>3, OuterLoop DEF GpuStuck, InLoop, Outer, QueueTypes
    <3>2. cur = NoSeq
      BY <2>1 DEF HotCallsInv
    <3> QED BY <1>t, <2>1, <2>3, <3>1, <3>2, HomePutBack
  <2> QED BY <1>3, <2>2, <2>3 DEF GpuStuck
<1>4. CASE ThrowAway
  <2>1. victim # NoSeq /\ victim \in Seqs
    BY <1>t, <1>4, OuterLoop DEF ThrowAway, InLoop, Outer, QueueTypes
  <2>2. /\ status[victim] = "running" /\ status' = [status EXCEPT ![victim] = "waiting"]
        /\ phase = "decode" /\ phase' = phase /\ UNCHANGED <<running, swapped, batch>>
        /\ victim' = NoSeq /\ waiting' = <<victim>> \o waiting
        /\ cur' = (IF cur = victim THEN NoSeq ELSE cur)
    BY <1>4 DEF ThrowAway, Recompute
  <2> QED BY <1>t, <2>1, <2>2, HomeThrown
<1>5. CASE CommitBlock
  <2>1. UNCHANGED <<waiting, running, phase, batch>>
    BY <1>5 DEF CommitBlock
  <2>2. CASE calls[2].op = "preempt" /\ victim \in Seqs /\ victim # NoSeq
             /\ status' = [status EXCEPT ![victim] = "swapped"]
             /\ swapped' = Append(swapped, victim) /\ victim' = NoSeq
             /\ cur' = IF cur = victim THEN NoSeq ELSE cur
    BY <1>t, <1>0, <2>1, <2>2, HomeSwapped
  <2>3. CASE status' = status /\ UNCHANGED <<swapped, victim, cur>>
    BY <1>0, <2>1, <2>3, HomeFrame
  <2> QED BY <1>5, <2>2, <2>3, BlockOwner
<1>6. CASE CommitRestore
  BY <1>0, <1>6, RestoredOwner, HomeFrame DEF CommitRestore, control
<1>7. CASE RunAgain
  <2>1. HandsFree /\ HomeInv /\ phase \in {"swapin", "restore"}
    BY <1>7, HotHandsFree DEF RunAgain, InRestore
  <2> QED BY <1>t, <1>7, <2>1, RunAgainFacts, HomeResumed
<1>8. CASE FailTransfer \/ Stuck
  BY <1>8, HomeRaised DEF FailTransfer, Stuck, Raise
<1>9. CASE CoolTier \/ NextBlock \/ EndLoop \/ LookBelow \/ LookFurther \/ MoveBlock \/ NotMoved
             \/ Copy \/ RestoreBlocks
  BY <1>0, <1>9, HomeFrame DEF CoolTier, NextBlock, EndLoop, LookBelow, LookFurther, MoveBlock,
     PrepareMove, NotMoved, Copy, CopyBlocks, RestoreBlocks, schedVars, control
<1>10. CASE CoolGpu \/ GpuPass \/ EndCooling \/ LookAtSwapped \/ PassOver \/ EndHotSwapIn
  <2>1. UNCHANGED <<status, waiting, running, swapped, cur, victim>>
    BY <1>10 DEF CoolGpu, GpuPass, EndCooling, LookAtSwapped, PassOver, EndHotSwapIn
  <2>2. phase # "decode" /\ phase' # "decode"
    BY <1>10 DEF CoolGpu, GpuPass, EndCooling, LookAtSwapped, PassOver, EndHotSwapIn, HotSwapInDone,
       InRestore
  <2> QED BY <1>0, <2>1, <2>2, HomeFrame
<1> QED BY <1>1, <1>2, <1>3, <1>4, <1>5, <1>6, <1>7, <1>8, <1>9, <1>10
        DEF OwnSteps, HotWatermarks, HotTargets, HotSwapIn

(* The batch of a step that schedules nothing.                             *)
LEMMA HotBatchSame ==
  ASSUME HotBatchInv, phase \in {"demote", "gpu", "restore", "decode"},
         UNCHANGED <<phase, batch, numSched>>, phase = "restore" => running' = running
  PROVE  HotBatchInv'
<1>1. BatchInv'
  BY BatchSame DEF HotBatchInv
<1> QED BY <1>1 DEF HotBatchInv

LEMMA HotBatchStep ==
  ASSUME IndInv, HotTypeOK, HotCallsInv, HotTodoInv, HotPlanInv, HomeInv, HotBatchInv,
         SharedSteps \/ OwnSteps \/ FailTransfer
  PROVE  HotBatchInv'
<1> USE DEF vars, seqVars, queues
<1>t. QueueTypes /\ TypeOK /\ BatchInv
  BY DEF HotTypeOK, IndInv, HotBatchInv
<1>0. phase # "raised"
  BY HotNeverRaised
<1>1. CASE SharedSteps
  <2>1. phase' \notin {"cooled", "restore"}
    BY <1>1, SharedControl DEF SharedPhases
  <2>2. BatchInv'
    BY <1>t, <1>0, <1>1, SharedBatch
  <2> QED BY <2>1, <2>2 DEF HotBatchInv
<1>2. CASE FailTransfer \/ Stuck
  <2>1. phase' = "raised"
    BY <1>2 DEF FailTransfer, Stuck, Raise
  <2> QED BY <2>1, BatchRaised DEF HotBatchInv
<1>3. CASE NextBlock \/ EndLoop \/ LookBelow \/ LookFurther \/ MoveBlock \/ NotMoved \/ Copy
             \/ RestoreBlocks
  <2>1. phase \in {"demote", "gpu", "restore", "decode"}
    BY <1>3 DEF NextBlock, EndLoop, LookBelow, LookFurther, MoveBlock, NotMoved, InLoop, InDemote,
       Copy, CopyBlocks, RestoreBlocks, InRestore, HotCallsInv, HotPlanInv
  <2>2. UNCHANGED <<phase, batch, numSched, running>>
    BY <1>3 DEF NextBlock, EndLoop, LookBelow, LookFurther, MoveBlock, NotMoved, Copy, CopyBlocks,
       RestoreBlocks, PrepareMove, schedVars, control
  <2> QED BY <2>1, <2>2, HotBatchSame
<1>4. CASE CommitBlock \/ CommitRestore
  <2>1. UNCHANGED <<phase, batch, numSched, running>>
    BY <1>4, MoveKeepsSize DEF CommitBlock, CommitRestore, control
  <2>2. phase \in {"demote", "gpu", "restore", "decode"}
    BY <1>4, RestoredOwner DEF CommitBlock, HotCallsInv
  <2> QED BY <2>1, <2>2, HotBatchSame
<1>5. CASE PreemptForGpu \/ TakeBlock \/ ThrowAway \/ CoolTier
  <2>1. phase \in {"demote", "gpu", "decode"}
    BY <1>5, OuterLoop DEF PreemptForGpu, InLoop, Outer, TakeBlock, InDecode, ThrowAway, CoolTier
  <2>2. UNCHANGED <<phase, batch, numSched>>
    BY <1>5 DEF PreemptForGpu, TakeBlock, ThrowAway, Recompute, CoolTier
  <2> QED BY <2>1, <2>2, HotBatchSame
<1>6. CASE CoolGpu \/ GpuPass \/ GpuStuck \/ EndCooling
  <2>1. phase \in {"demote", "gpu", "cooled"} /\ batch = << >> /\ UNCHANGED <<batch, numSched>>
    <3>1. phase \in {"demote", "gpu", "cooled"} /\ UNCHANGED <<batch, numSched>>
      BY <1>6 DEF CoolGpu, GpuPass, GpuStuck, EndCooling
    <3> QED BY <3>1 DEF HotBatchInv, BatchInv
  <2>2. phase' \in {"gpu", "cooled", "swapin", "prefill"}
    BY <1>6 DEF CoolGpu, GpuPass, GpuStuck, EndCooling
  <2>3. BatchInv'
    BY <1>t, <2>1, <2>2, BatchEmpty
  <2> QED BY <2>1, <2>2, <2>3 DEF HotBatchInv
<1>7. CASE LookAtSwapped \/ PassOver
  <2>1. /\ phase \in {"swapin", "restore"} /\ phase' \in {"swapin", "restore"}
        /\ UNCHANGED <<batch, numSched, status, running>>
    BY <1>7 DEF LookAtSwapped, PassOver, InRestore
  <2>2. ToSet(batch) \subseteq ToSet(running)
    BY <2>1 DEF HotBatchInv, BatchInv
  <2>3. BatchInv'
    BY <1>t, <2>1, <2>2 DEF BatchInv, WithTokens
  <2> QED BY <2>1, <2>2, <2>3 DEF HotBatchInv
<1>8. CASE RunAgain
  <2>1. PICK s \in Seqs : /\ status[s] = "swapped" /\ numSched' = [numSched EXCEPT ![s] = 1]
                          /\ running' = Append(running, s) /\ batch' = Append(batch, s)
                          /\ phase = "restore" /\ phase' = "swapin"
    BY <1>8, RunAgainFacts
  <2>2. ToSet(batch) \subseteq ToSet(running)
    BY <2>1 DEF HotBatchInv
  <2>3. BatchInv'
    BY <1>t, <2>1, <2>2, BatchResumed
  <2> QED BY <2>1, <2>3 DEF HotBatchInv
<1>9. CASE EndHotSwapIn
  <2>1. phase \in {"swapin", "restore"} /\ UNCHANGED <<batch, numSched, status>>
    BY <1>9 DEF EndHotSwapIn, HotSwapInDone, InRestore
  <2>2. CASE phase' = "run"
    <3>1. BatchInv'
      BY <1>t, <2>1, <2>2, BatchRuns
    <3> QED BY <2>2, <3>1 DEF HotBatchInv
  <2>3. CASE batch = << >> /\ phase' = "prefill"
    <3>1. BatchInv'
      BY <1>t, <2>1, <2>3, BatchEmpty
    <3> QED BY <2>3, <3>1 DEF HotBatchInv
  <2> QED BY <1>9, <2>2, <2>3 DEF EndHotSwapIn
<1> QED BY <1>1, <1>2, <1>3, <1>4, <1>5, <1>6, <1>7, <1>8, <1>9
        DEF OwnSteps, HotWatermarks, HotTargets, HotSwapIn

LEMMA HotActive ==
  ASSUME IndInv, HotTypeOK, HotCallsInv, HotTodoInv, HotPlanInv, HomeInv, HotBatchInv,
         ActiveBounded, SharedSteps \/ OwnSteps \/ FailTransfer
  PROVE  ActiveBounded'
<1> USE DEF vars, queues
<1>t. QueueTypes /\ TypeOK /\ BatchInv
  BY DEF HotTypeOK, IndInv, HotBatchInv
<1>0. phase # "raised"
  BY HotNeverRaised
<1>1. CASE SharedSteps
  BY <1>t, <1>0, <1>1, HotHandsFree, SharedActive
<1>2. CASE FailTransfer \/ Stuck
  BY <1>2, ActiveRaised DEF FailTransfer, Stuck, Raise
<1>3. CASE NextBlock \/ EndLoop \/ LookBelow \/ LookFurther \/ MoveBlock \/ NotMoved \/ Copy
             \/ RestoreBlocks \/ CommitRestore \/ CoolTier \/ CoolGpu \/ GpuPass \/ EndCooling
             \/ LookAtSwapped \/ PassOver \/ EndHotSwapIn
  <2>1. UNCHANGED <<running, batch, cur, victim>>
    BY <1>3 DEF NextBlock, EndLoop, LookBelow, LookFurther, MoveBlock, NotMoved, Copy, RestoreBlocks,
       CommitRestore, CoolTier, CoolGpu, GpuPass, EndCooling, LookAtSwapped, PassOver, EndHotSwapIn,
       schedVars, control
  <2> QED BY <1>t, <1>0, <2>1, ActiveSame
<1>4. CASE PreemptForGpu
  <2>1. running' \in Without(running, victim') /\ UNCHANGED <<batch, cur>>
    BY <1>4 DEF PreemptForGpu, RunningWithout
  <2> QED BY <1>t, <1>0, <2>1, ActiveVictim, NoMoreActive
<1>5. CASE TakeBlock
  <2>1. UNCHANGED <<batch, cur>> /\ cur # NoSeq
    BY <1>5 DEF TakeBlock
  <2>2. CASE running # << >>
    BY <1>t, <1>0, <1>5, <2>1, <2>2, ActiveVictim, NoMoreActive DEF TakeBlock, RunningWithout
  <2>3. CASE running = << >>
    <3>1. victim' = cur /\ running' = running
      BY <1>5, <2>3 DEF TakeBlock
    <3>2. InExecution' \subseteq InExecution
      BY <2>1, <3>1 DEF InExecution, Handled
    <3> QED BY <1>t, <1>0, <3>2, NoMoreActive
  <2> QED BY <2>2, <2>3
<1>6. CASE GpuStuck
  <2>1. UNCHANGED <<cur, batch>>
    BY <1>6 DEF GpuStuck
  <2>2. CASE UNCHANGED <<running, victim>>
    BY <1>t, <1>0, <2>1, <2>2, ActiveSame
  <2>3. CASE Top.op = "preempt" /\ running' = <<victim>> \o running /\ victim' = NoSeq
    <3>1. victim # NoSeq /\ victim \in Seqs
      BY <1>t, <1>6, <2>3, OuterLoop DEF GpuStuck, InLoop, Outer, QueueTypes
    <3> QED BY <1>t, <1>0, <2>1, <2>3, <3>1, ActivePutBack, NoMoreActive
  <2> QED BY <1>6, <2>2, <2>3 DEF GpuStuck
<1>7. CASE ThrowAway
  BY <1>t, <1>0, <1>7, ActiveDropped, NoMoreActive DEF ThrowAway
<1>8. CASE CommitBlock
  <2>1. running' = running /\ batch' = batch
    BY <1>8 DEF CommitBlock
  <2>2. \/ victim' = NoSeq /\ cur' \in {cur, NoSeq}
        \/ UNCHANGED <<victim, cur>>
    BY <1>8, BlockOwner
  <2>3. CASE victim' = NoSeq /\ cur' \in {cur, NoSeq}
    BY <1>t, <1>0, <2>1, <2>3, ActiveDropped, NoMoreActive
  <2>4. CASE UNCHANGED <<victim, cur>>
    BY <1>t, <1>0, <2>1, <2>4, ActiveSame
  <2> QED BY <2>2, <2>3, <2>4
<1>9. CASE RunAgain
  <2>1. PICK s \in Seqs : /\ running' = Append(running, s) /\ batch' = Append(batch, s)
                          /\ phase = "restore" /\ calls = << >> /\ UNCHANGED <<cur, victim>>
    BY <1>9, RunAgainFacts
  <2>2. ToSet(batch) \subseteq ToSet(running) /\ Len(running) < MaxSeqs
    BY <2>1 DEF HotBatchInv, HotTodoInv
  <2> QED BY <1>t, <2>1, <2>2, HotHandsFree, ActiveResumed
<1> QED BY <1>1, <1>2, <1>3, <1>4, <1>5, <1>6, <1>7, <1>8, <1>9
        DEF OwnSteps, HotWatermarks, HotTargets, HotSwapIn

(* Stuck raises with the queues as they are, and nothing is held then.     *)
LEMMA HotLost ==
  ASSUME IndInv, HotTypeOK, HotCallsInv, HotTodoInv, HotPlanInv, HomeInv, HotBatchInv,
         SharedSteps \/ OwnSteps \/ FailTransfer
  PROVE  LostOnlyScheduled'
<1> USE DEF vars, queues
<1>t. QueueTypes /\ TypeOK /\ BatchInv
  BY DEF HotTypeOK, IndInv, HotBatchInv
<1>0. phase # "raised"
  BY HotNeverRaised
<1>1. CASE SharedSteps
  BY <1>t, <1>0, <1>1, HotHandsFree, SharedLost
<1>2. CASE FailTransfer
  BY <1>t, <1>0, <1>2, HotHandsFree, LostByException
<1>3. CASE Stuck
  <2>1. phase \in {"swapin", "restore"} /\ calls = << >> /\ running' = running
        /\ UNCHANGED <<waiting, swapped, status, numSched, tokens, table>>
    BY <1>3 DEF Stuck, NextTooLarge, HotSwapInDone, InRestore, HotCallsInv, Raise, seqVars, placeVars
  <2>2. Handled = {} /\ TakenOut = << >>
    BY <2>1 DEF Handled, TakenOut, HotCallsInv
  <2>3. /\ running \in Seq(Seqs) /\ Injective(running)
        /\ ToSet(running) = WithStatus("running")
    <3>1. ToSet(TakenOut) = {}
      BY <2>2 DEF ToSet
    <3>2. running \in Seq(Seqs)
      BY <1>t DEF QueueTypes
    <3> QED BY <1>0, <2>2, <3>1, <3>2 DEF HomeInv
  <2> QED BY <1>t, <1>0, <2>1, <2>3, LostFrom
<1>4. CASE OwnSteps /\ ~ Stuck
  <2>1. phase' # "raised"
    BY <1>0, <1>4 DEF OwnSteps, HotWatermarks, CoolTier, CoolGpu, GpuPass, PreemptForGpu, GpuStuck,
       EndCooling, HotTargets, NextBlock, EndLoop, LookBelow, LookFurther, MoveBlock, NotMoved, Copy,
       CommitBlock, HotSwapIn, LookAtSwapped, PassOver, RestoreBlocks, CommitRestore, RunAgain,
       EndHotSwapIn, TakeBlock, ThrowAway, schedVars, control
  <2> QED BY <2>1 DEF LostOnlyScheduled
<1> QED BY <1>1, <1>2, <1>3, <1>4

(* Only a hit in the prefix index adds a reference to a block in use.      *)
LEMMA UnsharedStep ==
  ASSUME ~ EnablePrefixCache, TypeOK, Unshared, [Next]_vars
  PROVE  Unshared'
<1> USE DEF vars, poolVars
<1>t. refCount \in [Block -> Nat] /\ \A b \in Block : refCount[b] \in Nat /\ refCount[b] <= 1
  BY DEF TypeOK, Unshared
<1>1. ASSUME refCount' = refCount PROVE Unshared'
  BY <1>1 DEF Unshared
<1>2. ASSUME NEW S, refCount' = RefAfterDrop(S) PROVE Unshared'
  BY <1>t, <1>2 DEF Unshared, RefAfterDrop
<1>3. ASSUME NEW S, NEW k \in {0, 1}, refCount' = [b \in Block |-> IF b \in S THEN k ELSE refCount[b]]
      PROVE  Unshared'
  BY <1>t, <1>3 DEF Unshared
<1>4. ASSUME NEW s \in Seqs, NEW b \in Block, MayAppend(s, b) PROVE Unshared'
  <2>1. CASE NeedsBlock(s)
    <3>1. refCount' = [refCount EXCEPT ![b] = 1]
      BY <1>4, <2>1 DEF MayAppend
    <3>2. \A a \in Block : refCount'[a] = IF a = b THEN 1 ELSE refCount[a]
      BY <1>t, <3>1
    <3> QED BY <1>t, <3>2 DEF Unshared
  <2>2. CASE ~ NeedsBlock(s)
    BY <1>1, <1>4, <2>2 DEF MayAppend
  <2> QED BY <2>1, <2>2
<1>5. CASE UNCHANGED vars
  BY <1>1, <1>5
<1>6. ASSUME NEW s \in Seqs, Add(s) \/ Run(s) PROVE Unshared'
  BY <1>1, <1>6 DEF Add, Run
<1>7. ASSUME NEW s \in Seqs, NEW c, PrefillMore(s, c) PROVE Unshared'
  BY <1>1, <1>7 DEF PrefillMore
<1>8. ASSUME NEW s \in Seqs, NEW n, NEW fresh, NEW c, PrefillNew(s, n, fresh, c) PROVE Unshared'
  <2>1. CanAllocate(s, n)
    BY <1>8 DEF PrefillNew
  <2>2. {CachedBlock(s, i) : i \in 1 .. n} = {}
    BY <2>1 DEF CanAllocate
  <2>3. refCount' = [b \in Block |-> IF b \in ImageOf(fresh) THEN 1 ELSE refCount[b]]
    BY <1>8, <2>2 DEF PrefillNew
  <2> QED BY <1>3, <2>3
<1>9. ASSUME NEW s \in Seqs, Post(s) PROVE Unshared'
  BY <1>1, <1>2, <1>9 DEF Post, PostChunk, PostToken, PostFinish, Deallocate
<1>10. ASSUME NEW s \in Seqs, Recompute(s) PROVE Unshared'
  BY <1>2, <1>10 DEF Recompute, Deallocate
<1>11. ASSUME NEW s \in Seqs, Prepare(s) PROVE Unshared'
  <2>1. PICK dst, t : PopTargets(s, dst, t)
    BY <1>11 DEF Prepare, PrepareSwap, PrepareMove
  <2>2. refCount' = [b \in Block |-> IF b \in ImageOf(dst) THEN 1 ELSE refCount[b]]
    BY <2>1 DEF PopTargets
  <2> QED BY <1>3, <2>2
<1>12. ASSUME NEW s \in Seqs, NEW b \in Block, Decode(s, b) \/ Resume(s, b) PROVE Unshared'
  BY <1>4, <1>12 DEF Decode, Resume
<1>13. CASE CopyBlocks \/ ClearPrefixCache
  BY <1>1, <1>13 DEF CopyBlocks, ClearPrefixCache
<1>14. CASE CommitSwap \/ CommitMove
  BY <1>2, <1>14 DEF CommitSwap, CommitMove
<1>15. ASSUME NEW W, AbortTransfer(W) PROVE Unshared'
  <2>1. refCount' = [b \in Block |-> IF b \in ImageOf(plan.dst) THEN 0 ELSE refCount[b]]
    BY <1>15 DEF AbortTransfer
  <2> QED BY <1>3, <2>1
<1>16. CASE Next
  <2>1. CASE Transfer
    BY <1>13, <1>14, <1>15, <2>1 DEF Transfer
  <2>2. ASSUME NEW s \in Seqs, Prefill(s) PROVE Unshared'
    BY <1>7, <1>8, <2>2 DEF Prefill
  <2> QED BY <1>6, <1>9, <1>10, <1>11, <1>12, <1>13, <1>16, <2>1, <2>2 DEF Next
<1> QED BY <1>5, <1>16

-----------------------------------------------------------------------------
(***************************************************************************)
(* What is swapped can come back, and has something to wait for.           *)
(***************************************************************************)
Incomplete == \A s \in ToSet(swapped) : Missing(s) # {}

LEMMA SameFit ==
  ASSUME NEW s, tokens'[s] = tokens[s], Len(table'[s]) = Len(table[s]), ~ TooLarge(s)
  PROVE  ~ TooLarge(s)'
BY DEF TooLarge, TooManyBlocks, Size, Extra, NeedsBlock, Capacity

LEMMA HotPlaceKept ==
  ASSUME HotPlaceInv, phase # "raised", Incomplete, Remembered, ToSet(swapped)' \subseteq ToSet(swapped),
         \A s \in ToSet(swapped)' : /\ tokens'[s] = tokens[s] /\ table'[s] = table[s]
                                    /\ tiers'[s] = tiers[s]
  PROVE  HotPlaceInv'
<1>1. ASSUME NEW s \in ToSet(swapped)' PROVE (shared' \/ ~ TooLarge(s)') /\ Missing(s)' # {}
  <2>1. s \in ToSet(swapped)
    OBVIOUS
  <2>2. (shared' \/ ~ TooLarge(s)) /\ Missing(s) # {}
    BY <2>1 DEF HotPlaceInv, Incomplete, Remembered
  <2>3. tokens'[s] = tokens[s] /\ Len(table'[s]) = Len(table[s]) /\ tiers'[s] = tiers[s]
    OBVIOUS
  <2>4. Missing(s)' = Missing(s)
    BY <2>3 DEF Missing
  <2> QED BY <2>2, <2>3, <2>4, SameFit
<1> QED BY <1>1 DEF HotPlaceInv

LEMMA HotPlaceSame ==
  ASSUME HotPlaceInv, phase # "raised", Incomplete, Remembered,
         UNCHANGED <<swapped, tokens, table, tiers>>
  PROVE  HotPlaceInv'
BY HotPlaceKept

(* A step of the manager on a request that is being run or starts to run.  *)
LEMMA WorkElsewhere ==
  ASSUME IndInv, NEW r \in Seqs,
         \/ Add(r) \/ Run(r) \/ Recompute(r) \/ PostChunk(r)
         \/ \E t \in Token : PostToken(r, t) \/ PostFinish(r, t)
         \/ \E b \in Block : Decode(r, b)
         \/ \E n, fresh, c : PrefillNew(r, n, fresh, c)
         \/ \E c : PrefillMore(r, c)
  PROVE  \A s \in Seqs : status[s] = "swapped" => /\ tokens'[s] = tokens[s] /\ table'[s] = table[s]
                                                  /\ tiers'[s] = tiers[s]
<1>0. /\ tokens \in [Seqs -> Seq(Token)] /\ table \in [Seqs -> Seq(Block)]
      /\ tiers \in [Seqs -> Seq(Tier)]
  BY DEF IndInv, TypeOK
<1>1. r \in computed => status[r] # "swapped"
  BY DEF IndInv, ScheduleSound, ScheduleOf
<1>2. CASE Add(r) \/ Run(r) \/ PostChunk(r) \/ \E c : PrefillMore(r, c)
  BY <1>2 DEF Add, Run, PostChunk, PrefillMore, placeVars
<1>o. ASSUME status[r] # "swapped",
             NEW k, tokens' = [tokens EXCEPT ![r] = k] \/ tokens' = tokens,
             NEW b, table' = [table EXCEPT ![r] = b] \/ table' = table,
             NEW p, tiers' = [tiers EXCEPT ![r] = p] \/ tiers' = tiers
      PROVE  \A s \in Seqs : status[s] = "swapped" =>
                 /\ tokens'[s] = tokens[s] /\ table'[s] = table[s] /\ tiers'[s] = tiers[s]
  <2> SUFFICES ASSUME NEW s \in Seqs, status[s] = "swapped"
               PROVE  /\ tokens'[s] = tokens[s] /\ table'[s] = table[s] /\ tiers'[s] = tiers[s]
    OBVIOUS
  <2>1. s # r
    BY <1>o
  <2> QED BY <1>0, <1>o, <2>1
<1>4. CASE Recompute(r)
  <2>1. /\ status[r] = "running" /\ tokens' = tokens
        /\ table' = [table EXCEPT ![r] = << >>] /\ tiers' = [tiers EXCEPT ![r] = << >>]
    BY <1>4 DEF Recompute, Deallocate
  <2> QED BY <2>1, <1>o
<1>5. CASE \E t \in Token : PostToken(r, t) \/ PostFinish(r, t)
  <2>1. PICK t \in Token : PostToken(r, t) \/ PostFinish(r, t)
    BY <1>5
  <2>2. /\ status[r] # "swapped" /\ tokens' = [tokens EXCEPT ![r] = Append(@, t)]
        /\ table' = [table EXCEPT ![r] = << >>] \/ table' = table
        /\ tiers' = [tiers EXCEPT ![r] = << >>] \/ tiers' = tiers
    BY <1>1, <2>1 DEF PostToken, PostFinish, Deallocate, placeVars
  <2> QED BY <2>2, <1>o
<1>6. CASE \E b \in Block : Decode(r, b)
  <2>1. PICK b \in Block : Decode(r, b)
    BY <1>6
  <2>2. /\ status[r] = "running" /\ tokens' = tokens
        /\ table' = [table EXCEPT ![r] = Append(@, b)] \/ table' = table
        /\ tiers' = [tiers EXCEPT ![r] = Append(@, GPU)] \/ tiers' = tiers
    BY <2>1 DEF Decode, MayAppend
  <2> QED BY <2>2, <1>o
<1>7. CASE \E n, fresh, c : PrefillNew(r, n, fresh, c)
  <2>1. PICK n, fresh, c : PrefillNew(r, n, fresh, c)
    BY <1>7
  <2> DEFINE new == [i \in 1 .. NumBlocks(r) |-> IF i <= n THEN CachedBlock(r, i) ELSE fresh[i]]
             onGpu == [i \in 1 .. NumBlocks(r) |-> GPU]
  <2>2. /\ status[r] = "waiting" /\ tokens' = tokens
        /\ table' = [table EXCEPT ![r] = new] /\ tiers' = [tiers EXCEPT ![r] = onGpu]
    BY <2>1 DEF PrefillNew
  <2> HIDE DEF new, onGpu
  <2> QED BY <2>2, <1>o
<1> QED BY <1>2, <1>4, <1>5, <1>6, <1>7

LEMMA HotPlaceWork ==
  ASSUME IndInv, HomeInv, HotPlaceInv, phase # "raised", Incomplete, Remembered, swapped' = swapped,
         \A s \in Seqs : status[s] = "swapped" => /\ tokens'[s] = tokens[s] /\ table'[s] = table[s]
                                                  /\ tiers'[s] = tiers[s]
  PROVE  HotPlaceInv'
<1>1. \A s \in ToSet(swapped) : s \in Seqs /\ status[s] = "swapped"
  BY DEF HomeInv, WithStatus
<1>2. \A s \in ToSet(swapped) : /\ tokens'[s] = tokens[s] /\ table'[s] = table[s]
                                /\ tiers'[s] = tiers[s]
  BY <1>1
<1>3. ToSet(swapped)' = ToSet(swapped)
  OBVIOUS
<1> QED BY <1>2, <1>3, HotPlaceKept

LEMMA SharedPlace ==
  ASSUME IndInv, QueueTypes, HomeInv, HotPlaceInv, phase # "raised", Incomplete, Remembered,
         SharedSteps
  PROVE  HotPlaceInv'
<1> USE DEF vars, seqVars, placeVars, queues
<1>1. CASE ResetStats \/ StartStep
  BY <1>1, HotPlaceSame DEF ResetStats, StartStep, ClearPrefixCache
<1>2. CASE \E s \in Seqs : Arrive(s)
  <2>1. PICK s \in Seqs : Arrive(s)
    BY <1>2
  <2>2. Add(s) /\ swapped' = swapped
    BY <2>1 DEF Arrive
  <2> QED BY <2>2, WorkElsewhere, HotPlaceWork
<1>3. CASE PrefillTooLarge \/ DecodeTooLarge
  BY <1>3 DEF PrefillTooLarge, DecodeTooLarge, Raise, HotPlaceInv
<1>4. CASE EndPrefill \/ TakeRunning \/ EndDecode \/ EndRun \/ EndStep
  BY <1>4, HotPlaceSame DEF EndPrefill, TakeRunning, EndDecode, EndRun, EndStep
<1>5. CASE AdmitNew \/ AdmitMore
  <2>1. Head(waiting) \in Seqs /\ swapped' = swapped
    BY <1>5, Chunked
  <2>2. \/ \E n, fresh, c : PrefillNew(Head(waiting), n, fresh, c)
        \/ \E c : PrefillMore(Head(waiting), c)
    BY <1>5 DEF AdmitNew, AdmitMore
  <2> QED BY <2>1, <2>2, WorkElsewhere, HotPlaceWork
<1>6. CASE DecodeCur
  <2>1. cur \in Seqs /\ swapped' = swapped /\ \E b \in Block : Decode(cur, b)
    BY <1>6 DEF DecodeCur, QueueTypes
  <2> QED BY <2>1, WorkElsewhere, HotPlaceWork
<1>7. CASE RunNext \/ PostNext
  <2>1. Head(todo) \in Seqs /\ swapped' = swapped
    BY <1>7, HeadTailSet DEF RunNext, PostNext, QueueTypes
  <2>2. \/ Run(Head(todo)) \/ PostChunk(Head(todo))
        \/ \E t \in Token : PostToken(Head(todo), t) \/ PostFinish(Head(todo), t)
    BY <1>7 DEF RunNext, PostNext
  <2> QED BY <2>1, <2>2, WorkElsewhere, HotPlaceWork
<1> QED BY <1>1, <1>2, <1>3, <1>4, <1>5, <1>6, <1>7 DEF SharedSteps, PrefillPhase, Model

LEMMA BlockPlace ==
  ASSUME IndInv, HotTypeOK, HotCallsInv, HotPlanInv, HomeInv, HotPlaceInv, Remembered,
         CommitBlock
  PROVE  HotPlaceInv'
<1>t. QueueTypes /\ TypeOK
  BY DEF HotTypeOK, IndInv
<1>1. phase # "raised" /\ plan # NoPlan /\ plan.to # GPU /\ CommitMove
      /\ DOMAIN plan.dst = {Top.index}
  BY BlockOwner
<1>2. Incomplete
  BY <1>1 DEF HotPlaceInv, Incomplete, InRestore
<1>3. PICK v \in Seqs : v = plan.seq
  BY <1>1, MoveKeepsSize
<1>4. /\ tokens' = tokens /\ Len(table'[v]) = Len(table[v])
      /\ DOMAIN plan.dst \subseteq DOMAIN tiers[v]
      /\ \A s \in Seqs : s # v => table'[s] = table[s] /\ tiers'[s] = tiers[s]
      /\ tiers'[v] = [i \in DOMAIN tiers[v] |->
                        IF i \in DOMAIN plan.dst THEN plan.to ELSE tiers[v][i]]
  BY <1>1, <1>3, MoveKeepsSize
<1>5. Missing(v)' # {}
  <2>1. Top.index \in DOMAIN tiers[v]
    BY <1>1, <1>4
  <2>2. tiers'[v][Top.index] = plan.to /\ Top.index \in DOMAIN tiers'[v]
    BY <1>1, <1>4, <2>1
  <2> QED BY <1>1, <2>2 DEF Missing
<1>6. shared' \/ ~ TooLarge(v)
  <2>1. CASE v = victim /\ victim # NoSeq
    <3>1. shared' \/ ~ TooManyBlocks(Size(v) + 1)
      BY <2>1 DEF HotCallsInv, Remembered
    <3>2. Extra(v) \in {0, 1} /\ Size(v) \in Nat /\ Capacity(GPU) \in Nat
      BY <1>t, SizeType, GpuSize DEF Extra
    <3> QED BY <3>1, <3>2 DEF TooLarge, TooManyBlocks
  <2>2. CASE v \in ToSet(swapped)
    BY <1>1, <2>2 DEF HotPlaceInv, Remembered
  <2> QED BY <1>3, <2>1, <2>2, BlockOwner
<1>7. shared' \/ ~ TooLarge(v)'
  BY <1>4, <1>6, SameFit
<1>8. ToSet(swapped)' \subseteq ToSet(swapped) \cup {v}
  <2>1. CASE swapped' = Append(swapped, v)
    BY <1>t, <2>1, AppendSet DEF QueueTypes
  <2>2. CASE swapped' = swapped
    BY <2>2
  <2> QED BY <1>3, <2>1, <2>2, BlockOwner
<1>9. ASSUME NEW s \in ToSet(swapped), s # v PROVE (shared' \/ ~ TooLarge(s)') /\ Missing(s)' # {}
  <2>1. s \in Seqs /\ (shared' \/ ~ TooLarge(s)) /\ Missing(s) # {}
    BY <1>t, <1>1, <1>2, SetOfSeq DEF QueueTypes, HotPlaceInv, Incomplete, Remembered
  <2>2. tokens'[s] = tokens[s] /\ Len(table'[s]) = Len(table[s]) /\ tiers'[s] = tiers[s]
    BY <1>4, <1>9, <2>1
  <2>3. Missing(s)' = Missing(s)
    BY <2>2 DEF Missing
  <2> QED BY <2>1, <2>2, <2>3, SameFit
<1> QED BY <1>5, <1>7, <1>8, <1>9 DEF HotPlaceInv

LEMMA RestorePlace ==
  ASSUME IndInv, HotTypeOK, HotTodoInv, HotPlanInv, HotPlaceInv, Remembered, CommitRestore
  PROVE  HotPlaceInv'
<1>t. QueueTypes /\ TypeOK
  BY DEF HotTypeOK, IndInv
<1>1. /\ calls = << >> /\ phase = "restore" /\ plan # NoPlan /\ CommitMove
      /\ plan.seq = Head(todo) /\ plan.seq \in Seqs
  BY RestoredOwner
<1>2. Incomplete
  BY <1>1 DEF HotPlaceInv, Incomplete, InRestore
<1>3. PICK v \in Seqs : v = plan.seq
  BY <1>1
<1>4. /\ tokens' = tokens /\ plan' = NoPlan /\ \A s \in Seqs : Len(table'[s]) = Len(table[s])
      /\ \A s \in Seqs : s # v => tiers'[s] = tiers[s]
  BY <1>1, <1>3, MoveKeepsSize
<1>5. UNCHANGED <<swapped, calls, phase, todo>>
  BY DEF CommitRestore, queues, control
<1>6. InRestore' /\ v = Head(todo)'
  BY <1>1, <1>3, <1>4, <1>5 DEF InRestore
<1>7. ASSUME NEW s \in ToSet(swapped) PROVE (shared' \/ ~ TooLarge(s)') /\ (s # v => Missing(s)' # {})
  <2>1. s \in Seqs /\ (shared' \/ ~ TooLarge(s)) /\ Missing(s) # {}
    BY <1>t, <1>1, <1>2, SetOfSeq DEF QueueTypes, HotPlaceInv, Incomplete, Remembered
  <2>2. tokens'[s] = tokens[s] /\ Len(table'[s]) = Len(table[s])
    BY <1>4, <2>1
  <2>3. shared' \/ ~ TooLarge(s)'
    BY <2>1, <2>2, SameFit
  <2>4. s # v => Missing(s)' = Missing(s)
    BY <1>4, <2>1 DEF Missing
  <2> QED BY <2>1, <2>3, <2>4
<1> QED BY <1>5, <1>6, <1>7 DEF HotPlaceInv

LEMMA RunAgainPlace ==
  ASSUME IndInv, HotTypeOK, HotTodoInv, HomeInv, HotPlaceInv, Remembered, RunAgain
  PROVE  HotPlaceInv'
<1>t. QueueTypes /\ TypeOK
  BY DEF HotTypeOK, IndInv
<1>1. PICK h \in Seqs : h = Head(todo)
  BY RunAgainFacts
<1>2. /\ phase = "restore" /\ phase' = "swapin" /\ swapped' \in Without(swapped, h)
      /\ tokens' = tokens
  BY <1>1, RunAgainFacts
<1>3. PICK b \in Block : Resume(h, b)
  BY <1>1, RunAgainFacts
<1>4. ToSet(swapped)' = ToSet(swapped) \ {h} /\ ToSet(swapped) \subseteq Seqs
  BY <1>t, <1>2, WithoutSet, SetOfSeq DEF QueueTypes, HomeInv
<1>5. /\ table' = [table EXCEPT ![h] = Append(@, b)] \/ table' = table
      /\ tiers' = [tiers EXCEPT ![h] = Append(@, GPU)] \/ tiers' = tiers
  BY <1>3 DEF Resume, MayAppend
<1>6. ASSUME NEW s \in ToSet(swapped) \ {h} PROVE (shared' \/ ~ TooLarge(s)') /\ Missing(s)' # {}
  <2>1. s \in Seqs /\ s # h /\ (shared' \/ ~ TooLarge(s)) /\ Missing(s) # {}
    BY <1>1, <1>2, <1>4 DEF HotPlaceInv, Remembered
  <2>2. table'[s] = table[s] /\ tiers'[s] = tiers[s]
    BY <1>t, <1>5, <2>1 DEF TypeOK
  <2>3. tokens'[s] = tokens[s] /\ Len(table'[s]) = Len(table[s])
    BY <1>2, <2>2
  <2>4. Missing(s)' = Missing(s)
    BY <2>2 DEF Missing
  <2> QED BY <2>1, <2>3, <2>4, SameFit
<1> QED BY <1>4, <1>6 DEF HotPlaceInv

LEMMA HotPlaceStep ==
  ASSUME IndInv, HotTypeOK, HotCallsInv, HotTodoInv, HotPlanInv, HomeInv, HotPlaceInv, Remembered,
         SharedSteps \/ OwnSteps \/ FailTransfer
  PROVE  HotPlaceInv'
<1> USE DEF vars, seqVars, placeVars, queues
<1>t. QueueTypes
  BY DEF HotTypeOK
<1>0. phase # "raised"
  BY HotNeverRaised
<1>1. CASE CommitBlock \/ CommitRestore \/ RunAgain
  BY <1>1, BlockPlace, RestorePlace, RunAgainPlace
<1>2. CASE FailTransfer \/ Stuck
  BY <1>2 DEF FailTransfer, Stuck, Raise, HotPlaceInv
<1>3. CASE PassOver \/ RestoreBlocks \/ EndHotSwapIn
  <2>1. InRestore => Missing(Head(todo)) # {}
    BY <1>3 DEF PassOver, RestoreBlocks, EndHotSwapIn, HotSwapInDone, InRestore
  <2>2. Incomplete
    BY <1>0, <2>1 DEF HotPlaceInv, Incomplete
  <2>3. UNCHANGED <<swapped, tokens, table, tiers>>
    BY <1>3 DEF PassOver, RestoreBlocks, PrepareMove, schedVars, EndHotSwapIn
  <2> QED BY <1>0, <2>2, <2>3, HotPlaceSame
<1>4. CASE /\ ~ (CommitBlock \/ CommitRestore \/ RunAgain \/ FailTransfer \/ Stuck)
           /\ ~ (PassOver \/ RestoreBlocks \/ EndHotSwapIn)
  <2>1. ~ InRestore
    <3>1. CASE SharedSteps
      BY <3>1 DEF SharedSteps, StartStep, ResetStats, Arrive, PrefillPhase, AdmitNew, AdmitMore,
         PrefillTooLarge, EndPrefill, TakeRunning, DecodeCur, DecodeTooLarge, EndDecode, InDecode,
         Model, RunNext, EndRun, PostNext, EndStep, InRestore
    <3>2. CASE OwnSteps
      BY <1>4, <3>2 DEF OwnSteps, HotWatermarks, CoolTier, CoolGpu, GpuPass, PreemptForGpu, GpuStuck,
         EndCooling, HotTargets, NextBlock, EndLoop, LookBelow, LookFurther, MoveBlock, NotMoved,
         InLoop, InDemote, Copy, CopyBlocks, HotSwapIn, LookAtSwapped, TakeBlock, InDecode,
         ThrowAway, InRestore
    <3> QED BY <1>4, <3>1, <3>2
  <2>2. Incomplete
    BY <1>0, <2>1 DEF HotPlaceInv, Incomplete
  <2>3. CASE SharedSteps
    BY <1>t, <1>0, <2>2, <2>3, SharedPlace
  <2>4. CASE ThrowAway
    <3>1. victim \in Seqs /\ victim # NoSeq
      BY <1>t, <2>4, OuterLoop DEF ThrowAway, InLoop, Outer, QueueTypes
    <3>2. Recompute(victim) /\ swapped' = swapped
      BY <2>4 DEF ThrowAway
    <3> QED BY <1>0, <2>2, <3>1, <3>2, WorkElsewhere, HotPlaceWork
  <2>5. CASE HotWatermarks \/ TakeBlock \/ LookAtSwapped
    BY <1>0, <2>2, <2>5, HotPlaceSame DEF HotWatermarks, CoolTier, CoolGpu, GpuPass, PreemptForGpu,
       GpuStuck, EndCooling, TakeBlock, LookAtSwapped
  <2>6. CASE NextBlock \/ EndLoop \/ LookBelow \/ LookFurther \/ MoveBlock \/ NotMoved \/ Copy
    BY <1>0, <2>2, <2>6, HotPlaceSame DEF NextBlock, EndLoop, LookBelow, LookFurther, MoveBlock,
       PrepareMove, NotMoved, Copy, CopyBlocks, schedVars
  <2> QED BY <1>4, <2>3, <2>4, <2>5, <2>6 DEF OwnSteps, HotTargets, HotSwapIn
<1> QED BY <1>1, <1>2, <1>3, <1>4

-----------------------------------------------------------------------------
(***************************************************************************)
(* The invariant.                                                          *)
(***************************************************************************)
LEMMA HotFirst == ASSUME HotInit PROVE HotInv
<1>1. SchedInv /\ SchedInit
  BY QueuesEmptyAtFirst DEF HotInit
<1>2. QueueTypes /\ HomeInv /\ BatchInv /\ ActiveBounded /\ LostOnlyScheduled
  BY <1>1 DEF SchedInv, SchedTypeOK
<1>3. /\ phase = "idle" /\ calls = << >> /\ victim = NoSeq /\ cur = NoSeq /\ plan = NoPlan
      /\ swapped = << >> /\ older = ById /\ refCount = [b \in Block |-> 0]
  BY <1>1 DEF SchedInit, Init
<1>4. HotTypeOK
  <2>1. << >> \in Seq(DemoteCall \cup LoopCall)
    OBVIOUS
  <2> QED BY <1>2, <1>3, <2>1 DEF HotTypeOK
<1>5. HotCallsInv /\ HotPlanInv
  BY <1>3 DEF HotCallsInv, HotPlanInv
<1>6. HotTodoInv
  BY <1>3, ByIdIrreflexive DEF HotTodoInv
<1>7. HotBatchInv
  BY <1>2, <1>3 DEF HotBatchInv
<1>8. HotPlaceInv
  BY <1>3 DEF HotPlaceInv, ToSet
<1>9. HistoryOk
  <2>1. shared = FALSE
    BY DEF HotInit
  <2>2. Unshared
    BY <1>3 DEF Unshared
  <2> QED BY <2>1, <2>2 DEF HistoryOk
<1> QED BY <1>2, <1>4, <1>5, <1>6, <1>7, <1>8, <1>9 DEF HotInv

LEMMA HotStutter ==
  ASSUME HotInv, HistoryOk', Remembered, UNCHANGED allVars PROVE HotInv'
<1> USE DEF allVars, schedVars, queues, step, control, vars, seqVars, placeVars, poolVars
<1>1. HotTypeOK' /\ HotTodoInv'
  BY DEF HotInv, HotTypeOK, QueueTypes, HotTodoInv
<1>2. HotCallsInv'
  BY DEF HotInv, HotCallsInv, FrameOk, Outer, Owners, TooManyBlocks, Size, Capacity, Remembered
<1>3. HotPlanInv'
  BY DEF HotInv, HotPlanInv, Missing, Top
<1>4. HomeInv'
  BY DEF HotInv, HomeInv, WithStatus, TakenOut, Handled
<1>5. HotBatchInv'
  BY DEF HotInv, HotBatchInv, BatchInv, WithTokens
<1>6. HotPlaceInv'
  BY DEF HotInv, HotPlaceInv, TooLarge, TooManyBlocks, Size, Extra, NeedsBlock, Capacity, Missing,
         InRestore, Remembered
<1>7. ActiveBounded'
  BY DEF HotInv, ActiveBounded, Handled
<1>8. LostOnlyScheduled'
  BY DEF HotInv, LostOnlyScheduled, Unfinished, TooLarge, TooManyBlocks, Size, Extra, NeedsBlock,
         Capacity
<1> QED BY <1>1, <1>2, <1>3, <1>4, <1>5, <1>6, <1>7, <1>8 DEF HotInv

LEMMA HotInvStep ==
  ASSUME IndInv, HotInv, [HotNext]_hotVars PROVE HotInv'
<1>1. /\ HotTypeOK /\ HotCallsInv /\ HotTodoInv /\ HotPlanInv /\ HomeInv /\ HotBatchInv
      /\ HotPlaceInv /\ ActiveBounded /\ LostOnlyScheduled /\ HistoryOk /\ TypeOK
  BY DEF HotInv, IndInv
<1>h. HistoryOk' /\ Remembered
  BY <1>1, HistoryStep
<1>2. CASE UNCHANGED allVars
  BY <1>2, <1>h, HotStutter
<1>3. CASE SharedSteps \/ OwnSteps \/ FailTransfer
  <2>1. HotTypeOK' /\ HotCallsInv'
    BY <1>1, <1>3, <1>h, HotTypesStep, HotCallsStep
  <2>2. HotTodoInv' /\ HotPlanInv'
    BY <1>1, <1>3, HotTodoStep, HotPlanStep
  <2>3. HomeInv' /\ HotBatchInv'
    BY <1>1, <1>3, HotHome, HotBatchStep
  <2>4. HotPlaceInv' /\ ActiveBounded' /\ LostOnlyScheduled'
    BY <1>1, <1>3, <1>h, HotPlaceStep, HotActive, HotLost
  <2> QED BY <1>h, <2>1, <2>2, <2>3, <2>4 DEF HotInv
<1> QED BY <1>2, <1>3, HotCases

LEMMA HotTogether == HotSpec => [](IndInv /\ HotInv)
<1>1. HotInit => IndInv /\ HotInv
  BY HotFirst, InitEstablishes DEF HotInit, SchedInit
<1>2. IndInv /\ HotInv /\ [HotNext]_hotVars => (IndInv /\ HotInv)'
  BY HotInvStep, HotStepRefines, StepPreserves DEF IndInv, HotInv
<1> QED BY <1>1, <1>2, PTL DEF HotSpec

(* The scheduler that moves single blocks is a client that keeps           *)
(* BlockManager's discipline too: _demote_block, _restore_blocks and the   *)
(* loops around them call prepare_block_move, commit_block_move and        *)
(* abort_block_move only as the manager allows, whatever the watermarks,   *)
(* the budget and the failures of transfers, and although a block they     *)
(* move may belong to other requests too, which keep it where it is.       *)
THEOREM HotKeepsDiscipline == HotSpec => Spec
<1>1. HotInit => Init
  BY DEF HotInit, SchedInit
<1>2. IndInv /\ HotInv /\ [HotNext]_hotVars => [Next]_vars
  BY HotStepRefines DEF HotInv
<1> QED BY <1>1, <1>2, HotTogether, PTL DEF HotSpec, Spec

(* The loops, the calls between them, the queues, the batch, the places of *)
(* the blocks and the transfer in flight fit together at every point of    *)
(* schedule() with kv_placement="block-hot", whether prompts share blocks  *)
(* or not.                                                                 *)
THEOREM HotInvariance == HotSpec => []HotInv
BY HotTogether, PTL

(* Moving blocks one at a time loses no request and queues none twice: the *)
(* unfinished requests are those of the three deques and of the decode     *)
(* loop, each once, in the deque of its status.                            *)
THEOREM HotQueuesExact == HotSpec => []OneHome
<1>1. IndInv /\ HotInv => OneHome
  BY HomeFromInv DEF HotInv, HotTypeOK, HotBatchInv
<1> QED BY <1>1, HotTogether, PTL

LEMMA PlacesFromInv == ASSUME IndInv, HotInv PROVE HotPlaces
<1> SUFFICES ASSUME phase # "raised" PROVE HotPlaces
  BY DEF HotPlaces
<1>1. HomeInv /\ HotPlaceInv
  BY DEF HotInv
<1>2. ASSUME NEW s \in ToSet(running) PROVE AllOn(s, GPU)
  <2>1. s \in Seqs /\ status[s] = "running"
    BY <1>1 DEF HomeInv, WithStatus
  <2> QED BY <2>1, RunningOnGpu
<1>3. ASSUME NEW s \in ToSet(waiting) PROVE AllOn(s, GPU)
  <2>1. s \in Seqs /\ status[s] = "waiting"
    BY <1>1 DEF HomeInv, WithStatus
  <2> QED BY <2>1 DEF IndInv, ScheduleSound, ScheduleOf
<1> QED BY <1>1, <1>2, <1>3 DEF HotPlaces, HotPlaceInv

(* No request runs with a block missing, and none waits in the swapped     *)
(* queue when all its blocks are back: _demote_block leaves at least one   *)
(* block of a preempted request below the GPU, only _restore_blocks brings *)
(* blocks back, all of them, and the request runs again at once.           *)
THEOREM HotPlaced == HotSpec => []HotPlaces
BY HotTogether, PlacesFromInv, PTL

(* As long as no block was shared, what is swapped fits the GPU with the   *)
(* block it needs next, so that _schedule_swapped does not raise the error *)
(* about a single request.                                                 *)
THEOREM HotSwappedFits == HotSpec => [](phase # "raised" /\ ~ shared => HotSwappedFit)
<1>1. HotInv => (phase # "raised" /\ ~ shared => HotSwappedFit)
  BY DEF HotInv, HotPlaceInv, HotSwappedFit
<1> QED BY <1>1, HotTogether, PTL

(* The model runs exactly the requests that were given tokens, each once   *)
(* and with every block on the GPU, also when single blocks move.          *)
THEOREM HotBatchMatches == HotSpec => []BatchExact
<1>1. IndInv /\ HotInv => BatchExact
  BY BatchFromInv DEF HotInv, HotTypeOK, HotBatchInv
<1> QED BY <1>1, HotTogether, PTL

(* An exception of schedule() only loses what this very step scheduled,    *)
(* and never more than max_num_seqs requests are in execution.             *)
THEOREM HotExceptions == HotSpec => [](LostOnlyScheduled /\ ActiveBounded)
BY HotInvariance, PTL DEF HotInv

(* Whatever is moved block by block, every cached token of a request stays *)
(* where its block table says, the prefix index only names GPU blocks with *)
(* the tokens of their key, and no step writes into a block that another   *)
(* request uses: also when one of the owners of a block moves it away.     *)
THEOREM HotView == HotSpec => [](ViewCorrect /\ PrefixIndexSound /\ WriteExclusive)
BY HotKeepsDiscipline, CorrectView, IndexSound, ExclusiveWrites, PTL

(* The engine with kv_placement="block-hot" keeps the promise of KVView: a *)
(* request's context is its own, and only its own steps change it, while   *)
(* blocks are shared by prompts and moved by one of their owners.          *)
THEOREM HotViewRefinement == HotSpec => ImplementsKVView
BY HotKeepsDiscipline, ViewRefinement

(* Without the prefix cache no block ever has two owners, so that what     *)
(* holds until a block is shared holds throughout.                         *)
THEOREM HotUnshared == ASSUME ~ EnablePrefixCache PROVE HotSpec => [](~ shared)
<1>1. HotInit => ~ shared /\ Unshared
  <2> SUFFICES ASSUME HotInit PROVE ~ shared /\ Unshared
    OBVIOUS
  <2>1. refCount = [b \in Block |-> 0]
    BY DEF HotInit, SchedInit, Init
  <2>2. Unshared
    BY <2>1 DEF Unshared
  <2>3. shared = FALSE
    BY DEF HotInit
  <2> QED BY <2>2, <2>3
<1>2. ASSUME IndInv, HotInv, ~ shared, Unshared, [HotNext]_hotVars
      PROVE  ~ shared' /\ Unshared'
  <2>1. Unshared'
    BY <1>2, HotStepRefines, UnsharedStep DEF HotInv, IndInv
  <2>2. CASE HotNext
    <3>1. Remember
      BY <2>2 DEF HotNext, HotEngine, HotEndStep, Unaged
    <3> QED BY <1>2, <2>1, <3>1 DEF Remember
  <2>3. CASE UNCHANGED hotVars
    BY <1>2, <2>1, <2>3 DEF hotVars
  <2> QED BY <1>2, <2>1, <2>2, <2>3
<1>3. IndInv /\ HotInv /\ (~ shared /\ Unshared) /\ [HotNext]_hotVars => (~ shared /\ Unshared)'
  BY <1>2
<1> QED BY <1>1, <1>3, HotTogether, PTL DEF HotSpec

-----------------------------------------------------------------------------
(***************************************************************************)
(* The transfer budget.  The blocks of a transfer in flight are counted    *)
(* when it is committed, so the strengthening adds them.                   *)
(***************************************************************************)
HotBudgetKept ==
  MaxTransfer # -1 =>
    moved + (IF plan = NoPlan THEN 0 ELSE Cardinality(DOMAIN plan.dst)) <= MaxTransfer

LEMMA PlanFinite ==
  ASSUME TypeOK, plan # NoPlan
  PROVE  IsFiniteSet(DOMAIN plan.dst) /\ Cardinality(DOMAIN plan.dst) \in Nat
<1>1. DOMAIN plan.dst \subseteq DOMAIN table[plan.seq] /\ table[plan.seq] \in Seq(Block)
  BY DEF TypeOK
<1>2. PICK n \in Nat : DOMAIN table[plan.seq] = 1 .. n
  BY <1>1
<1>3. IsFiniteSet(1 .. n)
  BY <1>2, FS_Interval
<1> QED BY <1>1, <1>2, <1>3, FS_Subset, FS_CardinalityType

LEMMA HotBudgetFrame ==
  ASSUME TypeOK, QueueTypes, HotBudgetKept, moved' \in {0, moved}, plan' = NoPlan
  PROVE  HotBudgetKept'
<1> SUFFICES ASSUME MaxTransfer # -1 PROVE moved' <= MaxTransfer
  BY DEF HotBudgetKept
<1>1. moved \in Nat /\ MaxTransfer \in Nat
  BY SchedulerAssumption DEF QueueTypes
<1>2. moved <= MaxTransfer
  <2>1. CASE plan = NoPlan
    BY <1>1, <2>1 DEF HotBudgetKept
  <2>2. CASE plan # NoPlan
    <3>1. Cardinality(DOMAIN plan.dst) \in Nat
      BY <2>2, PlanFinite
    <3> QED BY <1>1, <2>2, <3>1 DEF HotBudgetKept
  <2> QED BY <2>1, <2>2
<1> QED BY <1>1, <1>2

LEMMA HotBudgetStep ==
  ASSUME IndInv, HotInv, HotBudgetKept, [HotNext]_hotVars
  PROVE  HotBudgetKept'
<1> USE DEF queues, step
<1>t. /\ HotTypeOK /\ HotCallsInv /\ HotTodoInv /\ HotPlanInv /\ HomeInv /\ QueueTypes /\ TypeOK
      /\ moved \in Nat
  BY DEF HotInv, IndInv, HotTypeOK, QueueTypes
<1>m. MaxTransfer # -1 => MaxTransfer \in Nat
  BY SchedulerAssumption
<1>1. CASE UNCHANGED allVars
  BY <1>1 DEF allVars, vars, schedVars, HotBudgetKept
<1>2. CASE MoveBlock
  <2>1. plan = NoPlan /\ Budget(1) /\ moved' = moved
    BY <1>2 DEF MoveBlock, InDemote, schedVars
  <2>2. PICK dst \in [{Top.index} -> FreeIn(Head(Top.to))] :
          PrepareMove(Top.seq, Head(Top.to), {Top.index}, dst)
    BY <1>2 DEF MoveBlock
  <2>3. DOMAIN plan'.dst = {Top.index} /\ plan' # NoPlan
    <3>1. plan'.dst = dst /\ plan'.op = "move"
      BY <2>2 DEF PrepareMove, StartPlan
    <3> QED BY <2>2, <3>1 DEF NoPlan
  <2>4. Cardinality(DOMAIN plan'.dst) = 1
    BY <2>3, FS_Singleton
  <2> QED BY <1>t, <1>m, <2>1, <2>3, <2>4 DEF HotBudgetKept, Budget
<1>3. CASE RestoreBlocks
  <2> DEFINE M == Missing(Head(todo))
  <2>1. plan = NoPlan /\ Budget(Cardinality(M)) /\ moved' = moved
    BY <1>3 DEF RestoreBlocks, InRestore, schedVars
  <2>2. PICK dst \in [M -> FreeIn(GPU)] : PrepareMove(Head(todo), GPU, M, dst)
    BY <1>3 DEF RestoreBlocks
  <2>3. DOMAIN plan'.dst = M /\ plan' # NoPlan
    <3>1. plan'.dst = dst /\ plan'.op = "move"
      BY <2>2 DEF PrepareMove, StartPlan
    <3> QED BY <2>2, <3>1 DEF NoPlan
  <2> HIDE DEF M
  <2> QED BY <2>1, <2>3 DEF HotBudgetKept, Budget
<1>4. CASE Copy
  <2>1. plan # NoPlan /\ plan' = [plan EXCEPT !.copied = TRUE] /\ moved' = moved
    BY <1>4 DEF Copy, CopyBlocks, schedVars
  <2>2. plan'.dst = plan.dst /\ plan'.op = plan.op /\ plan.op = "move"
    BY <1>t, <2>1 DEF HotPlanInv
  <2>3. plan' # NoPlan
    BY <2>2 DEF NoPlan
  <2> QED BY <2>1, <2>2, <2>3 DEF HotBudgetKept
<1>5. CASE CommitBlock
  <2>1. plan # NoPlan /\ DOMAIN plan.dst = {Top.index} /\ plan' = NoPlan /\ moved' = moved + 1
    BY <1>t, <1>5, BlockOwner, MoveKeepsSize DEF CommitBlock
  <2>2. Cardinality(DOMAIN plan.dst) = 1
    BY <2>1, FS_Singleton
  <2> QED BY <1>t, <1>m, <2>1, <2>2 DEF HotBudgetKept
<1>6. CASE CommitRestore
  <2>1. plan # NoPlan /\ plan' = NoPlan /\ moved' = moved + Cardinality(DOMAIN plan.dst)
    BY <1>t, <1>6, RestoredOwner, MoveKeepsSize DEF CommitRestore
  <2>2. Cardinality(DOMAIN plan.dst) \in Nat
    BY <1>t, <2>1, PlanFinite
  <2> QED BY <1>t, <1>m, <2>1, <2>2 DEF HotBudgetKept
<1>7. CASE /\ SharedSteps \/ OwnSteps \/ FailTransfer
           /\ ~ (MoveBlock \/ RestoreBlocks \/ Copy \/ CommitBlock \/ CommitRestore)
  <2>1. plan' = NoPlan
    BY <1>t, <1>7, HotOtherPlans
  <2>2. moved' \in {0, moved}
    <3>1. CASE SharedSteps
      BY <3>1 DEF SharedSteps, StartStep, ResetStats, Arrive, PrefillPhase, AdmitNew, AdmitMore,
         Scheduled, PrefillTooLarge, EndPrefill, Raise, TakeRunning, DecodeCur, DecodeTooLarge,
         EndDecode, Model, RunNext, EndRun, PostNext, EndStep
    <3>2. CASE FailTransfer
      BY <3>2 DEF FailTransfer, Raise
    <3>3. CASE OwnSteps
      BY <1>7, <3>3 DEF OwnSteps, HotWatermarks, CoolTier, CoolGpu, GpuPass, PreemptForGpu, GpuStuck,
         EndCooling, HotTargets, NextBlock, EndLoop, LookBelow, LookFurther, NotMoved, HotSwapIn,
         LookAtSwapped, PassOver, RunAgain, EndHotSwapIn, Stuck, Raise, TakeBlock, ThrowAway
    <3> QED BY <1>7, <3>1, <3>2, <3>3
  <2> QED BY <1>t, <2>1, <2>2, HotBudgetFrame
<1> QED BY <1>1, <1>2, <1>3, <1>4, <1>5, <1>6, <1>7, HotCases

(* However deep _demote_block and _ensure_free_blocks nest, a step moves   *)
(* no more blocks than kv_max_transfer_blocks.                             *)
THEOREM HotStepBudget == HotSpec => []BudgetRespected
<1>1. HotInit => HotBudgetKept
  BY SchedulerAssumption DEF HotInit, SchedInit, Init, HotBudgetKept
<1>2. IndInv /\ HotInv /\ HotBudgetKept /\ [HotNext]_hotVars => HotBudgetKept'
  BY HotBudgetStep
<1>3. IndInv /\ HotInv /\ HotBudgetKept => BudgetRespected
  <2> SUFFICES ASSUME IndInv, HotInv, HotBudgetKept, MaxTransfer # -1 PROVE moved <= MaxTransfer
    BY DEF BudgetRespected
  <2>1. TypeOK /\ moved \in Nat /\ MaxTransfer \in Nat
    BY SchedulerAssumption DEF HotInv, IndInv, HotTypeOK, QueueTypes
  <2>2. CASE plan = NoPlan
    BY <2>1, <2>2 DEF HotBudgetKept
  <2>3. CASE plan # NoPlan
    <3>1. Cardinality(DOMAIN plan.dst) \in Nat
      BY <2>1, <2>3, PlanFinite
    <3> QED BY <2>1, <2>3, <3>1 DEF HotBudgetKept
  <2> QED BY <2>2, <2>3
<1> QED BY <1>1, <1>2, <1>3, HotTogether, PTL DEF HotSpec

-----------------------------------------------------------------------------
(***************************************************************************)
(* As long as no block was shared, one of the swapped requests can always  *)
(* be restored.  The argument counts GPU blocks: OnGpu(S) has one pair for *)
(* each GPU block of a request of S, and no two pairs name the same block. *)
(***************************************************************************)
LEMMA OnGpuPairs ==
  ASSUME NEW S
  PROVE  \A s, i : <<s, i>> \in OnGpu(S) <=>
                     s \in S /\ i \in DOMAIN tiers[s] /\ tiers[s][i] = GPU
BY DEF OnGpu, BlocksOn

LEMMA OnGpuCount ==
  ASSUME TypeOK, NEW S \in SUBSET Seqs
  PROVE  IsFiniteSet(OnGpu(S)) /\ Cardinality(OnGpu(S)) \in Nat /\ OnGpu(S) \subseteq S \X Nat
BY BlocksFinite, FS_CardinalityType DEF OnGpu

LEMMA OnGpuAdd ==
  ASSUME TypeOK, NEW S \in SUBSET Seqs, NEW s \in Seqs, s \notin S
  PROVE  Cardinality(OnGpu(S \cup {s})) = Cardinality(OnGpu(S)) + Cardinality(OnGpu({s}))
<1>1. OnGpu(S \cup {s}) = OnGpu(S) \cup OnGpu({s})
  BY DEF OnGpu, BlocksOn
<1>2. OnGpu(S) \cap OnGpu({s}) = {}
  <2>1. OnGpu(S) \subseteq S \X Nat /\ OnGpu({s}) \subseteq {s} \X Nat
    BY OnGpuCount
  <2> QED BY <2>1
<1>3. /\ IsFiniteSet(OnGpu(S)) /\ Cardinality(OnGpu(S)) \in Nat
      /\ IsFiniteSet(OnGpu({s})) /\ Cardinality(OnGpu({s})) \in Nat
  BY OnGpuCount
<1>4. Cardinality(OnGpu(S) \cap OnGpu({s})) = 0
  BY <1>2, FS_EmptySet
<1>5. Cardinality(OnGpu(S) \cup OnGpu({s})) =
        Cardinality(OnGpu(S)) + Cardinality(OnGpu({s})) - Cardinality(OnGpu(S) \cap OnGpu({s}))
  BY <1>3, FS_Union
<1>6. ASSUME NEW m \in Nat, NEW n \in Nat, NEW k, k = m + n - 0 PROVE k = m + n
  BY <1>6
<1> QED BY <1>1, <1>3, <1>4, <1>5, <1>6

(* The blocks of a request are on the GPU or missing there. *)
LEMMA SizeSplit ==
  ASSUME TypeOK, TagsAgree, NEW s \in Seqs
  PROVE  Size(s) = Cardinality(OnGpu({s})) + Cardinality(Missing(s))
<1> DEFINE A == DOMAIN tiers[s]
           H == {i \in A : tiers[s][i] = GPU}
           f == [i \in H |-> <<s, i>>]
<1>1. PICK n \in Nat : n = Size(s) /\ A = 1 .. n
  BY SeqTypes DEF TagsAgree, TagsOf, Size
<1>2. IsFiniteSet(A) /\ Cardinality(A) = n
  BY <1>1, FS_Interval
<1>3. H \cup Missing(s) = A /\ H \cap Missing(s) = {}
  BY DEF Missing
<1>4. /\ IsFiniteSet(H) /\ IsFiniteSet(Missing(s))
      /\ Cardinality(H) \in Nat /\ Cardinality(Missing(s)) \in Nat
  BY <1>2, <1>3, FS_Subset, FS_CardinalityType
<1>5. n = Cardinality(H) + Cardinality(Missing(s))
  BY <1>2, <1>3, <1>4, FS_Union, FS_EmptySet
<1>6. Cardinality(OnGpu({s})) = Cardinality(H)
  <2>1. f \in Bijection(H, OnGpu({s}))
    <3>1. OnGpu({s}) = {<<s, i>> : i \in H}
      BY DEF OnGpu, BlocksOn
    <3>2. f \in [H -> OnGpu({s})] /\ \A p \in OnGpu({s}) : \E i \in H : f[i] = p
      BY <3>1
    <3>3. \A i, j \in H : f[i] = f[j] => i = j
      OBVIOUS
    <3> HIDE DEF f, H
    <3> QED BY <3>2, <3>3 DEF Bijection, Injection, Surjection, IsInjective
  <2> HIDE DEF f, H
  <2> QED BY <1>4, <2>1, FS_Bijection DEF ExistsBijection
<1> QED BY <1>1, <1>5, <1>6

(* A block has one place in one table. *)
LEMMA OneOwner ==
  ASSUME IndInv, Unshared, NEW r \in Seqs, NEW s \in Seqs, NEW i \in DOMAIN table[r],
         NEW j \in DOMAIN table[s], table[r][i] = table[s][j]
  PROVE  r = s /\ i = j
<1>0. TypeOK /\ RefCountsExact
  BY DEF IndInv
<1>1. PICK b \in Block : b = table[r][i]
  BY <1>0 DEF TypeOK
<1>2. r \in Holders(b) /\ s \in Holders(b)
  BY <1>1 DEF Holders, Held
<1>3. IsFiniteSet(Holders(b)) /\ Cardinality(Holders(b)) \in Nat /\ InFlight(b) \in {0, 1}
  BY HoldersFinite DEF InFlight
<1>4. Cardinality(Holders(b)) <= 1
  BY <1>0, <1>3 DEF Unshared, RefCountsExact
<1>5. Holders(b) # {} /\ Cardinality(Holders(b)) # 0
  BY <1>2, <1>3, FS_EmptySet
<1>a. Cardinality(Holders(b)) = 1
  BY <1>3, <1>4, <1>5
<1>6. \E x : Holders(b) = {x}
  BY <1>3, <1>a, FS_Singleton
<1>7. r = s
  BY <1>2, <1>6
<1> QED BY <1>0, <1>7 DEF RefCountsExact, Injective

LEMMA OwnedBlocks ==
  ASSUME IndInv, NEW s \in Seqs, NEW i \in DOMAIN tiers[s]
  PROVE  /\ i \in DOMAIN table[s] /\ table[s][i] \in Block \ free
         /\ TierOf[table[s][i]] = tiers[s][i]
<1>0. TypeOK /\ RefCountsExact /\ PoolPartition /\ TagsAgree
  BY DEF IndInv
<1>1. i \in DOMAIN table[s] /\ TierOf[table[s][i]] = tiers[s][i]
  BY <1>0 DEF TagsAgree, TagsOf
<1>2. PICK b \in Block : b = table[s][i]
  BY <1>0, <1>1 DEF TypeOK
<1>3. Cardinality(Holders(b)) # 0 /\ Cardinality(Holders(b)) \in Nat
  <2>1. s \in Holders(b)
    BY <1>1, <1>2 DEF Holders, Held
  <2> QED BY <2>1, HoldersFinite, FS_EmptySet
<1>4. refCount[b] # 0
  BY <1>0, <1>3 DEF RefCountsExact, InFlight
<1> QED BY <1>0, <1>1, <1>2, <1>4 DEF PoolPartition

LEMMA FreeGpu ==
  ASSUME TypeOK
  PROVE  /\ IsFiniteSet(FreeIn(GPU)) /\ FreeCount(GPU) \in Nat
         /\ FreeCount(GPU) = 0 <=> FreeIn(GPU) = {}
         /\ FreeIn(GPU) \subseteq GpuBlocks
         /\ IsFiniteSet(GpuBlocks \ FreeIn(GPU))
         /\ Cardinality(GpuBlocks \ FreeIn(GPU)) = Capacity(GPU) - FreeCount(GPU)
<1>1. FreeIn(GPU) \subseteq GpuBlocks
  BY DEF FreeIn, TypeOK, GpuBlocks
<1>2. IsFiniteSet(FreeIn(GPU))
  BY <1>1, GpuSize, FS_Subset
<1>3. GpuBlocks \cap FreeIn(GPU) = FreeIn(GPU)
  BY <1>1
<1>4. FreeCount(GPU) \in Nat /\ (FreeCount(GPU) = 0 <=> FreeIn(GPU) = {})
  BY <1>2, FS_CardinalityType, FS_EmptySet DEF FreeCount
<1>5. /\ IsFiniteSet(GpuBlocks \ FreeIn(GPU))
      /\ Cardinality(GpuBlocks \ FreeIn(GPU)) = Cardinality(GpuBlocks) - Cardinality(GpuBlocks \cap FreeIn(GPU))
  BY GpuSize, FS_Difference
<1> QED BY <1>1, <1>2, <1>3, <1>4, <1>5, GpuSize DEF FreeCount

LEMMA OnGpuFits ==
  ASSUME IndInv, Unshared, NEW S \in SUBSET Seqs
  PROVE  Cardinality(OnGpu(S)) <= Capacity(GPU) - FreeCount(GPU)
<1> DEFINE T == GpuBlocks \ FreeIn(GPU)
           f == [p \in OnGpu(S) |-> table[p[1]][p[2]]]
<1>0. TypeOK
  BY DEF IndInv
<1>1. OnGpu(S) \subseteq S \X Nat
  BY <1>0, OnGpuCount
<1>2. ASSUME NEW p \in OnGpu(S)
      PROVE  p[1] \in S /\ p = <<p[1], p[2]>> /\ p[2] \in DOMAIN tiers[p[1]] /\ tiers[p[1]][p[2]] = GPU
  BY <1>1, OnGpuPairs
<1>3. ASSUME NEW p \in OnGpu(S) PROVE f[p] \in T /\ p[2] \in DOMAIN table[p[1]]
  BY <1>2, OwnedBlocks DEF GpuBlocks, FreeIn
<1>4. ASSUME NEW p \in OnGpu(S), NEW q \in OnGpu(S), f[p] = f[q] PROVE p = q
  <2>1. p[1] = q[1] /\ p[2] = q[2]
    BY <1>2, <1>3, <1>4, OneOwner
  <2> QED BY <1>2, <2>1
<1>a. f \in [OnGpu(S) -> T]
  BY <1>3
<1>5. f \in Injection(OnGpu(S), T)
  <2> HIDE DEF f, T
  <2> QED BY <1>a, <1>4 DEF Injection, IsInjective
<1> HIDE DEF f
<1>6. IsFiniteSet(T) /\ Cardinality(T) = Capacity(GPU) - FreeCount(GPU)
  BY <1>0, FreeGpu
<1> QED BY <1>5, <1>6, FS_Injection

(* When the requests of S hold all GPU blocks that are not free. *)
LEMMA OnGpuAll ==
  ASSUME IndInv, NEW S \in SUBSET Seqs, plan = NoPlan,
         \A s \in Seqs \ S : OnGpu({s}) = {}
  PROVE  Capacity(GPU) - FreeCount(GPU) <= Cardinality(OnGpu(S))
<1> DEFINE f == [p \in OnGpu(S) |-> table[p[1]][p[2]]]
           T == {f[p] : p \in OnGpu(S)}
<1>0. TypeOK /\ RefCountsExact /\ PoolPartition /\ TagsAgree
  BY DEF IndInv
<1>1. ASSUME NEW b \in GpuBlocks \ FreeIn(GPU) PROVE b \in T
  <2>1. b \in Block /\ TierOf[b] = GPU /\ refCount[b] # 0
    BY <1>0 DEF GpuBlocks, FreeIn, PoolPartition
  <2>2. InFlight(b) = 0
    BY DEF InFlight, PlanTargets, ImageOf, NoPlan
  <2>3. Cardinality(Holders(b)) # 0
    <3>1. Cardinality(Holders(b)) \in Nat
      BY HoldersFinite
    <3> QED BY <1>0, <2>1, <2>2, <3>1 DEF RefCountsExact
  <2>4. Holders(b) # {}
    BY <2>3, FS_EmptySet
  <2>5. PICK s \in Seqs : b \in Held(s)
    BY <2>4 DEF Holders
  <2>a. PICK i \in DOMAIN table[s] : table[s][i] = b
    BY <2>5 DEF Held
  <2>6. i \in DOMAIN tiers[s] /\ tiers[s][i] = GPU
    BY <1>0, <2>1, <2>a DEF TagsAgree, TagsOf
  <2>7. <<s, i>> \in OnGpu({s})
    BY <2>6, OnGpuPairs
  <2>8. s \in S
    BY <2>7
  <2>9. <<s, i>> \in OnGpu(S)
    BY <2>6, <2>8, OnGpuPairs
  <2> QED BY <2>a, <2>9
<1>2. IsFiniteSet(T) /\ Cardinality(T) <= Cardinality(OnGpu(S))
  <2>1. f \in Surjection(OnGpu(S), T)
    BY DEF Surjection
  <2> HIDE DEF f
  <2> QED BY <1>0, <2>1, OnGpuCount, FS_Surjection
<1>3. Cardinality(GpuBlocks \ FreeIn(GPU)) <= Cardinality(T)
  <2>1. GpuBlocks \ FreeIn(GPU) \in SUBSET T
    BY <1>1
  <2> QED BY <1>2, <2>1, FS_Subset
<1>4. Cardinality(T) \in Nat /\ Cardinality(OnGpu(S)) \in Nat
  BY <1>0, <1>2, OnGpuCount, FS_CardinalityType
<1> QED BY <1>0, <1>2, <1>3, <1>4, FreeGpu, GpuSize

(* The steps that move no block and resume no request leave the swapped    *)
(* requests alone.                                                         *)
LEMMA SwappedSame ==
  ASSUME IndInv, HotInv, SharedSteps \/ OwnSteps \/ FailTransfer,
         ~ CommitBlock, ~ CommitRestore, ~ RunAgain
  PROVE  /\ swapped' = swapped
         /\ \A s \in ToSet(swapped) : /\ s \in Seqs /\ tokens'[s] = tokens[s]
                                      /\ table'[s] = table[s] /\ tiers'[s] = tiers[s]
<1> USE DEF vars, seqVars, placeVars, queues
<1>t. HotTypeOK /\ HotCallsInv /\ HotTodoInv /\ HotPlanInv /\ HomeInv /\ QueueTypes
  BY DEF HotInv, HotTypeOK
<1>0. phase # "raised"
  BY <1>t, HotNeverRaised
<1>s. \A s \in ToSet(swapped) : s \in Seqs /\ status[s] = "swapped"
  BY <1>t, <1>0 DEF HomeInv, WithStatus
<1>w. ASSUME swapped' = swapped,
             \/ UNCHANGED <<tokens, table, tiers>>
             \/ \A s \in Seqs : status[s] = "swapped" => /\ tokens'[s] = tokens[s]
                                                         /\ table'[s] = table[s] /\ tiers'[s] = tiers[s]
      PROVE  /\ swapped' = swapped
             /\ \A s \in ToSet(swapped) : /\ s \in Seqs /\ tokens'[s] = tokens[s]
                                          /\ table'[s] = table[s] /\ tiers'[s] = tiers[s]
  BY <1>s, <1>w
<1>1. CASE ResetStats \/ StartStep \/ PrefillTooLarge \/ DecodeTooLarge \/ EndPrefill \/ TakeRunning
             \/ EndDecode \/ EndRun \/ EndStep
  BY <1>1, <1>w DEF ResetStats, StartStep, ClearPrefixCache, PrefillTooLarge, DecodeTooLarge, Raise,
     EndPrefill, TakeRunning, EndDecode, EndRun, EndStep
<1>2. CASE \E s \in Seqs : Arrive(s)
  <2>1. PICK s \in Seqs : Arrive(s)
    BY <1>2
  <2>2. Add(s) /\ swapped' = swapped
    BY <2>1 DEF Arrive
  <2> QED BY <2>2, <1>w, WorkElsewhere
<1>3. CASE AdmitNew \/ AdmitMore
  <2>1. Head(waiting) \in Seqs /\ swapped' = swapped
    BY <1>t, <1>3, Chunked
  <2>2. \/ \E n, fresh, c : PrefillNew(Head(waiting), n, fresh, c)
        \/ \E c : PrefillMore(Head(waiting), c)
    BY <1>3 DEF AdmitNew, AdmitMore
  <2> QED BY <2>1, <2>2, <1>w, WorkElsewhere
<1>4. CASE DecodeCur
  <2>1. cur \in Seqs /\ swapped' = swapped /\ \E b \in Block : Decode(cur, b)
    BY <1>t, <1>4 DEF DecodeCur, QueueTypes
  <2> QED BY <2>1, <1>w, WorkElsewhere
<1>5. CASE RunNext \/ PostNext
  <2>1. Head(todo) \in Seqs /\ swapped' = swapped
    BY <1>t, <1>5, HeadTailSet DEF RunNext, PostNext, QueueTypes
  <2>2. \/ Run(Head(todo)) \/ PostChunk(Head(todo))
        \/ \E t \in Token : PostToken(Head(todo), t) \/ PostFinish(Head(todo), t)
    BY <1>5 DEF RunNext, PostNext
  <2> QED BY <2>1, <2>2, <1>w, WorkElsewhere
<1>6. CASE ThrowAway
  <2>1. victim \in Seqs /\ victim # NoSeq
    BY <1>t, <1>6, OuterLoop DEF ThrowAway, InLoop, Outer, QueueTypes
  <2>2. Recompute(victim) /\ swapped' = swapped
    BY <1>6 DEF ThrowAway
  <2> QED BY <2>1, <2>2, <1>w, WorkElsewhere
<1>7. CASE HotWatermarks \/ TakeBlock \/ LookAtSwapped \/ PassOver \/ RestoreBlocks \/ EndHotSwapIn \/ Stuck
  BY <1>7, <1>w DEF HotWatermarks, CoolTier, CoolGpu, GpuPass, PreemptForGpu, GpuStuck, EndCooling,
     TakeBlock, LookAtSwapped, PassOver, RestoreBlocks, PrepareMove, schedVars, EndHotSwapIn, Stuck, Raise
<1>8. CASE NextBlock \/ EndLoop \/ LookBelow \/ LookFurther \/ MoveBlock \/ NotMoved \/ Copy
  BY <1>8, <1>w DEF NextBlock, EndLoop, LookBelow, LookFurther, MoveBlock, PrepareMove, NotMoved, Copy,
     CopyBlocks, schedVars
<1>9. CASE FailTransfer
  BY <1>9, <1>w DEF FailTransfer, AbortTransfer, Raise
<1> QED BY <1>1, <1>2, <1>3, <1>4, <1>5, <1>6, <1>7, <1>8, <1>9
        DEF SharedSteps, PrefillPhase, Model, OwnSteps, HotTargets, HotSwapIn

LEMMA OnGpuShrinks ==
  ASSUME NEW S, \A s \in S : \A i \in DOMAIN tiers'[s] :
                  tiers'[s][i] = GPU => i \in DOMAIN tiers[s] /\ tiers[s][i] = GPU
  PROVE  OnGpu(S)' \subseteq OnGpu(S)
BY DEF OnGpu, BlocksOn

LEMMA FitsKept ==
  ASSUME TypeOK, TypeOK', NEW S \in SUBSET Seqs, NEW s \in Seqs, FitsBeside(S, s),
         tokens'[s] = tokens[s], Len(table'[s]) = Len(table[s]), OnGpu(S)' \subseteq OnGpu(S)
  PROVE  FitsBeside(S, s)'
<1>1. PICK m \in Nat : m = Cardinality(OnGpu(S)) /\ IsFiniteSet(OnGpu(S))
  BY OnGpuCount
<1>2. Cardinality(OnGpu(S)') \in Nat /\ Cardinality(OnGpu(S)') <= m
  BY <1>1, FS_Subset, FS_CardinalityType
<1>3. Size(s)' = Size(s) /\ Extra(s)' = Extra(s) /\ Capacity(GPU)' = Capacity(GPU)
  BY DEF Size, Extra, NeedsBlock, Capacity
<1>4. Size(s) \in Nat /\ Extra(s) \in {0, 1} /\ Capacity(GPU) \in Nat
  BY SizeType, GpuSize DEF Extra
<1>5. m + Size(s) + Extra(s) <= Capacity(GPU)
  BY <1>1 DEF FitsBeside
<1>6. Cardinality(OnGpu(S)') + Size(s) + Extra(s) <= Capacity(GPU)
  BY <1>2, <1>4, <1>5
<1> QED BY <1>3, <1>6 DEF FitsBeside

(* A demotion takes GPU blocks from one request, and nobody gets any. *)
LEMMA DemotionShrinks ==
  ASSUME IndInv, HotInv, CommitBlock, NEW S \in SUBSET Seqs
  PROVE  OnGpu(S)' \subseteq OnGpu(S)
<1>1. plan # NoPlan /\ plan.to # GPU /\ CommitMove
  BY BlockOwner DEF HotInv
<1>2. ASSUME NEW s \in S, NEW i \in DOMAIN tiers'[s], tiers'[s][i] = GPU
      PROVE  i \in DOMAIN tiers[s] /\ tiers[s][i] = GPU
  <2>1. CASE s # plan.seq
    <3>1. tiers'[s] = tiers[s]
      BY <1>1, <2>1, MoveKeepsSize
    <3> QED BY <1>2, <3>1
  <2>2. CASE s = plan.seq
    <3>1. tiers'[s] = [j \in DOMAIN tiers[s] |-> IF j \in DOMAIN plan.dst THEN plan.to ELSE tiers[s][j]]
      BY <1>1, <2>2, MoveKeepsSize
    <3> QED BY <1>1, <1>2, <3>1
  <2> QED BY <2>1, <2>2
<1> QED BY <1>2, OnGpuShrinks

LEMMA RestorableKept ==
  ASSUME TypeOK, TypeOK', Restorable, NEW Q \in SUBSET Seqs, NEW R \in SUBSET Q,
         Q = ToSet(swapped), R = ToSet(swapped)',
         \A s \in R : tokens'[s] = tokens[s] /\ Len(table'[s]) = Len(table[s]),
         \A S \in SUBSET R : OnGpu(S)' \subseteq OnGpu(S)
  PROVE  Restorable'
<1> SUFFICES ASSUME NEW S \in SUBSET R, S # {} PROVE \E s \in S : FitsBeside(S \ {s}, s)'
  BY DEF Restorable
<1>1. PICK s \in S : FitsBeside(S \ {s}, s)
  BY DEF Restorable
<1>2. FitsBeside(S \ {s}, s)'
  <2>1. PICK P : P = S \ {s}
    OBVIOUS
  <2>2. P \in SUBSET Seqs /\ P \in SUBSET R /\ s \in Seqs /\ FitsBeside(P, s)
    BY <1>1, <2>1
  <2>3. FitsBeside(P, s)'
    BY <2>2, FitsKept
  <2> QED BY <2>1, <2>3
<1> QED BY <1>2

LEMMA OnGpuFitsNext ==
  ASSUME NEW S \in SUBSET Seqs, NEW s \in Seqs, s \notin S
  PROVE  IndInv' /\ Unshared' /\ Missing(s)' = {} =>
           /\ Cardinality(OnGpu(S)') + Size(s)' <= Capacity(GPU) - FreeCount(GPU)'
           /\ Cardinality(OnGpu(S)') \in Nat /\ Size(s)' \in Nat /\ FreeCount(GPU)' \in Nat
           /\ FreeCount(GPU)' = 0 <=> FreeIn(GPU)' = {}
<1> DEFINE Beside == /\ Cardinality(OnGpu(S)) + Size(s) <= Capacity(GPU) - FreeCount(GPU)
                     /\ Cardinality(OnGpu(S)) \in Nat /\ Size(s) \in Nat /\ FreeCount(GPU) \in Nat
                     /\ FreeCount(GPU) = 0 <=> FreeIn(GPU) = {}
           Whole == Missing(s) = {}
<1>1. IndInv /\ Unshared /\ Whole => Beside
  <2> SUFFICES ASSUME IndInv, Unshared, Whole PROVE Beside
    OBVIOUS
  <2>1. TypeOK /\ TagsAgree
    BY DEF IndInv
  <2>2. PICK m \in Nat, k \in Nat : m = Cardinality(OnGpu(S)) /\ k = Cardinality(OnGpu({s}))
    BY <2>1, OnGpuCount
  <2>3. Cardinality(OnGpu(S \cup {s})) = m + k
    BY <2>1, <2>2, OnGpuAdd
  <2>4. Cardinality(OnGpu(S \cup {s})) <= Capacity(GPU) - FreeCount(GPU)
    <3>1. S \cup {s} \in SUBSET Seqs
      OBVIOUS
    <3> QED BY <3>1, OnGpuFits
  <2>5. Cardinality(Missing(s)) = 0
    BY FS_EmptySet
  <2>6. Size(s) = k + 0
    BY <2>1, <2>2, <2>5, SizeSplit
  <2> QED BY <2>1, <2>2, <2>3, <2>4, <2>6, FreeGpu, GpuSize
<1>2. (IndInv /\ Unshared /\ Whole)' => Beside'
  BY <1>1, PTL
<1>3. Capacity(GPU)' = Capacity(GPU)
  BY DEF Capacity
<1> QED BY <1>2, <1>3

LEMMA FitsFewer ==
  ASSUME TypeOK, NEW Q \in SUBSET Seqs, NEW S \in SUBSET Q, NEW s \in Seqs, FitsBeside(Q, s)
  PROVE  FitsBeside(S, s)
<1>1. PICK m \in Nat : m = Cardinality(OnGpu(Q)) /\ IsFiniteSet(OnGpu(Q))
  BY OnGpuCount
<1>2. OnGpu(S) \in SUBSET OnGpu(Q)
  BY DEF OnGpu, BlocksOn
<1>3. Cardinality(OnGpu(S)) \in Nat /\ Cardinality(OnGpu(S)) <= m
  BY <1>1, <1>2, FS_Subset, FS_CardinalityType
<1>4. Size(s) \in Nat /\ Extra(s) \in {0, 1} /\ Capacity(GPU) \in Nat
  BY SizeType, GpuSize DEF Extra
<1>5. m + Size(s) + Extra(s) <= Capacity(GPU)
  BY <1>1 DEF FitsBeside
<1>6. Cardinality(OnGpu(S)) + Size(s) + Extra(s) <= Capacity(GPU)
  BY <1>3, <1>4, <1>5
<1> QED BY <1>6 DEF FitsBeside

LEMMA RestorableDown ==
  ASSUME IndInv, HotInv, TypeOK', Restorable, HotVictimInv, CommitBlock
  PROVE  Restorable'
<1>t. HotTypeOK /\ HotCallsInv /\ HotPlanInv /\ HomeInv /\ QueueTypes /\ TypeOK
  BY DEF HotInv, HotTypeOK, IndInv
<1>1. CommitMove /\ plan # NoPlan
  BY <1>t, BlockOwner
<1>2. PICK Q \in SUBSET Seqs : Q = ToSet(swapped)
  BY <1>t, SetOfSeq DEF QueueTypes
<1>3. tokens' = tokens /\ \A s \in Seqs : Len(table'[s]) = Len(table[s])
  BY <1>1, MoveKeepsSize
<1>4. \A S \in SUBSET Q : OnGpu(S)' \subseteq OnGpu(S)
  BY DemotionShrinks
<1>5. CASE swapped' = swapped
  BY <1>t, <1>2, <1>3, <1>4, <1>5, RestorableKept
<1>6. CASE victim \in Seqs /\ victim # NoSeq /\ swapped' = Append(swapped, victim)
  <2>1. PICK v \in Seqs : v = victim
    BY <1>6
  <2>2. ToSet(swapped)' = Q \cup {v}
    BY <1>t, <1>2, <1>6, <2>1, AppendSet DEF QueueTypes
  <2>3. FitsBeside(Q, v)
    BY <1>1, <1>2, <1>6, <2>1 DEF HotVictimInv, Blocked
  <2> SUFFICES ASSUME NEW S \in SUBSET (Q \cup {v}), S # {} PROVE \E s \in S : FitsBeside(S \ {s}, s)'
    BY <2>2 DEF Restorable
  <2>4. CASE v \in S
    <3>1. PICK P : P = S \ {v}
      OBVIOUS
    <3>2. P \in SUBSET Q /\ P \in SUBSET Seqs
      BY <3>1
    <3>3. FitsBeside(P, v)
      BY <1>t, <2>3, <3>2, FitsFewer
    <3>4. FitsBeside(P, v)'
      BY <1>t, <1>3, <1>4, <3>2, <3>3, FitsKept
    <3> QED BY <2>4, <3>1, <3>4
  <2>5. CASE v \notin S
    <3>1. S \in SUBSET Q
      BY <2>5
    <3>2. PICK s \in S : FitsBeside(S \ {s}, s)
      BY <1>2, <3>1 DEF Restorable
    <3>3. PICK P : P = S \ {s}
      OBVIOUS
    <3>4. P \in SUBSET Q /\ P \in SUBSET Seqs /\ s \in Seqs /\ FitsBeside(P, s)
      BY <3>1, <3>2, <3>3
    <3>5. FitsBeside(P, s)'
      BY <1>t, <1>3, <1>4, <3>4, FitsKept
    <3> QED BY <3>3, <3>5
  <2> QED BY <2>4, <2>5
<1> QED BY <1>t, <1>5, <1>6, BlockOwner

(* A restored request has its blocks and, if it needs one, the next, so it *)
(* is the one that can be restored of any requests it is among.            *)
LEMMA RestorableUp ==
  ASSUME IndInv, HotInv, IndInv', HotInv', Unshared', Restorable, HotRestoreInv, CommitRestore
  PROVE  Restorable'
<1>t. HotTypeOK /\ HotTodoInv /\ HotPlanInv /\ HomeInv /\ QueueTypes /\ TypeOK /\ TypeOK'
  BY DEF HotInv, HotTypeOK, IndInv
<1>1. /\ CommitMove /\ plan # NoPlan /\ plan.to = GPU /\ plan.seq = Head(todo)
      /\ DOMAIN plan.dst = Missing(plan.seq)
  BY <1>t, RestoredOwner
<1>2. PICK v \in Seqs : v = plan.seq
  BY <1>t, <1>1, RestoredOwner
<1>3. /\ tokens' = tokens /\ \A s \in Seqs : Len(table'[s]) = Len(table[s])
      /\ \A s \in Seqs : s # v => tiers'[s] = tiers[s]
      /\ tiers'[v] = [i \in DOMAIN tiers[v] |-> IF i \in DOMAIN plan.dst THEN GPU ELSE tiers[v][i]]
  BY <1>1, <1>2, MoveKeepsSize
<1>4. Missing(v)' = {}
  BY <1>1, <1>2, <1>3 DEF Missing
<1>5. PICK Q \in SUBSET Seqs : Q = ToSet(swapped)
  BY <1>t, SetOfSeq DEF QueueTypes
<1>6. ToSet(swapped)' = Q
  BY <1>5 DEF CommitRestore, queues
<1> SUFFICES ASSUME NEW S \in SUBSET Q, S # {} PROVE \E s \in S : FitsBeside(S \ {s}, s)'
  BY <1>6 DEF Restorable
<1>7. CASE v \in S
  <2>1. PICK P : P = S \ {v}
    OBVIOUS
  <2>2. P \in SUBSET Seqs /\ v \notin P
    BY <2>1
  <2>3. /\ Cardinality(OnGpu(P)') + Size(v)' <= Capacity(GPU) - FreeCount(GPU)'
        /\ Cardinality(OnGpu(P)') \in Nat /\ Size(v)' \in Nat /\ FreeCount(GPU)' \in Nat
        /\ FreeCount(GPU)' = 0 <=> FreeIn(GPU)' = {}
    BY <1>t, <1>4, <2>2, OnGpuFitsNext
  <2>4. Extra(v)' <= FreeCount(GPU)' /\ Extra(v)' \in {0, 1}
    <3>1. Extra(v)' = Extra(v)
      BY <1>3 DEF Extra, NeedsBlock
    <3>2. Extra(v) = 1 => FreeIn(GPU) # {}
      BY <1>1, <1>2 DEF HotRestoreInv, CanAppend, Extra
    <3>3. FreeIn(GPU) \subseteq FreeIn(GPU)'
      BY <1>1 DEF CommitMove, FreeIn
    <3>4. Extra(v) \in {0, 1}
      BY DEF Extra
    <3> QED BY <2>3, <3>1, <3>2, <3>3, <3>4
  <2>5. Cardinality(OnGpu(P)') + Size(v)' + Extra(v)' <= Capacity(GPU)'
    <3>1. Capacity(GPU)' = Capacity(GPU)
      BY DEF Capacity
    <3> QED BY <2>3, <2>4, <3>1, GpuSize
  <2>6. FitsBeside(P, v)'
    BY <2>5 DEF FitsBeside
  <2> QED BY <1>7, <2>1, <2>6
<1>8. CASE v \notin S
  <2>1. PICK s \in S : FitsBeside(S \ {s}, s)
    BY <1>5 DEF Restorable
  <2>2. PICK P : P = S \ {s}
    OBVIOUS
  <2>3. P \in SUBSET Seqs /\ s \in Seqs /\ s # v /\ FitsBeside(P, s)
    BY <1>8, <2>1, <2>2
  <2>4. OnGpu(P)' \subseteq OnGpu(P)
    <3>1. \A r \in P : tiers'[r] = tiers[r]
      BY <1>3, <1>8, <2>2, <2>3
    <3> QED BY <3>1, OnGpuShrinks
  <2>5. FitsBeside(P, s)'
    BY <1>t, <1>3, <2>3, <2>4, FitsKept
  <2> QED BY <2>2, <2>5
<1> QED BY <1>7, <1>8

LEMMA RestorableStep ==
  ASSUME IndInv, HotInv, IndInv', HotInv', Unshared', Restorable, HotVictimInv, HotRestoreInv,
         SharedSteps \/ OwnSteps \/ FailTransfer
  PROVE  Restorable'
<1>t. /\ HotTypeOK /\ HotTodoInv /\ HomeInv /\ QueueTypes /\ TypeOK /\ TypeOK'
  BY DEF HotInv, HotTypeOK, IndInv
<1>0. PICK Q \in SUBSET Seqs : Q = ToSet(swapped)
  BY <1>t, SetOfSeq DEF QueueTypes
<1>1. CASE CommitBlock \/ CommitRestore
  BY <1>t, <1>1, RestorableDown, RestorableUp
<1>2. CASE RunAgain
  <2>1. PICK h \in Seqs : h = Head(todo)
    BY <1>t, <1>2, RunAgainFacts
  <2>2. /\ phase = "restore" /\ swapped' \in Without(swapped, h) /\ tokens' = tokens
    BY <1>t, <1>2, <2>1, RunAgainFacts
  <2>3. PICK b \in Block : Resume(h, b)
    BY <1>t, <1>2, <2>1, RunAgainFacts
  <2>4. PICK R \in SUBSET Q : R = ToSet(swapped)' /\ R = Q \ {h}
    BY <1>t, <1>0, <2>2, WithoutSet DEF QueueTypes, HomeInv
  <2>5. /\ table' = [table EXCEPT ![h] = Append(@, b)] \/ table' = table
        /\ tiers' = [tiers EXCEPT ![h] = Append(@, GPU)] \/ tiers' = tiers
    BY <2>3 DEF Resume, MayAppend
  <2>6. \A s \in R : table'[s] = table[s] /\ tiers'[s] = tiers[s]
    BY <1>t, <2>4, <2>5 DEF TypeOK
  <2>7. \A S \in SUBSET R : OnGpu(S)' \subseteq OnGpu(S)
    BY <2>6, OnGpuShrinks
  <2>8. \A s \in R : tokens'[s] = tokens[s] /\ Len(table'[s]) = Len(table[s])
    BY <2>2, <2>6
  <2> QED BY <1>t, <1>0, <2>4, <2>7, <2>8, RestorableKept
<1>3. CASE ~ CommitBlock /\ ~ CommitRestore /\ ~ RunAgain
  <2>1. /\ swapped' = swapped
        /\ \A s \in Q : tokens'[s] = tokens[s] /\ table'[s] = table[s] /\ tiers'[s] = tiers[s]
    BY <1>0, <1>3, SwappedSame
  <2>2. \A S \in SUBSET Q : OnGpu(S)' \subseteq OnGpu(S)
    BY <2>1, OnGpuShrinks
  <2>3. Q = ToSet(swapped)' /\ \A s \in Q : tokens'[s] = tokens[s] /\ Len(table'[s]) = Len(table[s])
    BY <1>0, <2>1
  <2> QED BY <1>t, <1>0, <2>2, <2>3, RestorableKept
<1> QED BY <1>1, <1>2, <1>3

(* The blocks a restore takes leave the one that the request needs next.   *)
LEMMA RestoreStep ==
  ASSUME IndInv, HotInv, HotRestoreInv, SharedSteps \/ OwnSteps \/ FailTransfer
  PROVE  HotRestoreInv'
<1>t. HotTypeOK /\ HotCallsInv /\ HotTodoInv /\ HotPlanInv /\ QueueTypes /\ TypeOK
  BY DEF HotInv, HotTypeOK, IndInv
<1>1. CASE RestoreBlocks
  <2>1. PICK s \in Seqs : s = Head(todo)
    <3>1. phase = "restore"
      BY <1>1 DEF RestoreBlocks, InRestore
    <3> QED BY <1>t, <3>1, HeadTailSet DEF HotTodoInv, QueueTypes
  <2>2. PICK dst \in [Missing(s) -> FreeIn(GPU)] : PrepareMove(s, GPU, Missing(s), dst)
    BY <1>1, <2>1 DEF RestoreBlocks
  <2>3. plan'.seq = s /\ free' = free \ ImageOf(dst) /\ tokens' = tokens
    BY <2>2 DEF PrepareMove, StartPlan, PopTargets, seqVars
  <2>4. FreeCount(GPU) >= Cardinality(Missing(s)) + Extra(s)
    BY <1>1, <2>1 DEF RestoreBlocks, FitsGpu, Required
  <2>5. Cardinality(Missing(s)) \in Nat /\ IsFiniteSet(Missing(s))
    BY <1>t, RequiredType
  <2>6. IsFiniteSet(ImageOf(dst)) /\ Cardinality(ImageOf(dst)) <= Cardinality(Missing(s))
        /\ Cardinality(ImageOf(dst)) \in Nat
    <3>1. dst \in Surjection(Missing(s), ImageOf(dst))
      BY DEF Surjection, ImageOf
    <3> QED BY <2>5, <3>1, FS_Surjection, FS_CardinalityType
  <2>7. NeedsBlock(s) => FreeIn(GPU)' # {}
    <3> SUFFICES ASSUME NeedsBlock(s), FreeIn(GPU)' = {} PROVE FALSE
      OBVIOUS
    <3>1. FreeIn(GPU) \in SUBSET ImageOf(dst)
      BY <2>3 DEF FreeIn
    <3>2. FreeCount(GPU) <= Cardinality(ImageOf(dst))
      BY <2>6, <3>1, FS_Subset DEF FreeCount
    <3>3. Extra(s) = 1 /\ FreeCount(GPU) \in Nat
      BY <1>t, FreeGpu DEF Extra
    <3> QED BY <2>4, <2>5, <2>6, <3>2, <3>3
  <2>8. NeedsBlock(s)' = NeedsBlock(s)
    BY <2>3 DEF NeedsBlock
  <2> QED BY <2>3, <2>7, <2>8 DEF HotRestoreInv, CanAppend
<1>2. CASE MoveBlock
  <2>1. /\ calls # << >> /\ Top.op = "demote" /\ Top.to # << >>
        /\ \E dst \in [{Top.index} -> FreeIn(Head(Top.to))] :
             PrepareMove(Top.seq, Head(Top.to), {Top.index}, dst)
    BY <1>2 DEF MoveBlock, InDemote
  <2>2. plan'.to = Head(Top.to)
    BY <2>1 DEF PrepareMove, StartPlan
  <2>3. Top \in DemoteCall /\ calls \in Seq(HotPending)
    BY <1>t, <2>1, HotTop DEF HotTypeOK, HotPending
  <2>4. Head(Top.to) \in ToSet(Top.to)
    BY <2>1, <2>3, HeadTailSet DEF DemoteCall
  <2>5. GPU \notin ToSet(Top.to)
    <3>1. 1 \in DOMAIN calls /\ Top = calls[1]
      BY <2>1, <2>3 DEF Top
    <3>2. FrameOk(calls, 1)
      BY <1>t, <3>1 DEF HotCallsInv
    <3> QED BY <2>1, <3>1, <3>2 DEF FrameOk
  <2> QED BY <2>2, <2>4, <2>5 DEF HotRestoreInv
<1>3. CASE Copy
  <2>1. /\ plan # NoPlan /\ plan' = [plan EXCEPT !.copied = TRUE]
        /\ UNCHANGED <<seqVars, poolVars>>
    BY <1>3 DEF Copy, CopyBlocks
  <2>2. plan'.to = plan.to /\ plan'.seq = plan.seq
    <3>1. plan.op = "move"
      BY <1>t, <2>1 DEF HotPlanInv
    <3> QED BY <2>1
  <2> QED BY <2>1, <2>2 DEF HotRestoreInv, CanAppend, NeedsBlock, FreeIn, seqVars, poolVars
<1>4. CASE ~ RestoreBlocks /\ ~ MoveBlock /\ ~ Copy
  <2>1. plan' = NoPlan
    BY <1>t, <1>4, HotOtherPlans
  <2> QED BY <2>1 DEF HotRestoreInv
<1> QED BY <1>1, <1>2, <1>3, <1>4

(* A request that runs beside another one can come back first.             *)
LEMMA VictimBeside ==
  ASSUME IndInv, Unshared, NEW Q \in SUBSET Seqs, NEW v \in Seqs, NEW o \in Seqs,
         v \notin Q, o \notin Q, o # v, status[v] = "running", status[o] = "running"
  PROVE  FitsBeside(Q, v)
<1>t. TypeOK /\ TagsAgree
  BY DEF IndInv
<1>1. PICK m \in Nat, k \in Nat, l \in Nat :
        m = Cardinality(OnGpu(Q)) /\ k = Cardinality(OnGpu({v})) /\ l = Cardinality(OnGpu({o}))
  BY <1>t, OnGpuCount
<1>2. Cardinality(OnGpu(Q \cup {v})) = m + k
  BY <1>t, <1>1, OnGpuAdd
<1>3. PICK R \in SUBSET Seqs : R = Q \cup {v}
  OBVIOUS
<1>4. o \notin R
  BY <1>3
<1>5. Cardinality(OnGpu(R \cup {o})) = (m + k) + l
  BY <1>t, <1>1, <1>2, <1>3, <1>4, OnGpuAdd
<1>6. Cardinality(OnGpu(R \cup {o})) <= Capacity(GPU) - FreeCount(GPU)
  <2>1. R \cup {o} \in SUBSET Seqs
    OBVIOUS
  <2> QED BY <2>1, OnGpuFits
<1>7. Size(v) = k
  <2>1. Missing(v) = {}
    BY RunningOnGpu DEF AllOn, Missing
  <2>2. Cardinality(Missing(v)) = 0
    BY <2>1, FS_EmptySet
  <2>3. Size(v) = Cardinality(OnGpu({v})) + Cardinality(Missing(v))
    BY <1>t, SizeSplit
  <2>4. Size(v) = k + 0
    BY <1>1, <2>2, <2>3
  <2> QED BY <2>4
<1>8. l # 0
  <2>1. AllOn(o, GPU) /\ \E b \in GpuBlocks : b \in Held(o)
    BY RunningOnGpu
  <2>2. PICK i \in DOMAIN table[o] : TRUE
    BY <2>1 DEF Held
  <2>3. i \in DOMAIN tiers[o] /\ tiers[o][i] = GPU
    BY <1>t, <2>1, <2>2 DEF TagsAgree, TagsOf, AllOn
  <2>4. OnGpu({o}) # {}
    BY <2>3, OnGpuPairs
  <2> QED BY <1>t, <1>1, <2>4, OnGpuCount, FS_EmptySet
<1>9. Extra(v) \in {0, 1} /\ FreeCount(GPU) \in Nat /\ Capacity(GPU) \in Nat
  BY <1>t, FreeGpu, GpuSize DEF Extra
<1>10. m + k + Extra(v) <= Capacity(GPU)
  BY <1>5, <1>6, <1>8, <1>9
<1> QED BY <1>1, <1>7, <1>10 DEF FitsBeside

(* While nothing can move down no transfer starts.                         *)
LEMMA BlockedStays ==
  ASSUME HotTypeOK, HotCallsInv, Blocked PROVE ~ MoveBlock
<1> SUFFICES ASSUME MoveBlock PROVE FALSE
  OBVIOUS
<1>1. /\ calls # << >> /\ Top.op = "demote" /\ Top.to # << >> /\ Budget(1)
      /\ FreeCount(Head(Top.to)) > 0
  BY DEF MoveBlock, InDemote
<1>2. calls \in Seq(HotPending) /\ Top \in DemoteCall
  BY <1>1, HotTop DEF HotTypeOK, HotPending
<1>3. Head(Top.to) \in ToSet(Top.to) /\ Head(Top.to) \in Tier
  BY <1>1, <1>2, HeadTailSet DEF DemoteCall
<1>4. GPU \notin ToSet(Top.to)
  <2>1. 1 \in DOMAIN calls /\ Top = calls[1]
    BY <1>1, <1>2 DEF Top
  <2>2. FrameOk(calls, 1)
    BY <2>1 DEF HotCallsInv
  <2> QED BY <1>1, <2>1, <2>2 DEF FrameOk
<1>5. PICK t \in Tier : t = Head(Top.to)
  BY <1>3
<1>6. FreeIn(t) # {}
  <2> SUFFICES ASSUME FreeIn(t) = {} PROVE FALSE
    OBVIOUS
  <2>1. FreeCount(t) = 0
    BY FS_EmptySet DEF FreeCount
  <2> QED BY <1>1, <1>5, <2>1
<1> QED BY <1>1, <1>3, <1>4, <1>5, <1>6 DEF Blocked, NothingFits

LEMMA BlockedSame ==
  ASSUME UNCHANGED <<plan, moved, free>>, Blocked PROVE Blocked'
BY DEF Blocked, NothingFits, Budget, FreeIn

(* Whoever is being preempted stays so only in the loop of preempt.        *)
LEMMA VictimSteps ==
  ASSUME HotTypeOK, HotCallsInv, HotTodoInv, HotPlanInv, victim' # NoSeq,
         SharedSteps \/ OwnSteps \/ FailTransfer, ~ PreemptForGpu, ~ TakeBlock
  PROVE  /\ victim' = victim /\ calls # << >>
         /\ NextBlock \/ EndLoop \/ LookBelow \/ LookFurther \/ MoveBlock \/ NotMoved \/ Copy \/ CommitBlock
<1>h. calls = << >> => victim = NoSeq
  BY DEF HotCallsInv
<1>n. phase \notin {"demote", "gpu", "restore", "decode"} => calls = << >>
  BY DEF HotCallsInv
<1>1. CASE SharedSteps
  <2>1. ~ (StartStep \/ ResetStats \/ \E s \in Seqs : Arrive(s))
    BY <1>h, <1>n DEF StartStep, ResetStats, Arrive, control
  <2>2. ~ PrefillPhase
    BY <1>h, <1>n DEF PrefillPhase, AdmitNew, AdmitMore, Scheduled, PrefillTooLarge, Raise, EndPrefill
  <2>3. ~ (TakeRunning \/ DecodeCur \/ DecodeTooLarge \/ EndDecode)
    BY <1>h DEF TakeRunning, DecodeCur, DecodeTooLarge, EndDecode, InDecode, Raise
  <2>4. ~ Model
    BY <1>h, <1>n DEF Model, RunNext, EndRun, PostNext, EndStep
  <2> QED BY <1>1, <2>1, <2>2, <2>3, <2>4 DEF SharedSteps
<1>2. CASE HotWatermarks
  <2>1. ~ CoolTier /\ ~ CoolGpu /\ ~ GpuPass /\ ~ EndCooling
    BY <1>h, <1>n DEF CoolTier, CoolGpu, GpuPass, EndCooling
  <2>2. ~ GpuStuck
    <3> SUFFICES ASSUME GpuStuck PROVE FALSE
      OBVIOUS
    <3>1. calls # << >> /\ Top.op = "gpu" /\ victim' = victim
      BY DEF GpuStuck, InLoop
    <3>2. Len(calls) = 1 /\ calls[1] = Top
      BY <3>1, OuterLoop DEF HotTypeOK, Top
    <3> QED BY <3>1, <3>2 DEF HotCallsInv
  <2> QED BY <1>2, <2>1, <2>2 DEF HotWatermarks
<1>3. CASE HotTargets
  <2>1. CASE NextBlock \/ EndLoop \/ LookBelow \/ LookFurther \/ NotMoved
    BY <2>1 DEF NextBlock, EndLoop, LookBelow, LookFurther, NotMoved, InLoop, InDemote
  <2>2. CASE MoveBlock
    BY <2>2 DEF MoveBlock, InDemote, schedVars, control
  <2>3. CASE Copy
    BY <1>h, <2>3 DEF Copy, schedVars, control
  <2>4. CASE CommitBlock
    <3>1. calls # << >> /\ (victim' = NoSeq \/ victim' = victim)
      BY <2>4 DEF CommitBlock
    <3> QED BY <2>4, <3>1
  <2> QED BY <1>3, <2>1, <2>2, <2>3, <2>4 DEF HotTargets
<1>4. CASE HotSwapIn
  <2>1. ~ LookAtSwapped /\ ~ PassOver /\ ~ RestoreBlocks /\ ~ CommitRestore /\ ~ RunAgain
    BY <1>h, <1>n DEF LookAtSwapped, PassOver, RestoreBlocks, CommitRestore, RunAgain, InRestore,
       schedVars, control
  <2>2. ~ EndHotSwapIn /\ ~ Stuck
    BY <1>h, <1>n DEF EndHotSwapIn, Stuck, NextTooLarge, HotSwapInDone, InRestore, Raise
  <2> QED BY <1>4, <2>1, <2>2 DEF HotSwapIn
<1>5. CASE ThrowAway \/ FailTransfer
  BY <1>5 DEF ThrowAway, FailTransfer, Raise
<1> QED BY <1>1, <1>2, <1>3, <1>4, <1>5 DEF OwnSteps

(* A request preempted for another one, or while the batch holds one.      *)
LEMMA VictimTaken ==
  ASSUME IndInv, HotInv, Unshared, HotCooledInv, PreemptForGpu \/ TakeBlock
  PROVE  HotVictimInv'
<1>t. /\ HotTypeOK /\ HotCallsInv /\ HotTodoInv /\ HotPlanInv /\ HomeInv /\ QueueTypes
      /\ TypeOK
  BY DEF HotInv, HotTypeOK, IndInv
<1>0. phase # "raised" /\ UNCHANGED <<vars, swapped, moved>>
  <2>1. OwnSteps
    BY DEF OwnSteps, HotWatermarks
  <2> QED BY <1>t, <2>1, HotNeverRaised DEF PreemptForGpu, TakeBlock, step
<1>1. PICK Q \in SUBSET Seqs : Q = ToSet(swapped)
  BY <1>t, SetOfSeq DEF QueueTypes
<1>2. /\ ToSet(running) \cup ToSet(TakenOut) \cup Handled = WithStatus("running")
      /\ (ToSet(running) \cup ToSet(TakenOut)) \cap Handled = {}
      /\ Q = WithStatus("swapped")
  BY <1>t, <1>0, <1>1 DEF HomeInv
<1>w. ASSUME NEW v \in Seqs, NEW o \in Seqs, victim' = v, o # v,
             v \in WithStatus("running"), o \in WithStatus("running")
      PROVE  HotVictimInv'
  <2>1. status[v] = "running" /\ status[o] = "running" /\ v \notin Q /\ o \notin Q
    BY <1>2, <1>w DEF WithStatus
  <2>2. FitsBeside(Q, v)
    BY <1>t, <1>w, <2>1, VictimBeside
  <2>3. FitsBeside(Q, v)'
    BY <1>0, <2>2 DEF FitsBeside, OnGpu, BlocksOn, Size, Extra, NeedsBlock, Capacity, vars, seqVars, placeVars
  <2>4. ToSet(swapped)' = Q
    BY <1>0, <1>1
  <2> QED BY <1>w, <2>3, <2>4 DEF HotVictimInv
<1>3. CASE PreemptForGpu
  <2>1. Len(running) > 1 /\ victim' \in ToSet(running)
    BY <1>3 DEF PreemptForGpu, Oldest
  <2>2. PICK v \in Seqs : v = victim'
    BY <1>t, <2>1, SetOfSeq DEF QueueTypes
  <2>3. running \in Seq(Seqs) /\ Injective(running) /\ Len(running) \in Nat
    BY <1>t, <1>0 DEF QueueTypes, HomeInv
  <2>4. 1 \in DOMAIN running /\ 2 \in DOMAIN running
    BY <2>1, <2>3
  <2>5. PICK o \in ToSet(running) : o # v
    <3>1. running[1] # running[2] /\ running[1] \in ToSet(running) /\ running[2] \in ToSet(running)
      BY <2>3, <2>4 DEF Injective, ToSet
    <3> QED BY <3>1
  <2>6. o \in Seqs
    BY <2>3, <2>5, SetOfSeq
  <2> QED BY <1>2, <1>w, <2>1, <2>2, <2>5, <2>6
<1>4. CASE TakeBlock /\ running # << >>
  <2>1. victim' \in ToSet(running) /\ cur # NoSeq
    BY <1>4 DEF TakeBlock, Oldest
  <2>2. PICK v \in Seqs : v = victim'
    BY <1>t, <2>1, SetOfSeq DEF QueueTypes
  <2>3. cur \in Seqs /\ cur \in Handled
    BY <1>t, <2>1 DEF QueueTypes, Handled
  <2> QED BY <1>2, <1>w, <2>1, <2>2, <2>3
<1>5. CASE TakeBlock /\ running = << >> /\ batch # << >>
  <2>1. victim' = cur /\ cur # NoSeq /\ phase = "decode"
    BY <1>5 DEF TakeBlock, InDecode
  <2>2. cur \in Seqs /\ cur \in Handled
    BY <1>t, <2>1 DEF QueueTypes, Handled
  <2>3. ToSet(batch) # {} /\ ToSet(batch) \subseteq Seqs /\ TakenOut = batch
    BY <1>t, <1>5, <2>1, SetOfSeq DEF QueueTypes, TakenOut
  <2>4. PICK o \in ToSet(batch) : TRUE
    BY <2>3
  <2> QED BY <1>2, <1>w, <2>1, <2>2, <2>3, <2>4
<1>6. CASE TakeBlock /\ running = << >> /\ batch = << >>
  <2>1. /\ victim' = cur /\ cur # NoSeq /\ phase = "decode" /\ ~ CanAppend(cur)
        /\ ~ TooManyBlocks(Size(cur) + 1)
    BY <1>6 DEF TakeBlock, InDecode
  <2>2. PICK v \in Seqs : v = cur
    BY <1>t, <2>1 DEF QueueTypes
  <2>3. FreeIn(GPU) = {}
    BY <2>1 DEF CanAppend
  <2>4. Blocked \/ OnGpu(Q) = {}
    BY <1>1, <1>6, <2>1, <2>3 DEF HotCooledInv, Restoring
  <2>5. CASE Blocked
    <3>1. Blocked'
      BY <1>0, <2>5, BlockedSame DEF vars, poolVars
    <3> QED BY <3>1 DEF HotVictimInv
  <2>6. CASE OnGpu(Q) = {}
    <3>1. Cardinality(OnGpu(Q)) = 0
      BY <2>6, FS_EmptySet
    <3>2. Size(v) \in Nat /\ Extra(v) \in {0, 1} /\ Capacity(GPU) \in Nat
      BY <1>t, SizeType, GpuSize DEF Extra
    <3>3. Size(v) + 1 <= Capacity(GPU)
      BY <2>1, <2>2, <3>2 DEF TooManyBlocks
    <3>4. 0 + Size(v) + Extra(v) <= Capacity(GPU)
      BY <3>2, <3>3
    <3>5. FitsBeside(Q, v)
      BY <3>1, <3>4 DEF FitsBeside
    <3>6. FitsBeside(Q, v)'
      BY <1>0, <3>5 DEF FitsBeside, OnGpu, BlocksOn, Size, Extra, NeedsBlock, Capacity, vars, seqVars, placeVars
    <3>7. ToSet(swapped)' = Q /\ victim' = v
      BY <1>0, <1>1, <2>1, <2>2
    <3> QED BY <3>6, <3>7 DEF HotVictimInv
  <2> QED BY <2>4, <2>5, <2>6
<1> QED BY <1>3, <1>4, <1>5, <1>6

LEMMA VictimStep ==
  ASSUME IndInv, HotInv, IndInv', Unshared, HotVictimInv, HotCooledInv,
         SharedSteps \/ OwnSteps \/ FailTransfer
  PROVE  HotVictimInv'
<1>t. /\ HotTypeOK /\ HotCallsInv /\ HotTodoInv /\ HotPlanInv /\ HomeInv /\ QueueTypes
      /\ TypeOK /\ TypeOK'
  BY DEF HotInv, HotTypeOK, IndInv
<1>1. CASE PreemptForGpu \/ TakeBlock
  BY <1>1, VictimTaken
<1>2. CASE ~ PreemptForGpu /\ ~ TakeBlock
  <2> SUFFICES ASSUME victim' # NoSeq PROVE HotVictimInv'
    BY DEF HotVictimInv
  <2>1. /\ victim' = victim /\ calls # << >>
        /\ NextBlock \/ EndLoop \/ LookBelow \/ LookFurther \/ MoveBlock \/ NotMoved \/ Copy \/ CommitBlock
    BY <1>t, <1>2, VictimSteps
  <2>2. PICK v \in Seqs : v = victim
    BY <1>t, <2>1 DEF QueueTypes
  <2>3. PICK Q \in SUBSET Seqs : Q = ToSet(swapped)
    BY <1>t, SetOfSeq DEF QueueTypes
  <2>4. FitsBeside(Q, v) \/ Blocked
    BY <2>1, <2>2, <2>3 DEF HotVictimInv
  <2>k. ASSUME FitsBeside(Q, v), UNCHANGED <<swapped, tokens>>, Len(table'[v]) = Len(table[v]),
               OnGpu(Q)' \subseteq OnGpu(Q)
        PROVE  HotVictimInv'
    <3>1. FitsBeside(Q, v)'
      BY <1>t, <2>k, FitsKept
    <3>2. ToSet(swapped)' = Q /\ victim' = v
      BY <2>1, <2>2, <2>3, <2>k
    <3> QED BY <3>1, <3>2 DEF HotVictimInv
  <2>5. CASE NextBlock \/ EndLoop \/ LookBelow \/ LookFurther \/ NotMoved
    <3>1. UNCHANGED <<vars, queues, step>>
      BY <2>5 DEF NextBlock, EndLoop, LookBelow, LookFurther, NotMoved
    <3>2. UNCHANGED <<swapped, moved, plan, free, tokens, table, tiers>>
      BY <3>1 DEF vars, seqVars, placeVars, poolVars, queues, step
    <3>3. CASE Blocked
      BY <3>2, <3>3, BlockedSame DEF HotVictimInv
    <3>4. CASE FitsBeside(Q, v)
      <4>1. OnGpu(Q)' \subseteq OnGpu(Q)
        BY <3>2, OnGpuShrinks
      <4> QED BY <2>k, <3>2, <3>4, <4>1
    <3> QED BY <2>4, <3>3, <3>4
  <2>6. CASE MoveBlock \/ Copy
    <3>1. ~ Blocked
      BY <1>t, <2>6, BlockedStays DEF Blocked, Copy, CopyBlocks
    <3>2. UNCHANGED <<swapped, tokens, table, tiers>>
      BY <2>6 DEF MoveBlock, PrepareMove, Copy, CopyBlocks, schedVars, queues, seqVars, placeVars
    <3>3. OnGpu(Q)' \subseteq OnGpu(Q)
      BY <3>2, OnGpuShrinks
    <3> QED BY <2>4, <2>k, <3>1, <3>2, <3>3
  <2>7. CASE CommitBlock
    <3>1. plan # NoPlan /\ CommitMove /\ swapped' = swapped
      BY <1>t, <2>1, <2>7, BlockOwner
    <3>2. tokens' = tokens /\ Len(table'[v]) = Len(table[v])
      BY <3>1, MoveKeepsSize
    <3>3. OnGpu(Q)' \subseteq OnGpu(Q)
      BY <2>7, DemotionShrinks
    <3> QED BY <2>4, <2>k, <3>1, <3>2, <3>3 DEF Blocked
  <2> QED BY <2>1, <2>5, <2>6, <2>7
<1> QED BY <1>1, <1>2

-----------------------------------------------------------------------------
(* What _enforce_watermarks leaves behind.                                 *)
CooledPhases == {"cooled", "swapin", "restore", "prefill", "decode"}
LeftFree == FreeIn(GPU) # {} \/ Blocked \/ OnGpu(ToSet(swapped)) = {}

LEMMA BelowWatermark ==
  ASSUME TypeOK, GpuHeadroom, UsedIn(GPU) <= High[GPU]
  PROVE  FreeIn(GPU) # {}
<1>1. High[GPU] \in Nat
  BY SchedulerAssumption, GpuIsTier
<1>2. FreeCount(GPU) # 0
  <2>1. FreeCount(GPU) \in Nat /\ Capacity(GPU) \in Nat
    BY FreeGpu, GpuSize
  <2> QED BY <1>1, <2>1 DEF UsedIn, GpuHeadroom
<1> QED BY <1>2, FreeGpu

LEMMA LeftFreeSame ==
  ASSUME UNCHANGED <<vars, swapped, moved>>, LeftFree PROVE LeftFree'
<1>1. UNCHANGED <<plan, free, tiers>>
  BY DEF vars, poolVars, placeVars
<1>2. Blocked => Blocked'
  BY <1>1, BlockedSame
<1>3. FreeIn(GPU)' = FreeIn(GPU) /\ OnGpu(ToSet(swapped))' = OnGpu(ToSet(swapped))
  BY <1>1 DEF FreeIn, OnGpu, BlocksOn
<1> QED BY <1>2, <1>3 DEF LeftFree

(* The loop on the GPU ends below its watermark or because nothing moves.  *)
LEMMA CooledBegins ==
  ASSUME IndInv, HotInv, GpuHeadroom, HotGpuInv, CoolGpu \/ GpuPass \/ GpuStuck,
         phase' = "cooled"
  PROVE  LeftFree'
<1>t. HotTypeOK /\ HotCallsInv /\ HotPlanInv /\ TypeOK
  BY DEF HotInv, HotTypeOK, IndInv
<1>0. UNCHANGED <<vars, swapped, moved>>
  BY DEF CoolGpu, GpuPass, GpuStuck, queues, step
<1> SUFFICES LeftFree
  BY <1>0, LeftFreeSame
<1>p. calls = << >> /\ phase # "restore" => plan = NoPlan
  BY <1>t DEF HotPlanInv
<1>1. CASE CoolGpu
  <2>1. calls = << >> /\ phase = "demote" /\ (Len(CacheTiers) <= 1 \/ UsedIn(GPU) <= High[GPU])
    <3>1. Len(CacheTiers) \in Nat /\ UsedIn(GPU) \in Int /\ High[GPU] \in Nat
      BY <1>t, ConstantsAssumption, SchedulerAssumption, GpuIsTier, FreeGpu, GpuSize DEF UsedIn
    <3> QED BY <1>1, <3>1 DEF CoolGpu
  <2>2. CASE UsedIn(GPU) <= High[GPU]
    BY <1>t, <2>2, BelowWatermark DEF LeftFree
  <2>3. CASE Len(CacheTiers) <= 1
    <3>1. Tier \ {GPU} = {}
      <4>1. DOMAIN CacheTiers = 1 .. Len(CacheTiers) /\ Len(CacheTiers) \in Nat
        BY ConstantsAssumption
      <4>2. \A i \in DOMAIN CacheTiers : i = 1
        BY <2>3, <4>1
      <4> QED BY <4>2, ConstantsAssumption DEF Tier
    <3>2. plan = NoPlan
      BY <1>p, <2>1
    <3> QED BY <3>1, <3>2 DEF LeftFree, Blocked, NothingFits
  <2> QED BY <2>1, <2>2, <2>3
<1>2. CASE GpuPass
  <2>1. ~ (UsedIn(GPU) > Low[GPU])
    BY <1>2 DEF GpuPass
  <2>2. UsedIn(GPU) <= High[GPU]
    <3>1. UsedIn(GPU) \in Int /\ High[GPU] \in Nat /\ Low[GPU] \in Nat /\ Low[GPU] <= High[GPU]
      BY <1>t, SchedulerAssumption, GpuIsTier, FreeGpu, GpuSize DEF UsedIn
    <3> QED BY <2>1, <3>1
  <2> QED BY <1>t, <2>2, BelowWatermark DEF LeftFree
<1>3. CASE GpuStuck
  <2>1. /\ calls # << >> /\ Top.op \in {"gpu", "preempt"} /\ Top.items = << >> /\ phase = "gpu"
    BY <1>3 DEF GpuStuck, InLoop
  <2>2. Len(calls) = 1 /\ calls[1] = Top
    BY <1>t, <2>1, OuterLoop DEF Top
  <2>3. Blocked \/ HotGpuLoop(Top, {})
    BY <2>1, <2>2 DEF HotGpuInv
  <2>4. HotGpuLoop(Top, {}) => OnGpu(ToSet(swapped)) = {}
    <3>1. ToSet(<< >>) = {}
      BY DEF ToSet
    <3> QED BY <2>1, <3>1 DEF HotGpuLoop
  <2> QED BY <2>3, <2>4 DEF LeftFree
<1> QED BY <1>1, <1>2, <1>3

LEMMA RestoringFacts ==
  ASSUME HotInv, phase # "raised", Restoring
  PROVE  phase = "restore" /\ calls = << >> /\ ((plan # NoPlan /\ plan.to = GPU) \/ Missing(Head(todo)) = {})
<1>t. HotCallsInv /\ HotTodoInv /\ HotPlanInv /\ HotPlaceInv /\ QueueTypes
  BY DEF HotInv, HotTypeOK
<1>1. phase = "restore" /\ ((plan # NoPlan /\ plan.to = GPU) \/ Missing(Head(todo)) = {})
  BY DEF Restoring
<1>2. CASE plan # NoPlan /\ plan.to = GPU
  BY <1>t, <1>1, <1>2 DEF HotPlanInv
<1>3. CASE Missing(Head(todo)) = {}
  <2>1. Head(todo) \in ToSet(swapped)
    BY <1>t, <1>1, HeadTailSet DEF HotTodoInv, QueueTypes
  <2>2. InRestore
    BY <1>t, <1>3, <2>1 DEF HotPlaceInv
  <2> QED BY <1>1, <2>2 DEF InRestore
<1> QED BY <1>1, <1>2, <1>3

(* The steps after it that schedule nobody and restore no block.           *)
LEMMA CooledSteps ==
  ASSUME IndInv, HotInv, SharedSteps \/ OwnSteps \/ FailTransfer,
         ~ CoolGpu, ~ GpuPass, ~ GpuStuck,
         phase' \in CooledPhases, batch' = << >>, ~ Restoring'
  PROVE  /\ phase \in CooledPhases /\ batch = << >> /\ ~ Restoring
         /\ UNCHANGED <<vars, swapped, moved>> \/ MoveBlock \/ Copy \/ CommitBlock \/ ThrowAway
<1>t. /\ HotTypeOK /\ HotCallsInv /\ HotTodoInv /\ HotPlanInv /\ HotPlaceInv /\ QueueTypes
      /\ TypeOK
  BY DEF HotInv, HotTypeOK, IndInv
<1>0. phase # "raised"
  BY <1>t, HotNeverRaised
<1>n. phase \notin {"demote", "gpu", "restore", "decode"} => calls = << >>
  BY <1>t DEF HotCallsInv
<1>r. Restoring => /\ phase = "restore" /\ calls = << >>
                   /\ (plan # NoPlan /\ plan.to = GPU) \/ Missing(Head(todo)) = {}
  BY <1>0, RestoringFacts
<1>a. ASSUME NEW s, batch' = Append(batch, s) PROVE FALSE
  <2>1. PICK n \in Nat : n = Len(batch)
    BY <1>t DEF QueueTypes
  <2>2. Len(Append(batch, s)) = n + 1
    BY <1>t, <2>1 DEF QueueTypes, Append
  <2>3. Len(<< >>) = 0
    OBVIOUS
  <2>4. n + 1 = 0
    BY <1>a, <2>2, <2>3
  <2> QED BY <2>4
<1> USE DEF CooledPhases, queues, step, control
<1>1. CASE SharedSteps
  <2>1. ~ (StartStep \/ ResetStats \/ \E s \in Seqs : Arrive(s))
    BY DEF StartStep, ResetStats, Arrive
  <2>2. ~ AdmitNew /\ ~ AdmitMore /\ ~ PrefillTooLarge /\ ~ DecodeCur /\ ~ DecodeTooLarge /\ ~ EndDecode
    BY <1>a DEF AdmitNew, AdmitMore, Scheduled, BatchWith, PrefillTooLarge, DecodeCur, DecodeTooLarge,
       EndDecode, Raise
  <2>3. ~ Model
    BY DEF Model, RunNext, EndRun, PostNext, EndStep
  <2>4. EndPrefill \/ TakeRunning
    BY <1>1, <2>1, <2>2, <2>3 DEF SharedSteps, PrefillPhase
  <2>5. phase \in {"prefill", "decode"} /\ UNCHANGED <<vars, swapped, moved, batch>>
    BY <2>4 DEF EndPrefill, TakeRunning, InDecode
  <2> QED BY <1>r, <2>5
<1>2. CASE HotWatermarks
  <2>1. ~ CoolTier /\ ~ PreemptForGpu
    <3>1. PreemptForGpu => phase = "gpu"
      <4> SUFFICES ASSUME PreemptForGpu PROVE phase = "gpu"
        OBVIOUS
      <4>1. Outer("gpu")
        BY <1>t, OuterLoop DEF PreemptForGpu, InLoop
      <4> QED BY <4>1 DEF Outer
    <3> QED BY <3>1 DEF CoolTier, PreemptForGpu
  <2>2. EndCooling
    BY <1>2, <2>1 DEF HotWatermarks
  <2>3. phase = "cooled" /\ UNCHANGED <<vars, swapped, moved, batch>>
    BY <2>2 DEF EndCooling
  <2> QED BY <1>r, <2>3
<1>3. CASE NextBlock \/ EndLoop \/ LookBelow \/ LookFurther \/ NotMoved
  <2>1. calls # << >> /\ phase' = phase /\ UNCHANGED <<vars, swapped, moved, batch>>
    BY <1>3 DEF NextBlock, EndLoop, LookBelow, LookFurther, NotMoved, InLoop, InDemote
  <2> QED BY <1>r, <2>1
<1>4. CASE MoveBlock \/ CommitBlock
  <2>1. calls # << >> /\ phase' = phase /\ batch' = batch
    BY <1>4 DEF MoveBlock, InDemote, schedVars, CommitBlock
  <2> QED BY <1>4, <1>r, <2>1
<1>5. CASE Copy
  <2>1. /\ plan # NoPlan /\ plan' = [plan EXCEPT !.copied = TRUE] /\ UNCHANGED <<phase, batch>>
    BY <1>5 DEF Copy, CopyBlocks, schedVars
  <2>2. plan.op = "move"
    BY <1>t, <2>1 DEF HotPlanInv
  <2>3. plan'.to = plan.to /\ plan'.op = "move"
    BY <2>1, <2>2
  <2>4. plan' # NoPlan
    BY <2>3 DEF NoPlan
  <2>5. ~ Restoring
    <3> SUFFICES ASSUME Restoring PROVE FALSE
      OBVIOUS
    <3>1. phase = "restore" /\ calls = << >>
      BY <1>r
    <3>2. plan.to = GPU
      BY <1>t, <2>1, <3>1 DEF HotPlanInv
    <3> QED BY <2>1, <2>3, <2>4, <3>1, <3>2 DEF Restoring
  <2> QED BY <1>5, <2>1, <2>5
<1>6. CASE LookAtSwapped \/ PassOver \/ EndHotSwapIn
  <2>1. /\ UNCHANGED <<vars, swapped, moved, batch>>
        /\ phase = "swapin" \/ (phase = "restore" /\ plan = NoPlan /\ Missing(Head(todo)) # {})
    BY <1>6 DEF LookAtSwapped, PassOver, EndHotSwapIn, HotSwapInDone, InRestore
  <2> QED BY <1>r, <2>1
<1>7. CASE RestoreBlocks
  <2>1. PICK dst : PrepareMove(Head(todo), GPU, Missing(Head(todo)), dst)
    BY <1>7 DEF RestoreBlocks
  <2>2. plan'.op = "move" /\ plan'.to = GPU
    BY <2>1 DEF PrepareMove, StartPlan
  <2>3. phase' = "restore" /\ plan' # NoPlan
    BY <1>7, <2>2 DEF RestoreBlocks, InRestore, schedVars, NoPlan
  <2> QED BY <2>2, <2>3 DEF Restoring
<1>8. CASE CommitRestore
  <2>1. /\ phase = "restore" /\ plan.seq = Head(todo) /\ DOMAIN plan.dst = Missing(plan.seq)
        /\ CommitMove /\ plan.to = GPU /\ todo' = todo /\ phase' = phase
    BY <1>t, <1>8, RestoredOwner DEF CommitRestore
  <2>2. tiers'[plan.seq] = [i \in DOMAIN tiers[plan.seq] |->
                              IF i \in DOMAIN plan.dst THEN plan.to ELSE tiers[plan.seq][i]]
    BY <2>1, MoveKeepsSize
  <2>3. PICK s : s = plan.seq
    OBVIOUS
  <2>4. Missing(s)' = {}
    BY <2>1, <2>2, <2>3 DEF Missing
  <2>5. Head(todo)' = s
    BY <2>1, <2>3
  <2> QED BY <2>1, <2>4, <2>5 DEF Restoring
<1>9. CASE RunAgain \/ Stuck
  BY <1>9, <1>a DEF RunAgain, Stuck, Raise
<1>10. CASE TakeBlock
  <2>1. phase = "decode" /\ UNCHANGED <<vars, swapped, moved, batch>>
    BY <1>10 DEF TakeBlock, InDecode
  <2> QED BY <1>r, <2>1
<1>11. CASE ThrowAway
  <2>1. phase = "decode" /\ batch' = batch
    BY <1>11 DEF ThrowAway
  <2> QED BY <1>11, <1>r, <2>1
<1>12. CASE FailTransfer
  BY <1>12 DEF FailTransfer, Raise
<1> QED BY <1>1, <1>2, <1>3, <1>4, <1>5, <1>6, <1>7, <1>8, <1>9, <1>10, <1>11, <1>12
        DEF OwnSteps, HotTargets, HotSwapIn

LEMMA CooledStep ==
  ASSUME IndInv, HotInv, IndInv', Unshared, HotCooledInv, HotGpuInv, GpuHeadroom,
         SharedSteps \/ OwnSteps \/ FailTransfer
  PROVE  HotCooledInv'
<1>t. /\ HotTypeOK /\ HotCallsInv /\ HotTodoInv /\ HotPlanInv /\ HomeInv /\ QueueTypes
      /\ TypeOK
  BY DEF HotInv, HotTypeOK, IndInv
<1> SUFFICES ASSUME phase' \in CooledPhases, batch' = << >>, ~ Restoring' PROVE LeftFree'
  BY DEF HotCooledInv, LeftFree, CooledPhases
<1>1. CASE CoolGpu \/ GpuPass \/ GpuStuck
  <2>1. phase' = "cooled"
    BY <1>1 DEF CoolGpu, GpuPass, GpuStuck, CooledPhases
  <2> QED BY <1>1, <2>1, CooledBegins
<1>2. CASE ~ (CoolGpu \/ GpuPass \/ GpuStuck)
  <2>1. /\ phase \in CooledPhases /\ batch = << >> /\ ~ Restoring
        /\ UNCHANGED <<vars, swapped, moved>> \/ MoveBlock \/ Copy \/ CommitBlock \/ ThrowAway
    BY <1>2, CooledSteps
  <2>2. LeftFree
    BY <2>1 DEF HotCooledInv, LeftFree, CooledPhases
  <2>3. PICK Q \in SUBSET Seqs : Q = ToSet(swapped)
    BY <1>t, SetOfSeq DEF QueueTypes
  <2>4. CASE UNCHANGED <<vars, swapped, moved>>
    BY <2>2, <2>4, LeftFreeSame
  <2>5. CASE MoveBlock \/ Copy
    <3>1. ~ Blocked
      BY <1>t, <2>5, BlockedStays DEF Blocked, Copy, CopyBlocks
    <3>2. UNCHANGED <<swapped, tiers>>
      BY <2>5 DEF MoveBlock, PrepareMove, Copy, CopyBlocks, schedVars, queues, placeVars
    <3>3. FreeIn(GPU)' = FreeIn(GPU)
      <4>1. CASE Copy
        BY <4>1 DEF Copy, CopyBlocks, FreeIn, poolVars
      <4>2. CASE MoveBlock
        <5>1. PICK dst \in [{Top.index} -> FreeIn(Head(Top.to))] :
                PrepareMove(Top.seq, Head(Top.to), {Top.index}, dst)
          BY <4>2 DEF MoveBlock
        <5>2. free' = free \ ImageOf(dst) /\ plan'.to = Head(Top.to)
          BY <5>1 DEF PrepareMove, PopTargets, StartPlan
        <5>3. Head(Top.to) # GPU
          <6>1. calls # << >> /\ Top \in DemoteCall /\ Top.op = "demote" /\ Top.to # << >>
            BY <1>t, <4>2, HotTop DEF MoveBlock, InDemote, HotTypeOK, HotPending
          <6>2. FrameOk(calls, 1) /\ calls[1] = Top
            BY <1>t, <6>1 DEF HotTypeOK, HotCallsInv, Top
          <6>3. GPU \notin ToSet(Top.to)
            BY <6>1, <6>2 DEF FrameOk
          <6>4. Head(Top.to) \in ToSet(Top.to)
            BY <6>1, HeadTailSet DEF DemoteCall
          <6> QED BY <6>3, <6>4
        <5>4. \A b \in ImageOf(dst) : TierOf[b] # GPU
          BY <5>1, <5>3 DEF ImageOf, FreeIn
        <5> QED BY <5>2, <5>4 DEF FreeIn
      <4> QED BY <2>5, <4>1, <4>2
    <3>4. OnGpu(ToSet(swapped))' = OnGpu(ToSet(swapped))
      BY <3>2 DEF OnGpu, BlocksOn
    <3> QED BY <2>2, <3>1, <3>3, <3>4 DEF LeftFree
  <2>6. CASE CommitBlock
    <3>1. plan # NoPlan /\ CommitMove /\ DOMAIN plan.dst = {Top.index}
      BY <1>t, <2>6, BlockOwner
    <3>2. free' = free \cup Freed(ImageOf(plan.src))
      BY <3>1 DEF CommitMove
    <3>3. FreeIn(GPU) \subseteq FreeIn(GPU)'
      BY <3>2 DEF FreeIn
    <3>4. CASE swapped' = swapped
      <4>1. OnGpu(Q)' \subseteq OnGpu(Q)
        BY <2>6, DemotionShrinks
      <4>2. ToSet(swapped)' = Q
        BY <2>3, <3>4
      <4> QED BY <2>2, <2>3, <3>1, <3>3, <4>1, <4>2 DEF LeftFree, Blocked
    <3>5. CASE plan.seq = victim /\ victim \in Seqs /\ status[victim] = "running"
      <4>1. PICK v \in Seqs : v = victim /\ status[v] = "running"
        BY <3>5
      <4>2. Top.index \in DOMAIN table[v] /\ DOMAIN tiers[v] = DOMAIN table[v]
        BY <3>1, <3>5, <4>1, MoveKeepsSize
      <4>3. tiers[v][Top.index] = GPU
        BY <4>1, <4>2, RunningOnGpu DEF AllOn
      <4>4. PICK b \in Block : b = table[v][Top.index] /\ TierOf[b] = GPU /\ b \notin free
        BY <4>2, <4>3, OwnedBlocks
      <4>5. refCount[b] = 1
        <5>1. refCount[b] # 0 /\ refCount[b] \in Nat
          BY <1>t, <4>4 DEF IndInv, PoolPartition, TypeOK
        <5>2. refCount[b] <= 1
          BY <1>t DEF Unshared
        <5> QED BY <5>1, <5>2
      <4>6. b \in ImageOf(plan.src)
        <5>1. Top.index \in DOMAIN plan.dst /\ plan.src[Top.index] = b
          BY <3>1, <3>5, <4>1, <4>4 DEF CommitMove
        <5>2. DOMAIN plan.src = DOMAIN plan.dst
          BY <3>1 DEF IndInv, PlanSound
        <5> QED BY <5>1, <5>2 DEF ImageOf
      <4>7. b \in FreeIn(GPU)'
        BY <3>2, <4>4, <4>5, <4>6 DEF Freed, FreeIn
      <4> QED BY <4>7 DEF LeftFree
    <3> QED BY <1>t, <2>6, <3>4, <3>5, BlockOwner
  <2>7. CASE ThrowAway
    <3>1. /\ calls # << >> /\ Top.op = "preempt" /\ Recompute(victim)
          /\ swapped' = swapped /\ moved' = moved /\ plan = NoPlan
      BY <2>7 DEF ThrowAway, InLoop, step
    <3>2. PICK v \in Seqs : v = victim /\ status[v] = "running"
      <4>1. victim \in Seqs
        BY <1>t, <3>1, OuterLoop DEF Outer, QueueTypes
      <4> QED BY <3>1, <4>1 DEF Recompute
    <3>3. /\ free' = free \cup Freed(Held(v)) /\ plan' = NoPlan
          /\ tiers' = [tiers EXCEPT ![v] = << >>]
      BY <3>1, <3>2 DEF Recompute, Deallocate
    <3>4. Held(v) \subseteq GpuBlocks
      BY <3>2, RunningOnGpu, HeldSize
    <3>5. \A t \in Tier \ {GPU} : FreeIn(t)' = FreeIn(t)
      BY <3>3, <3>4 DEF FreeIn, Freed, GpuBlocks
    <3>6. FreeIn(GPU) \subseteq FreeIn(GPU)'
      BY <3>3 DEF FreeIn
    <3>7. Blocked => Blocked'
      <4>1. Budget(1)' = Budget(1)
        BY <3>1 DEF Budget
      <4> QED BY <3>3, <3>5, <4>1 DEF Blocked, NothingFits
    <3>8. OnGpu(Q)' \subseteq OnGpu(Q)
      <4>1. \A s \in Q : tiers'[s] = tiers[s] \/ tiers'[s] = << >>
        BY <1>t, <3>3 DEF TypeOK
      <4>2. \A i \in DOMAIN << >> : FALSE
        OBVIOUS
      <4> QED BY <4>1, <4>2, OnGpuShrinks
    <3>9. ToSet(swapped)' = Q
      BY <2>3, <3>1
    <3> QED BY <2>2, <2>3, <3>6, <3>7, <3>8, <3>9 DEF LeftFree
  <2> QED BY <2>1, <2>4, <2>5, <2>6, <2>7
<1> QED BY <1>1, <1>2

-----------------------------------------------------------------------------
(* The loop on the GPU.  Its stack ends with the loop and its call of      *)
(* _demote_block; the calls above them only move blocks further down.      *)
Deep(q, below) == \A i \in 1 .. Len(q) - 2 : Further(below, q[i])
SameEnd(r, q) == r[Len(r)] = q[Len(q)] /\ r[Len(r) - 1] = q[Len(q) - 1]

LEMMA DeepPop ==
  ASSUME NEW q \in Seq(HotPending), Len(q) > 2, NEW B, Deep(q, B)
  PROVE  LET r == Tail(q)
         IN r \in Seq(HotPending) /\ Len(r) = Len(q) - 1 /\ SameEnd(r, q) /\ Deep(r, B)
<1> DEFINE r == Tail(q)
<1>1. PICK n \in Nat : n = Len(q) /\ n > 2 /\ DOMAIN q = 1 .. n
  OBVIOUS
<1>2. r \in Seq(HotPending) /\ Len(r) = n - 1 /\ \A i \in 1 .. n - 1 : r[i] = q[i + 1]
  BY <1>1
<1> HIDE DEF r
<1>3. r[n - 1] = q[n] /\ r[n - 1 - 1] = q[n - 1]
  BY <1>1, <1>2
<1>4. Deep(r, B)
  <2>1. ASSUME NEW i \in 1 .. n - 1 - 2 PROVE Further(B, r[i])
    <3>1. i + 1 \in 1 .. n - 2 /\ r[i] = q[i + 1]
      BY <1>1, <1>2
    <3>2. Further(B, q[i + 1])
      BY <1>1, <3>1 DEF Deep
    <3> QED BY <3>1, <3>2
  <2> QED BY <1>2, <2>1 DEF Deep
<1> QED BY <1>1, <1>2, <1>3, <1>4 DEF r, SameEnd

LEMMA DeepTop ==
  ASSUME NEW q \in Seq(HotPending), Len(q) > 2, NEW B, Deep(q, B), NEW f \in HotPending, Further(B, f)
  PROVE  LET r == <<f>> \o Tail(q)
         IN r \in Seq(HotPending) /\ Len(r) = Len(q) /\ SameEnd(r, q) /\ Deep(r, B)
<1> DEFINE r == <<f>> \o Tail(q)
<1>1. PICK n \in Nat : n = Len(q) /\ n > 2 /\ DOMAIN q = 1 .. n
  OBVIOUS
<1>2. r \in Seq(HotPending) /\ Len(r) = n /\ r[1] = f /\ \A i \in 2 .. n : r[i] = q[i]
  BY <1>1
<1> HIDE DEF r
<1>3. r[n] = q[n] /\ r[n - 1] = q[n - 1]
  BY <1>1, <1>2
<1>4. Deep(r, B)
  <2>1. ASSUME NEW i \in 1 .. n - 2 PROVE Further(B, r[i])
    <3>1. i = 1 \/ i \in 2 .. n
      BY <1>1
    <3>2. Further(B, q[i])
      BY <1>1 DEF Deep
    <3> QED BY <1>2, <3>1, <3>2
  <2> QED BY <1>2, <2>1 DEF Deep
<1> QED BY <1>1, <1>2, <1>3, <1>4 DEF r, SameEnd

LEMMA DeepPush ==
  ASSUME NEW q \in Seq(HotPending), Len(q) > 1, NEW B, Deep(q, B), NEW f \in HotPending, Further(B, f)
  PROVE  LET r == <<f>> \o q
         IN r \in Seq(HotPending) /\ Len(r) = Len(q) + 1 /\ SameEnd(r, q) /\ Deep(r, B)
<1> DEFINE r == <<f>> \o q
<1>1. PICK n \in Nat : n = Len(q) /\ n > 1 /\ DOMAIN q = 1 .. n
  OBVIOUS
<1>2. r \in Seq(HotPending) /\ Len(r) = n + 1 /\ r[1] = f /\ \A i \in 1 .. n : r[i + 1] = q[i]
  BY <1>1
<1> HIDE DEF r
<1>3. r[n + 1] = q[n] /\ r[n + 1 - 1] = q[n - 1]
  <2>1. n - 1 \in 1 .. n /\ (n - 1) + 1 = n + 1 - 1
    BY <1>1
  <2> QED BY <1>1, <1>2, <2>1
<1>4. Deep(r, B)
  <2>1. ASSUME NEW i \in 1 .. n + 1 - 2 PROVE Further(B, r[i])
    <3>1. CASE i = 1
      BY <1>2, <3>1
    <3>2. CASE i # 1
      <4>1. i - 1 \in 1 .. n - 2 /\ i - 1 \in 1 .. n /\ (i - 1) + 1 = i
        BY <1>1, <3>2
      <4>2. Further(B, q[i - 1]) /\ r[i] = q[i - 1]
        BY <1>1, <1>2, <4>1 DEF Deep
      <4> QED BY <4>2
    <3> QED BY <3>1, <3>2
  <2> QED BY <1>2, <2>1 DEF Deep
<1> QED BY <1>1, <1>2, <1>3, <1>4 DEF r, SameEnd

LEMMA TierList ==
  /\ CacheTiers \in Seq(Tier) /\ Len(CacheTiers) \in Nat /\ Len(CacheTiers) > 0
  /\ DOMAIN CacheTiers = 1 .. Len(CacheTiers)
<1>1. /\ CacheTiers \in Seq(TierName) /\ Len(CacheTiers) \in Nat /\ Len(CacheTiers) > 0
      /\ DOMAIN CacheTiers = 1 .. Len(CacheTiers)
  BY ConstantsAssumption
<1>2. CacheTiers \in Seq(Tier)
  BY <1>1 DEF Tier
<1> QED BY <1>1, <1>2

LEMMA Suffix ==
  ASSUME NEW k \in 1 .. Len(CacheTiers) + 1
  PROVE  LET q == SubSeq(CacheTiers, k, Len(CacheTiers))
         IN /\ q \in Seq(Tier) /\ ToSet(q) = {CacheTiers[j] : j \in k .. Len(CacheTiers)}
            /\ q # << >> => /\ k \in 1 .. Len(CacheTiers)
                            /\ Tail(q) = SubSeq(CacheTiers, k + 1, Len(CacheTiers))
<1> DEFINE q == SubSeq(CacheTiers, k, Len(CacheTiers))
<1>1. PICK n \in Nat : n = Len(CacheTiers) /\ CacheTiers \in Seq(Tier) /\ DOMAIN CacheTiers = 1 .. n
  BY TierList
<1>2. /\ q \in Seq(Tier) /\ Len(q) = n + 1 - k
      /\ \A i \in 1 .. n + 1 - k : q[i] = CacheTiers[k + i - 1]
  BY <1>1
<1>3. ToSet(q) = {CacheTiers[j] : j \in k .. n}
  <2>1. ASSUME NEW j \in k .. n PROVE CacheTiers[j] \in {q[i] : i \in 1 .. n + 1 - k}
    <3>1. j - k + 1 \in 1 .. n + 1 - k /\ k + (j - k + 1) - 1 = j
      BY <1>1
    <3> QED BY <1>2, <3>1
  <2>2. ASSUME NEW i \in 1 .. n + 1 - k PROVE q[i] \in {CacheTiers[j] : j \in k .. n}
    <3>1. k + i - 1 \in k .. n
      BY <1>1
    <3> QED BY <1>2, <3>1
  <2>3. ToSet(q) = {q[i] : i \in 1 .. n + 1 - k}
    <3> HIDE DEF q
    <3>1. ToSet(q) = {q[i] : i \in 1 .. Len(q)}
      BY <1>2, SetOfSeq
    <3> QED BY <1>2, <3>1
  <2> HIDE DEF q
  <2> QED BY <2>1, <2>2, <2>3
<1>4. ASSUME q # << >>
      PROVE  k \in 1 .. n /\ Tail(q) = SubSeq(CacheTiers, k + 1, n)
  <2>1. k \in 1 .. n
    <3>1. Len(q) # 0
      BY <1>2, <1>4
    <3> QED BY <1>1, <1>2, <3>1
  <2>2. /\ Tail(q) \in Seq(Tier) /\ Len(Tail(q)) = n - k
        /\ \A i \in 1 .. n - k : Tail(q)[i] = q[i + 1]
    BY <1>1, <1>2, <1>4, <2>1
  <2> DEFINE r == SubSeq(CacheTiers, k + 1, n)
  <2>3. /\ r \in Seq(Tier) /\ Len(r) = n - k
        /\ \A i \in 1 .. n - k : r[i] = CacheTiers[k + 1 + i - 1]
    BY <1>1, <2>1
  <2>4. \A i \in 1 .. n - k : Tail(q)[i] = r[i]
    <3> TAKE i \in 1 .. n - k
    <3>1. i + 1 \in 1 .. n + 1 - k /\ k + (i + 1) - 1 = k + 1 + i - 1
      BY <1>1, <2>1
    <3> QED BY <1>2, <2>2, <2>3, <3>1
  <2> HIDE DEF q, r
  <2>5. ASSUME NEW S, NEW a \in Seq(S), NEW b \in Seq(S), Len(a) = Len(b),
               \A i \in 1 .. Len(a) : a[i] = b[i]
        PROVE  a = b
    BY <2>5
  <2>6. Tail(q) = r
    BY <2>2, <2>3, <2>4, <2>5
  <2> QED BY <2>1, <2>6 DEF r
<1> QED BY <1>1, <1>2, <1>3, <1>4

LEMMA LowerSuffix ==
  ASSUME NEW t \in Tier
  PROVE  \E i \in 1 .. Len(CacheTiers) : /\ CacheTiers[i] = t /\ (t = GPU => i = 1)
                                         /\ LowerSeq(t) = SubSeq(CacheTiers, i + 1, Len(CacheTiers))
<1>1. PICK i \in DOMAIN CacheTiers : /\ i = CHOOSE j \in DOMAIN CacheTiers : CacheTiers[j] = t
                                     /\ CacheTiers[i] = t
  BY DEF Tier
<1>2. i \in 1 .. Len(CacheTiers)
  BY <1>1, ConstantsAssumption
<1>3. t = GPU => i = 1
  <2>1. 1 \in DOMAIN CacheTiers
    BY ConstantsAssumption
  <2> QED BY <1>1, <2>1, ConstantsAssumption
<1> QED BY <1>1, <1>2, <1>3 DEF LowerSeq

(* What lies below a tier below the call's position lies below it too.     *)
LEMMA LowerBelow ==
  ASSUME NEW k \in 1 .. Len(CacheTiers) + 1, NEW t \in ToSet(SubSeq(CacheTiers, k, Len(CacheTiers)))
  PROVE  t \in Tier /\ ToSet(LowerSeq(t)) \subseteq ToSet(SubSeq(CacheTiers, k, Len(CacheTiers)))
<1>1. PICK n \in Nat : n = Len(CacheTiers) /\ CacheTiers \in Seq(Tier) /\ DOMAIN CacheTiers = 1 .. n
  BY TierList
<1>2. PICK j \in k .. n : t = CacheTiers[j]
  BY <1>1, Suffix
<1>3. t \in Tier /\ j \in 1 .. n
  BY <1>1, <1>2
<1>4. PICK i \in 1 .. n : CacheTiers[i] = t /\ LowerSeq(t) = SubSeq(CacheTiers, i + 1, n)
  BY <1>1, <1>3, LowerSuffix
<1>5. i = j
  BY <1>1, <1>2, <1>3, <1>4, ConstantsAssumption
<1>6. i + 1 \in 1 .. n + 1
  BY <1>4
<1>7. ToSet(LowerSeq(t)) = {CacheTiers[m] : m \in i + 1 .. n}
  BY <1>1, <1>4, <1>6, Suffix
<1>8. ToSet(SubSeq(CacheTiers, k, n)) = {CacheTiers[m] : m \in k .. n}
  BY <1>1, Suffix
<1>9. i + 1 .. n \subseteq k .. n
  BY <1>1, <1>2, <1>4, <1>5
<1> QED BY <1>1, <1>3, <1>7, <1>8, <1>9

(* Everything but the GPU is below it. *)
LEMMA LowerOfGpu ==
  /\ \E k \in 2 .. Len(CacheTiers) + 1 : LowerSeq(GPU) = SubSeq(CacheTiers, k, Len(CacheTiers))
  /\ Tier \ {GPU} \subseteq ToSet(LowerSeq(GPU))
<1>1. PICK n \in Nat : n = Len(CacheTiers) /\ CacheTiers \in Seq(Tier) /\ DOMAIN CacheTiers = 1 .. n /\ n > 0
  BY TierList
<1>2. LowerSeq(GPU) = SubSeq(CacheTiers, 2, n)
  <2>1. PICK i \in 1 .. n : /\ (GPU = GPU => i = 1)
                            /\ LowerSeq(GPU) = SubSeq(CacheTiers, i + 1, n)
    BY <1>1, GpuIsTier, LowerSuffix
  <2> QED BY <2>1
<1>3. 2 \in 2 .. n + 1 /\ 2 \in 1 .. n + 1
  BY <1>1
<1>4. ToSet(LowerSeq(GPU)) = {CacheTiers[m] : m \in 2 .. n}
  BY <1>1, <1>2, <1>3, Suffix
<1>5. ASSUME NEW t \in Tier \ {GPU} PROVE t \in ToSet(LowerSeq(GPU))
  <2>1. PICK j \in 1 .. n : t = CacheTiers[j]
    BY <1>1 DEF Tier
  <2>2. j # 1
    BY <2>1, ConstantsAssumption
  <2>3. j \in 2 .. n
    BY <1>1, <2>1, <2>2
  <2> QED BY <1>4, <2>1, <2>3
<1> QED BY <1>1, <1>2, <1>3, <1>5

LEMMA RankTyped == HotSpec => []RankTypeOK
<1>1. HotInit => RankTypeOK
  BY DEF HotInit, RankTypeOK
<1>2. RankTypeOK /\ [HotNext]_hotVars => RankTypeOK'
  <2> SUFFICES ASSUME RankTypeOK, [HotNext]_hotVars PROVE RankTypeOK'
    OBVIOUS
  <2>1. CASE HotEndStep
    <3> DEFINE used0(s) == IF s \in ToSet(batch) THEN Cardinality(Seqs) + 1 ELSE rank[s]
               steps == {0} \cup {used0(r) : r \in {q \in Seqs : Unfinished(q)}}
               below(s) == {v \in steps : v < used0(s)}
    <3>1. rank' = [s \in Seqs |-> IF Unfinished(s) THEN Cardinality(below(s)) ELSE 0]
      BY <2>1 DEF HotEndStep
    <3>2. IsFiniteSet(steps)
      <4>1. IsFiniteSet({q \in Seqs : Unfinished(q)})
        BY ConstantsAssumption, FS_Subset
      <4>2. IsFiniteSet({used0(r) : r \in {q \in Seqs : Unfinished(q)}})
        <5> DEFINE U == {q \in Seqs : Unfinished(q)}
                   W == {used0(r) : r \in U}
        <5>1. [r \in U |-> used0(r)] \in Surjection(U, W)
          BY DEF Surjection
        <5> HIDE DEF W
        <5>2. IsFiniteSet(W)
          BY <4>1, <5>1, FS_Surjection
        <5> QED BY <5>2 DEF W
      <4>3. IsFiniteSet({0})
        BY FS_Singleton
      <4> QED BY <4>2, <4>3, FS_Union
    <3>3. ASSUME NEW s \in Seqs PROVE Cardinality(below(s)) \in Nat
      <4>1. below(s) \subseteq steps
        OBVIOUS
      <4> HIDE DEF steps, below
      <4> QED BY <3>2, <4>1, FS_Subset, FS_CardinalityType
    <3> HIDE DEF below
    <3> QED BY <3>1, <3>3 DEF RankTypeOK
  <2>2. CASE UNCHANGED rank
    BY <2>2 DEF RankTypeOK
  <2> QED BY <2>1, <2>2 DEF HotNext, HotEngine, Unaged, hotVars
<1> QED BY <1>1, <1>2, PTL DEF HotSpec

(* All of the blocks are in the sequence. *)
LEMMA SortedAll ==
  ASSUME TypeOK, NEW S \in SUBSET Seqs, NEW t, NEW B \in SUBSET BlocksOn(S, t), NEW q \in Sorted(B)
  PROVE  B \subseteq ToSet(q) /\ (B # {} => q # << >>)
<1>1. IsFiniteSet(B)
  BY BlocksFinite, FS_Subset
<1>2. PICK n \in Nat : n = Cardinality(B)
  BY <1>1, FS_CardinalityType
<1>3. q \in [1 .. n -> B] /\ Injective(q)
  BY <1>2 DEF Sorted
<1>4. q \in Injection(1 .. n, B)
  BY <1>3 DEF Injection, IsInjective, Injective
<1>5. Cardinality(1 .. n) = n
  BY FS_Interval
<1>6. q \in Surjection(1 .. n, B)
  BY <1>1, <1>2, <1>4, <1>5, FS_Injection
<1>7. B \subseteq ToSet(q)
  BY <1>6 DEF Surjection, ToSet
<1>8. ToSet(<< >>) = {}
  BY DEF ToSet
<1> QED BY <1>7, <1>8

(* Which calls are on the stack of the loop on the GPU.                    *)
LEMMA GpuShape ==
  ASSUME HotTypeOK, HotCallsInv, calls # << >>, phase = "gpu"
  PROVE  /\ calls \in Seq(HotPending) /\ Len(calls) \in Nat /\ Len(calls) > 0 /\ calls[1] = Top
         /\ Top.op \in {"gpu", "preempt"} => Len(calls) = 1 /\ Top \in LoopCall
         /\ Top.op = "demote" => /\ Len(calls) > 1 /\ Top \in DemoteCall
                                 /\ calls[2].op \in {"gpu", "preempt"} <=> Len(calls) = 2
         /\ Top.op \notin {"demote", "gpu", "preempt"} =>
              Top.op = "free" /\ Len(calls) > 2 /\ Top \in LoopCall
<1>1. /\ calls \in Seq(HotPending) /\ Len(calls) \in Nat /\ Len(calls) > 0 /\ calls[1] = Top
      /\ DOMAIN calls = 1 .. Len(calls)
  BY DEF HotTypeOK, HotPending, Top
<1>2. ASSUME NEW i \in 1 .. Len(calls) PROVE FrameOk(calls, i)
  BY <1>1 DEF HotCallsInv
<1>3. FrameOk(calls, 1)
  BY <1>1, <1>2
<1>4. Top.op = "demote" => Top \in DemoteCall
  BY <1>1, HotTop
<1>5. Top.op # "demote" => Top \in LoopCall
  BY <1>1, HotTop
<1>6. CASE Top.op \in {"gpu", "preempt"}
  BY <1>1, <1>5, <1>6, OuterLoop
<1>7. CASE Top.op = "demote"
  <2>1. 1 < Len(calls)
    BY <1>1, <1>3, <1>7 DEF FrameOk
  <2>2. 2 \in 1 .. Len(calls) /\ calls[2].op # "demote"
    BY <1>1, <1>3, <1>7, <2>1 DEF FrameOk
  <2>3. FrameOk(calls, 2)
    BY <1>2, <2>2
  <2>4. CASE 2 < Len(calls)
    <3>1. calls[2].op = "free"
      BY <2>2, <2>3, <2>4 DEF FrameOk
    <3> QED BY <1>1, <1>4, <1>7, <2>1, <2>4, <3>1
  <2>5. CASE 2 = Len(calls)
    <3>1. Outer(calls[2].op)
      <4>1. ~ (2 < Len(calls))
        BY <2>5
      <4> QED BY <2>2, <2>3, <4>1 DEF FrameOk
    <3>2. calls[2].op \in {"gpu", "preempt"}
      BY <3>1 DEF Outer
    <3> QED BY <1>1, <1>4, <1>7, <2>1, <2>5, <3>2
  <2> QED BY <1>1, <2>1, <2>4, <2>5
<1>8. CASE Top.op \notin {"demote", "gpu", "preempt"}
  <2>1. 1 < Len(calls)
    <3> SUFFICES ASSUME Len(calls) = 1 PROVE FALSE
      BY <1>1
    <3>1. Outer(Top.op)
      BY <1>1, <1>3, <1>8 DEF FrameOk
    <3> QED BY <1>8, <3>1 DEF Outer
  <2>2. Top.op = "free" /\ calls[2].op = "demote"
    BY <1>1, <1>3, <1>8, <2>1 DEF FrameOk
  <2>3. FrameOk(calls, 2)
    BY <1>1, <1>2, <2>1
  <2>4. 2 < Len(calls)
    BY <2>2, <2>3 DEF FrameOk
  <2> QED BY <1>1, <1>5, <1>8, <2>2, <2>4
<1> QED BY <1>1, <1>6, <1>7, <1>8

LEMMA GpuSteps ==
  ASSUME HotTypeOK, HotCallsInv, HotTodoInv, HotPlanInv, phase' = "gpu", calls' # << >>,
         SharedSteps \/ OwnSteps \/ FailTransfer
  PROVE  /\ phase = "gpu"
         /\ \/ GpuPass \/ PreemptForGpu
            \/ NextBlock \/ EndLoop \/ LookBelow \/ LookFurther \/ MoveBlock \/ NotMoved \/ Copy \/ CommitBlock
<1> USE DEF control
<1>1. ~ SharedSteps
  BY SharedControl DEF SharedPhases
<1>2. CASE HotWatermarks
  <2>1. ~ CoolTier /\ ~ CoolGpu /\ ~ GpuStuck /\ ~ EndCooling
    BY DEF CoolTier, CoolGpu, GpuStuck, EndCooling
  <2> QED BY <1>2, <2>1 DEF HotWatermarks, GpuPass, PreemptForGpu
<1>3. CASE HotTargets
  BY <1>3 DEF HotTargets, NextBlock, EndLoop, LookBelow, LookFurther, MoveBlock, NotMoved, Copy,
     CommitBlock, schedVars
<1>4. CASE HotSwapIn
  BY <1>4, RestoredOwner DEF HotSwapIn, LookAtSwapped, PassOver, RestoreBlocks, CommitRestore, RunAgain,
     EndHotSwapIn, Stuck, Raise, InRestore, schedVars
<1>5. ~ TakeBlock /\ ~ ThrowAway /\ ~ FailTransfer
  BY DEF TakeBlock, InDecode, ThrowAway, FailTransfer, Raise
<1> QED BY <1>1, <1>2, <1>3, <1>4, <1>5 DEF OwnSteps

(* The call of the loop on the GPU, and the whole stack.                   *)
InnerOk(c, l) ==
  /\ HotGpuLoop(l, {<<c.seq, c.index>>})
  /\ \E k \in 2 .. Len(CacheTiers) + 1 : c.to = SubSeq(CacheTiers, k, Len(CacheTiers))
  /\ \A t \in Tier \ ({GPU} \cup ToSet(c.to)) : FreeIn(t) = {}
  /\ plan # NoPlan => plan.to \in ToSet(c.to)
GpuStackOk(q) ==
  IF Len(q) = 1 THEN HotGpuLoop(q[1], {})
  ELSE InnerOk(q[Len(q) - 1], q[Len(q)]) /\ Deep(q, ToSet(q[Len(q) - 1].to))

LEMMA GpuStackNow ==
  ASSUME HotGpuInv, phase = "gpu", calls # << >>, ~ Blocked PROVE GpuStackOk(calls)
BY DEF HotGpuInv, GpuStackOk, InnerOk, Deep

LEMMA GpuStackNext ==
  ASSUME NEW r, calls' = r, ~ Blocked' => GpuStackOk(r)' PROVE HotGpuInv'
BY DEF HotGpuInv, GpuStackOk, InnerOk, Deep

(* The steps of the loops themselves change nothing the stack is about.    *)
LEMMA GpuFrame ==
  ASSUME UNCHANGED <<vars, swapped, moved>>, NEW r, calls' = r, ~ Blocked => GpuStackOk(r)
  PROVE  HotGpuInv'
<1>1. UNCHANGED <<plan, free, tiers>>
  BY DEF vars, poolVars, placeVars
<1>2. Blocked => Blocked'
  BY <1>1, BlockedSame
<1>3. \A t : FreeIn(t)' = FreeIn(t)
  BY <1>1 DEF FreeIn
<1>4. OnGpu(ToSet(swapped))' = OnGpu(ToSet(swapped))
  BY <1>1 DEF OnGpu, BlocksOn
<1>5. ASSUME NEW l, NEW x PROVE HotGpuLoop(l, x)' <=> HotGpuLoop(l, x)
  BY <1>4 DEF HotGpuLoop
<1>6. ASSUME NEW B, NEW f PROVE Further(B, f)' <=> Further(B, f)
  BY <1>1 DEF Further
<1>7. ASSUME NEW c, NEW l, InnerOk(c, l) PROVE InnerOk(c, l)'
  BY <1>1, <1>3, <1>5, <1>7 DEF InnerOk
<1>8. GpuStackOk(r) => GpuStackOk(r)'
  BY <1>5, <1>6, <1>7 DEF GpuStackOk, Deep
<1> QED BY <1>2, <1>8, GpuStackNext

(* A pass begins with all blocks of swapped requests on the GPU, preempt   *)
(* with those of its victim.                                               *)
LEMMA GpuBegins ==
  ASSUME IndInv, HotInv, Unshared, GpuPass \/ PreemptForGpu, phase' = "gpu", calls' # << >>
  PROVE  HotGpuInv'
<1>t. /\ HotTypeOK /\ HotCallsInv /\ HotPlanInv /\ HomeInv /\ QueueTypes /\ TypeOK
  BY DEF HotInv, HotTypeOK, IndInv
<1>0. phase = "gpu" /\ UNCHANGED <<vars, swapped, moved>>
  BY DEF GpuPass, PreemptForGpu, queues, step
<1>w. ASSUME NEW l, calls' = <<l>>, HotGpuLoop(l, {}) PROVE HotGpuInv'
  <2>1. GpuStackOk(<<l>>)
    BY <1>w DEF GpuStackOk
  <2> QED BY <1>0, <1>w, <2>1, GpuFrame
<1>1. CASE GpuPass
  <2>1. PICK q \in Cold(GPU, NoSeq) : calls' = <<Loop("gpu", GPU, 0, q)>>
    BY <1>1 DEF GpuPass
  <2>2. ToSet(swapped) \in SUBSET Seqs /\ ToSet(swapped) \ {NoSeq} = ToSet(swapped)
    BY <1>t, SetOfSeq, ConstantsAssumption DEF QueueTypes
  <2>3. OnGpu(ToSet(swapped)) \subseteq ToSet(q)
    BY <1>t, <2>1, <2>2, SortedAll DEF Cold, OnGpu
  <2> QED BY <1>w, <2>1, <2>3 DEF HotGpuLoop, Loop
<1>2. CASE PreemptForGpu
  <2>1. /\ victim' \in ToSet(running)
        /\ \E q \in OwnGpu(victim') : calls' = <<Loop("preempt", GPU, 0, q)>>
    BY <1>2 DEF PreemptForGpu, Oldest
  <2>2. PICK v \in Seqs : v = victim' /\ status[v] = "running"
    <3>1. victim' \in Seqs
      BY <1>t, <2>1, SetOfSeq DEF QueueTypes
    <3>2. victim' \in WithStatus("running")
      BY <1>t, <1>0, <2>1 DEF HomeInv
    <3> QED BY <3>1, <3>2 DEF WithStatus
  <2>3. PICK q \in OwnGpu(v) : calls' = <<Loop("preempt", GPU, 0, q)>>
    BY <2>1, <2>2
  <2> DEFINE own == {p \in BlocksOn({v}, GPU) : ~ SharedAt(p)}
  <2>4. own # {}
    <3>1. PICK b : b \in Held(v)
      BY <2>2, RunningOnGpu
    <3>2. PICK i \in DOMAIN table[v] : TRUE
      BY <3>1 DEF Held
    <3>3. i \in DOMAIN tiers[v] /\ tiers[v][i] = GPU
      BY <2>2, <3>2, RunningOnGpu DEF AllOn, IndInv, TagsAgree, TagsOf
    <3>4. <<v, i>> \in BlocksOn({v}, GPU)
      BY <3>3, OnGpuPairs DEF OnGpu
    <3>5. table[v][i] \in Block
      BY <1>t, <2>2, <3>2 DEF TypeOK
    <3>6. ~ SharedAt(<<v, i>>)
      <4>1. PICK n \in Nat : n = refCount[table[v][i]] /\ n <= 1
        BY <1>t, <3>5 DEF TypeOK, Unshared
      <4> QED BY <4>1 DEF SharedAt
    <3> QED BY <3>4, <3>6
  <2>5. q # << >>
    <3>1. q \in Sorted(own)
      BY <2>3 DEF OwnGpu
    <3>2. {v} \in SUBSET Seqs /\ own \in SUBSET BlocksOn({v}, GPU)
      BY <2>2
    <3> HIDE DEF own
    <3> QED BY <1>t, <2>4, <3>1, <3>2, SortedAll
  <2> QED BY <1>w, <2>3, <2>5 DEF HotGpuLoop, Loop
<1> QED BY <1>1, <1>2

LEMMA PutCall ==
  ASSUME NEW e \in HotPending, NEW f \in HotPending
  PROVE  <<f>> \o << >> = <<f>> /\ <<e>> \o <<f>> = <<e, f>>
<1>1. ASSUME NEW a \in Seq(HotPending), NEW b \in Seq(HotPending), Len(a) = Len(b),
             \A i \in 1 .. Len(a) : a[i] = b[i]
      PROVE  a = b
  BY <1>1
<1>2. <<f>> \o << >> = <<f>>
  BY DEF HotPending
<1> DEFINE a == <<e>> \o <<f>>  b == <<e, f>>
<1>3. a \in Seq(HotPending) /\ Len(a) = 2 /\ a[1] = e /\ a[2] = f
  OBVIOUS
<1>4. b \in Seq(HotPending) /\ Len(b) = 2 /\ b[1] = e /\ b[2] = f
  OBVIOUS
<1> HIDE DEF a, b
<1>5. a = b
  BY <1>1, <1>3, <1>4
<1> QED BY <1>2, <1>5 DEF a, b

LEMMA LastCall == ASSUME NEW q \in Seq(HotPending), q # << >>, Len(q) = 1 PROVE Tail(q) = << >>
<1>1. Tail(q) \in Seq(HotPending) /\ Len(Tail(q)) = 0
  OBVIOUS
<1>2. ASSUME NEW r \in Seq(HotPending), Len(r) = 0 PROVE r = << >>
  BY <1>2
<1> QED BY <1>1, <1>2

LEMMA GpuStackSame ==
  ASSUME NEW q, NEW r, Len(q) \in Nat, Len(q) > 1, Len(r) \in Nat, Len(r) > 1, GpuStackOk(q), SameEnd(r, q),
         Deep(r, ToSet(q[Len(q) - 1].to))
  PROVE  GpuStackOk(r)
<1>1. \A n \in Nat : n > 1 => n # 1
  OBVIOUS
<1>2. Len(r) # 1
  BY <1>1
<1>3. Len(q) # 1
  BY <1>1
<1> QED BY <1>2, <1>3 DEF GpuStackOk, SameEnd

(* The loop takes the next block, whose tier is left by the call.          *)
LEMMA GpuNextBlock ==
  ASSUME IndInv, HotInv, HotGpuInv, NextBlock, phase = "gpu" PROVE HotGpuInv'
<1>t. HotTypeOK /\ HotCallsInv
  BY DEF HotInv
<1>1. /\ plan = NoPlan /\ Top.op # "demote" /\ Top.items # << >> /\ calls # << >>
      /\ calls' = <<Demote(Head(Top.items), Top.tier), [Top EXCEPT !.items = Tail(@)]>> \o Tail(calls)
      /\ UNCHANGED <<vars, swapped, moved>>
  BY DEF NextBlock, InLoop, queues, step
<1>2. PICK q \in Seq(HotPending) : q = calls
  BY <1>t DEF HotTypeOK, HotPending
<1>3. PICK n \in Nat : n = Len(q) /\ n > 0 /\ q[1] = Top /\ q # << >>
  BY <1>t, <1>1, <1>2, GpuShape
<1>4. /\ Top \in LoopCall /\ Top.tier \in Tier /\ Top.items \in Seq(Seqs \X Nat)
      /\ n = 1 \/ (n > 2 /\ Top.op = "free")
  BY <1>t, <1>1, <1>2, <1>3, GpuShape DEF LoopCall
<1>5. PICK p \in Seqs \X Nat : p = Head(Top.items)
  BY <1>1, <1>4
<1>6. ToSet(Top.items) = {p} \cup ToSet(Tail(Top.items))
  BY <1>1, <1>4, <1>5, HeadTailSet
<1>7. PICK f \in LoopCall : f = [Top EXCEPT !.items = Tail(@)]
  BY <1>1, <1>4, HotUpdates
<1>8. f.op = Top.op /\ f.tier = Top.tier /\ f.items = Tail(Top.items)
  BY <1>4, <1>7 DEF LoopCall
<1>9. PICK e \in DemoteCall : e = Demote(p, Top.tier)
  BY <1>4, DemoteType
<1>10. /\ e.op = "demote" /\ e.seq = p[1] /\ e.index = p[2] /\ e.to = LowerSeq(Top.tier)
       /\ <<e.seq, e.index>> = p
  BY <1>5, <1>9 DEF Demote
<1>11. PICK s : s = <<f>> \o Tail(q)
  OBVIOUS
<1>12. PICK r : r = <<e>> \o s
  OBVIOUS
<1>13. calls' = r
  <2>1. <<e, f>> \o Tail(q) = <<e>> \o (<<f>> \o Tail(q))
    BY <1>3 DEF HotPending
  <2> QED BY <1>1, <1>2, <1>5, <1>7, <1>9, <1>11, <1>12, <2>1
<1>14. ASSUME ~ Blocked, n = 1 PROVE GpuStackOk(r)
  <2>1. HotGpuLoop(Top, {})
    BY <1>1, <1>2, <1>3, <1>14, GpuStackNow DEF GpuStackOk
  <2>2. Len(r) = 2 /\ r[1] = e /\ r[2] = f
    <3>1. Tail(q) = << >>
      BY <1>3, <1>14, LastCall
    <3>2. s = <<f>>
      BY <1>11, <3>1, PutCall DEF HotPending
    <3>3. r = <<e, f>>
      BY <1>12, <3>2, PutCall DEF HotPending
    <3> QED BY <3>3
  <2>3. HotGpuLoop(f, {<<e.seq, e.index>>})
    BY <1>6, <1>8, <1>10, <2>1 DEF HotGpuLoop
  <2>4. e.to = LowerSeq(GPU)
    BY <1>10, <2>1 DEF HotGpuLoop
  <2>5. InnerOk(e, f)
    BY <1>1, <2>3, <2>4, LowerOfGpu DEF InnerOk
  <2>6. Deep(r, ToSet(e.to))
    BY <2>2 DEF Deep
  <2> QED BY <2>2, <2>5, <2>6 DEF GpuStackOk
<1>15. ASSUME ~ Blocked, n > 2, Top.op = "free" PROVE GpuStackOk(r)
  <2>1. GpuStackOk(q)
    BY <1>1, <1>2, <1>15, GpuStackNow
  <2>2. PICK B : B = ToSet(q[n - 1].to)
    OBVIOUS
  <2>3. InnerOk(q[n - 1], q[n]) /\ Deep(q, B)
    BY <1>3, <1>15, <2>1, <2>2 DEF GpuStackOk
  <2>4. Further(B, Top)
    <3>1. 1 \in 1 .. n - 2
      BY <1>15
    <3> QED BY <1>3, <2>3, <3>1 DEF Deep
  <2>5. Further(B, f)
    BY <1>6, <1>8, <1>15, <2>4 DEF Further
  <2>6. PICK k \in 1 .. Len(CacheTiers) + 1 : q[n - 1].to = SubSeq(CacheTiers, k, Len(CacheTiers))
    BY <2>3, TierList DEF InnerOk
  <2>7. Top.tier \in B
    BY <1>15, <2>4 DEF Further
  <2>8. ToSet(LowerSeq(Top.tier)) \subseteq B
    BY <2>2, <2>6, <2>7, LowerBelow
  <2>9. Further(B, e)
    BY <1>6, <1>10, <1>15, <2>4, <2>8 DEF Further
  <2>10. s \in Seq(HotPending) /\ Len(s) = n /\ SameEnd(s, q) /\ Deep(s, B)
    BY <1>3, <1>11, <1>15, <2>3, <2>5, DeepTop DEF HotPending
  <2>11. r \in Seq(HotPending) /\ Len(r) = n + 1 /\ SameEnd(r, s) /\ Deep(r, B)
    <3>1. e \in HotPending /\ Len(s) > 1
      BY <1>15, <2>10 DEF HotPending
    <3> QED BY <1>12, <2>9, <2>10, <3>1, DeepPush
  <2>12. SameEnd(r, q)
    BY <2>10, <2>11 DEF SameEnd
  <2> QED BY <1>3, <1>15, <2>1, <2>2, <2>11, <2>12, GpuStackSame
<1> QED BY <1>1, <1>4, <1>13, <1>14, <1>15, GpuFrame

LEMMA GpuPop ==
  ASSUME HotTypeOK, HotGpuInv, phase = "gpu", calls # << >>, ~ Blocked, Len(calls) > 2
  PROVE  GpuStackOk(Tail(calls))
<1>1. PICK q \in Seq(HotPending) : q = calls
  BY DEF HotTypeOK, HotPending
<1>2. PICK n \in Nat : n = Len(q) /\ n > 2
  BY <1>1
<1>3. GpuStackOk(q)
  BY <1>1, GpuStackNow
<1>4. PICK r : r = Tail(q)
  OBVIOUS
<1>5. Deep(q, ToSet(q[n - 1].to))
  BY <1>2, <1>3 DEF GpuStackOk
<1>6. Len(r) = n - 1 /\ SameEnd(r, q) /\ Deep(r, ToSet(q[n - 1].to))
  BY <1>2, <1>4, <1>5, DeepPop
<1>7. GpuStackOk(r)
  BY <1>2, <1>3, <1>6, GpuStackSame
<1> QED BY <1>1, <1>4, <1>7

(* _ensure_free_blocks returns, or _demote_block does without success: it  *)
(* was not the call of the loop itself, unless nothing fits anywhere.      *)
LEMMA GpuReturn ==
  ASSUME HotInv, HotGpuInv, EndLoop \/ NotMoved, phase = "gpu" PROVE HotGpuInv'
<1>t. HotTypeOK /\ HotCallsInv
  BY DEF HotInv
<1>1. /\ calls # << >> /\ calls' = Tail(calls) /\ plan = NoPlan /\ UNCHANGED <<vars, swapped, moved>>
  BY DEF EndLoop, NotMoved, InLoop, InDemote, queues, step
<1>2. ASSUME ~ Blocked PROVE Len(calls) > 2
  <2>1. CASE EndLoop
    BY <1>t, <1>1, <2>1, GpuShape DEF EndLoop
  <2>2. CASE NotMoved
    <3>1. /\ Top.op = "demote" /\ Len(calls) \in Nat /\ Len(calls) > 1 /\ calls[1] = Top
          /\ Top.to # << >> => ~ Budget(1)
      BY <1>t, <1>1, <2>2, GpuShape DEF NotMoved, InDemote
    <3>2. Top.to = << >>
      BY <1>1, <1>2, <3>1 DEF Blocked, NothingFits
    <3>3. ASSUME Len(calls) = 2 PROVE FALSE
      <4>1. InnerOk(Top, calls[2])
        BY <1>1, <1>2, <3>1, <3>3, GpuStackNow DEF GpuStackOk
      <4>2. ToSet(<< >>) = {}
        BY DEF ToSet
      <4>3. \A t \in Tier \ {GPU} : FreeIn(t) = {}
        BY <3>2, <4>1, <4>2 DEF InnerOk
      <4> QED BY <1>1, <1>2, <4>3 DEF Blocked, NothingFits
    <3>4. \A n \in Nat : n > 1 /\ n # 2 => n > 2
      OBVIOUS
    <3> QED BY <3>1, <3>3, <3>4
  <2> QED BY <2>1, <2>2
<1>3. ~ Blocked => GpuStackOk(Tail(calls))
  BY <1>t, <1>1, <1>2, GpuPop
<1>4. PICK r : r = Tail(calls)
  OBVIOUS
<1> QED BY <1>1, <1>3, <1>4, GpuFrame

(* _demote_block looks at the next tier, which has no free block if it was *)
(* looked at before.                                                       *)
LEMMA GpuTop ==
  ASSUME HotTypeOK, HotCallsInv, HotGpuInv, phase = "gpu", calls # << >>, ~ Blocked, Top.op = "demote",
         NEW f \in DemoteCall, f.op = "demote", f.seq = Top.seq, f.index = Top.index,
         \/ f.to = Top.to
         \/ Top.to # << >> /\ f.to = Tail(Top.to) /\ FreeIn(Head(Top.to)) = {} /\ plan = NoPlan
  PROVE  LET s == <<f>> \o Tail(calls)
         IN /\ s \in Seq(HotPending) /\ Len(s) \in Nat /\ Len(s) > 1 /\ GpuStackOk(s)
            /\ ToSet(f.to) \subseteq ToSet(s[Len(s) - 1].to)
<1>1. PICK q \in Seq(HotPending) : q = calls
  BY DEF HotTypeOK, HotPending
<1>2. PICK n \in Nat : n = Len(q) /\ n > 1 /\ q[1] = Top /\ Top \in DemoteCall /\ q # << >>
  BY <1>1, GpuShape
<1>3. PICK s : s = <<f>> \o Tail(q)
  OBVIOUS
<1>4. f \in HotPending
  BY DEF HotPending
<1>5. s \in Seq(HotPending) /\ Len(s) = n /\ s[1] = f /\ \A i \in 2 .. n : s[i] = q[i]
  BY <1>2, <1>3, <1>4
<1>6. GpuStackOk(q)
  BY <1>1, GpuStackNow
<1>7. Top.to \in Seq(Tier)
  BY <1>2 DEF DemoteCall
<1>8. ToSet(f.to) \subseteq ToSet(Top.to)
  BY <1>7, HeadTailSet
<1>9. CASE n = 2
  <2>1. InnerOk(Top, q[2])
    BY <1>2, <1>6, <1>9 DEF GpuStackOk
  <2>2. ASSUME f.to = Top.to PROVE InnerOk(f, q[2])
    BY <2>1, <2>2 DEF InnerOk
  <2>3. ASSUME Top.to # << >> /\ f.to = Tail(Top.to) /\ FreeIn(Head(Top.to)) = {} /\ plan = NoPlan
        PROVE  InnerOk(f, q[2])
    <3>1. PICK k \in 2 .. Len(CacheTiers) + 1 : Top.to = SubSeq(CacheTiers, k, Len(CacheTiers))
      BY <2>1 DEF InnerOk
    <3>2. PICK m \in Nat : m = Len(CacheTiers)
      BY TierList
    <3>3. k \in 1 .. m /\ f.to = SubSeq(CacheTiers, k + 1, m)
      <4>1. k \in 1 .. m + 1
        BY <3>1, <3>2
      <4> QED BY <2>3, <3>1, <3>2, <4>1, Suffix
    <3>4. k + 1 \in 2 .. m + 1
      BY <3>1, <3>2, <3>3
    <3>5. ToSet(Top.to) = {Head(Top.to)} \cup ToSet(f.to)
      BY <1>7, <2>3, HeadTailSet
    <3>6. \A t \in Tier \ ({GPU} \cup ToSet(f.to)) : FreeIn(t) = {}
      BY <2>1, <2>3, <3>5 DEF InnerOk
    <3> QED BY <2>1, <2>3, <3>2, <3>3, <3>4, <3>6 DEF InnerOk
  <2>4. InnerOk(f, q[2])
    BY <2>2, <2>3
  <2>5. Len(s) = 2 /\ s[2] = q[2] /\ s[1] = f
    BY <1>5, <1>9
  <2>6. Deep(s, ToSet(f.to))
    BY <2>5 DEF Deep
  <2>7. GpuStackOk(s)
    BY <2>4, <2>5, <2>6 DEF GpuStackOk
  <2>8. s[Len(s) - 1] = f
    BY <2>5
  <2>9. Len(s) \in Nat /\ Len(s) > 1
    BY <2>5
  <2>10. ToSet(f.to) \subseteq ToSet(s[Len(s) - 1].to)
    BY <2>8
  <2>11. s = <<f>> \o Tail(calls)
    BY <1>1, <1>3
  <2> HIDE DEF HotPending
  <2> QED BY <1>5, <2>7, <2>9, <2>10, <2>11
<1>10. CASE n > 2
  <2>1. PICK B : B = ToSet(q[n - 1].to)
    OBVIOUS
  <2>2. Deep(q, B)
    BY <1>2, <1>6, <2>1 DEF GpuStackOk
  <2>3. Further(B, Top)
    <3>1. 1 \in 1 .. n - 2
      BY <1>10
    <3> QED BY <1>2, <2>2, <3>1 DEF Deep
  <2>4. Further(B, f)
    BY <1>8, <2>3 DEF Further
  <2>5. SameEnd(s, q) /\ Deep(s, B)
    BY <1>2, <1>3, <1>4, <1>10, <2>2, <2>4, DeepTop
  <2>6. GpuStackOk(s)
    BY <1>2, <1>5, <1>6, <2>1, <2>5, GpuStackSame
  <2>7. ToSet(f.to) \subseteq B /\ B = ToSet(s[n - 1].to)
    BY <1>2, <1>5, <2>1, <2>4, <2>5 DEF Further, SameEnd
  <2> QED BY <1>1, <1>2, <1>3, <1>5, <2>6, <2>7
<1> QED BY <1>2, <1>9, <1>10

LEMMA SortedIn ==
  ASSUME TypeOK, NEW S \in SUBSET Seqs, NEW t, NEW q \in Sorted(BlocksOn(S, t))
  PROVE  \A p \in ToSet(q) : p[2] \in DOMAIN tiers[p[1]] /\ tiers[p[1]][p[2]] = t
<1> DEFINE B == BlocksOn(S, t)
<1>1. Cardinality(B) \in Nat
  BY BlocksFinite, FS_CardinalityType
<1>2. q \in [1 .. Cardinality(B) -> B]
  BY DEF Sorted
<1>3. q \in Seq(B)
  BY <1>1, <1>2
<1>4. ToSet(q) \subseteq B
  BY <1>3, SetOfSeq
<1>5. \A p \in B : p[2] \in DOMAIN tiers[p[1]] /\ tiers[p[1]][p[2]] = t
  BY DEF BlocksOn
<1> HIDE DEF B
<1> QED BY <1>4, <1>5

LEMMA GpuLookFurther ==
  ASSUME IndInv, HotInv, HotGpuInv, LookFurther, phase = "gpu" PROVE HotGpuInv'
<1>t. HotTypeOK /\ HotCallsInv /\ TypeOK
  BY DEF HotInv, IndInv
<1>1. /\ plan = NoPlan /\ Top.op = "demote" /\ Top.to # << >> /\ calls # << >>
      /\ FreeCount(Head(Top.to)) = 0
      /\ calls' = <<[Top EXCEPT !.to = Tail(@), !.cleared = FALSE]>> \o Tail(calls)
      /\ UNCHANGED <<vars, swapped, moved>>
  BY DEF LookFurther, InDemote, queues, step
<1>2. Top \in DemoteCall
  BY <1>t, <1>1, HotTop DEF HotTypeOK, HotPending
<1>3. PICK f \in DemoteCall : f = [Top EXCEPT !.to = Tail(@), !.cleared = FALSE]
  BY <1>1, <1>2, HotUpdates
<1>4. f.op = "demote" /\ f.seq = Top.seq /\ f.index = Top.index /\ f.to = Tail(Top.to)
  BY <1>1, <1>2, <1>3 DEF DemoteCall
<1>5. FreeIn(Head(Top.to)) = {}
  <2>1. IsFiniteSet(FreeIn(Head(Top.to)))
    BY <1>t, ConstantsAssumption, FS_Subset DEF FreeIn, TypeOK
  <2> QED BY <1>1, <2>1, FS_EmptySet DEF FreeCount
<1>6. PICK s : s = <<f>> \o Tail(calls)
  OBVIOUS
<1>7. ~ Blocked => GpuStackOk(s)
  BY <1>t, <1>1, <1>4, <1>5, <1>6, GpuTop
<1>8. calls' = s
  BY <1>1, <1>3, <1>6
<1> QED BY <1>1, <1>7, <1>8, GpuFrame

(* _demote_block calls for room below where its own block may go.          *)
LEMMA GpuLookBelow ==
  ASSUME IndInv, HotInv, HotGpuInv, LookBelow, phase = "gpu" PROVE HotGpuInv'
<1>t. HotTypeOK /\ HotCallsInv /\ TypeOK /\ QueueTypes
  BY DEF HotInv, IndInv, HotTypeOK
<1>1. /\ Top.op = "demote" /\ Top.to # << >> /\ calls # << >>
      /\ UNCHANGED <<vars, swapped, moved>>
  BY DEF LookBelow, InDemote, queues, step
<1>2. Top \in DemoteCall /\ Top.to \in Seq(Tier)
  BY <1>t, <1>1, HotTop DEF HotTypeOK, HotPending, DemoteCall
<1>3. PICK f \in DemoteCall : f = [Top EXCEPT !.cleared = TRUE]
  BY <1>2, HotUpdates
<1>4. f.op = "demote" /\ f.seq = Top.seq /\ f.index = Top.index /\ f.to = Top.to
  BY <1>1, <1>2, <1>3 DEF DemoteCall
<1>5. PICK t \in Tier : t = Head(Top.to) /\ t \in ToSet(f.to)
  BY <1>1, <1>2, <1>4, HeadTailSet
<1>6. PICK b \in Cold(t, NoSeq) :
        calls' = (IF FreeCount(t) = 0 THEN <<Loop("free", t, 1, b)>> ELSE << >>) \o <<f>> \o Tail(calls)
  BY <1>3, <1>5 DEF LookBelow
<1>7. b \in Seq(Seqs \X Nat)
  BY <1>t, ColdType
<1>8. PICK e \in LoopCall : e = Loop("free", t, 1, b)
  BY <1>7, LoopType
<1>9. e.op = "free" /\ e.tier = t /\ e.items = b
  BY <1>8 DEF Loop
<1>10. \A p \in ToSet(b) : p[2] \in DOMAIN tiers[p[1]] /\ tiers[p[1]][p[2]] = t
  <2>1. ToSet(swapped) \ {NoSeq} \in SUBSET Seqs
    BY <1>t, ToSetType DEF QueueTypes
  <2> QED BY <1>t, <1>6, <2>1, SortedIn DEF Cold
<1>11. PICK s : s = <<f>> \o Tail(calls)
  OBVIOUS
<1>12. PICK r : r = <<e>> \o s
  OBVIOUS
<1>13. calls' = s \/ calls' = r
  <2>1. calls \in Seq(HotPending)
    BY <1>t DEF HotTypeOK, HotPending
  <2>2. <<e>> \o <<f>> \o Tail(calls) = <<e>> \o (<<f>> \o Tail(calls))
    BY <1>1, <2>1 DEF HotPending
  <2>3. << >> \o <<f>> \o Tail(calls) = <<f>> \o Tail(calls)
    BY <1>1, <2>1 DEF HotPending
  <2> QED BY <1>6, <1>8, <1>11, <1>12, <2>2, <2>3
<1>14. ASSUME ~ Blocked PROVE GpuStackOk(s) /\ GpuStackOk(r)
  <2>1. /\ s \in Seq(HotPending) /\ Len(s) \in Nat /\ Len(s) > 1 /\ GpuStackOk(s)
        /\ ToSet(f.to) \subseteq ToSet(s[Len(s) - 1].to)
    BY <1>t, <1>1, <1>4, <1>11, <1>14, GpuTop
  <2>2. PICK n \in Nat : n = Len(s) /\ n > 1
    BY <2>1
  <2>3. PICK B : B = ToSet(s[n - 1].to)
    OBVIOUS
  <2>4. Deep(s, B)
    <3>1. n # 1
      BY <2>2
    <3> QED BY <2>1, <2>2, <2>3, <3>1 DEF GpuStackOk
  <2>5. Further(B, e)
    BY <1>5, <1>9, <1>10, <2>1, <2>2, <2>3 DEF Further
  <2>6. e \in HotPending
    BY DEF HotPending
  <2>7. Len(r) = n + 1 /\ SameEnd(r, s) /\ Deep(r, B)
    BY <1>12, <2>1, <2>2, <2>4, <2>5, <2>6, DeepPush
  <2> QED BY <2>1, <2>2, <2>3, <2>7, GpuStackSame
<1> QED BY <1>1, <1>13, <1>14, GpuFrame

(* A block begins to move, or its copy is done: the free blocks of a       *)
(* passed tier do not become more.                                         *)
LEMMA GpuMove ==
  ASSUME IndInv, HotInv, HotGpuInv, MoveBlock \/ Copy, phase = "gpu", calls # << >>
  PROVE  HotGpuInv'
<1>t. HotTypeOK /\ HotCallsInv
  BY DEF HotInv
<1>1. UNCHANGED <<swapped, tiers, calls>> /\ free' \subseteq free
  BY DEF MoveBlock, PrepareMove, PopTargets, Copy, CopyBlocks, schedVars, queues, control, placeVars,
     poolVars
<1>2. ~ Blocked
  <2>1. CASE MoveBlock
    BY <1>t, <2>1, BlockedStays
  <2>2. CASE Copy
    BY <2>2 DEF Copy, CopyBlocks, Blocked
  <2> QED BY <2>1, <2>2
<1>3. PICK q \in Seq(HotPending) : q = calls
  BY <1>t DEF HotTypeOK, HotPending
<1>4. PICK n \in Nat : n = Len(q) /\ n > 0 /\ q[1] = Top
  BY <1>t, <1>3, GpuShape
<1>5. GpuStackOk(q)
  BY <1>2, <1>3, GpuStackNow
<1>6. \A t : FreeIn(t)' \subseteq FreeIn(t)
  BY <1>1 DEF FreeIn
<1>7. ASSUME NEW l, NEW x, HotGpuLoop(l, x) PROVE HotGpuLoop(l, x)'
  BY <1>1, <1>7 DEF HotGpuLoop, OnGpu, BlocksOn
<1>8. ASSUME NEW B, NEW f, Further(B, f) PROVE Further(B, f)'
  BY <1>1, <1>8 DEF Further
<1>9. CASE n = 1
  <2>1. HotGpuLoop(q[1], {})'
    BY <1>4, <1>5, <1>7, <1>9 DEF GpuStackOk
  <2>2. GpuStackOk(q)'
    BY <1>4, <1>9, <2>1 DEF GpuStackOk
  <2> QED BY <1>1, <1>3, <2>2, GpuStackNext
<1>10. CASE n # 1
  <2>1. PICK B : B = ToSet(q[n - 1].to)
    OBVIOUS
  <2>2. InnerOk(q[n - 1], q[n]) /\ Deep(q, B)
    BY <1>4, <1>5, <1>10, <2>1 DEF GpuStackOk
  <2>3. Deep(q, B)'
    BY <1>8, <2>2 DEF Deep
  <2>4. plan'.to \in B
    <3>1. CASE MoveBlock
      <4>1. Top.op = "demote" /\ Top.to # << >> /\ plan'.to = Head(Top.to)
        BY <3>1 DEF MoveBlock, InDemote, PrepareMove, StartPlan
      <4>2. Top.to \in Seq(Tier)
        BY <1>t, <4>1, HotTop DEF HotTypeOK, HotPending, DemoteCall
      <4>3. Head(Top.to) \in ToSet(Top.to)
        BY <4>1, <4>2, HeadTailSet
      <4>4. CASE n = 2
        BY <1>4, <2>1, <4>1, <4>3, <4>4
      <4>5. CASE n # 2
        <5>1. 1 \in 1 .. n - 2
          BY <1>4, <1>10, <4>5
        <5>2. Further(B, Top)
          BY <1>4, <2>2, <5>1 DEF Deep
        <5> QED BY <4>1, <4>3, <5>2 DEF Further
      <4> QED BY <4>4, <4>5
    <3>2. CASE Copy
      <4>1. plan # NoPlan /\ plan' = [plan EXCEPT !.copied = TRUE]
        BY <3>2 DEF Copy, CopyBlocks
      <4>2. plan'.to = plan.to
        BY <4>1
      <4> QED BY <2>1, <2>2, <4>1, <4>2 DEF InnerOk
    <3> QED BY <3>1, <3>2
  <2>5. InnerOk(q[n - 1], q[n])'
    <3>1. HotGpuLoop(q[n], {<<q[n - 1].seq, q[n - 1].index>>})'
      BY <1>7, <2>2 DEF InnerOk
    <3> QED BY <1>6, <2>1, <2>2, <2>4, <3>1 DEF InnerOk
  <2>6. GpuStackOk(q)'
    BY <1>4, <1>10, <2>1, <2>3, <2>5 DEF GpuStackOk
  <2> QED BY <1>1, <1>3, <2>6, GpuStackNext
<1> QED BY <1>9, <1>10

(* A block of a lower tier arrived further down, which leaves the passed   *)
(* tiers full; when a block of the GPU did, the loop begins a new pass.    *)
LEMMA GpuCommit ==
  ASSUME IndInv, HotInv, HotGpuInv, CommitBlock, phase = "gpu", calls' # << >>
  PROVE  HotGpuInv'
<1>t. /\ HotTypeOK /\ HotCallsInv /\ HotPlanInv /\ HomeInv /\ TypeOK /\ TagsAgree /\ QueueTypes
  BY DEF HotInv, HotTypeOK, IndInv
<1>1. calls # << >> /\ CommitMove /\ plan # NoPlan /\ DOMAIN plan.dst = {Top.index}
  BY <1>t, BlockOwner DEF CommitBlock
<1>2. PICK q \in Seq(HotPending) : q = calls
  BY <1>t DEF HotTypeOK, HotPending
<1>3. /\ Top.op = "demote" /\ plan.seq = Top.seq /\ Top \in DemoteCall
      /\ calls[2].op \in {"gpu", "preempt"} <=> Len(calls) = 2
  BY <1>t, <1>1, GpuShape, BlockCall
<1>4. PICK n \in Nat : n = Len(q) /\ n > 1 /\ q[1] = Top /\ q # << >>
  BY <1>t, <1>1, <1>2, <1>3, GpuShape
<1>5. n # 2
  <2> SUFFICES ASSUME n = 2 PROVE FALSE
    OBVIOUS
  <2>1. calls' = Tail(Tail(calls))
    BY <1>2, <1>3, <1>4 DEF CommitBlock
  <2>2. Tail(q) \in Seq(HotPending) /\ Len(Tail(q)) = 1 /\ Tail(q) # << >>
    <3>1. Tail(q) \in Seq(HotPending) /\ Len(Tail(q)) = 1
      BY <1>4
    <3>2. Tail(q) # << >>
      BY <1>t, <1>1, <1>2, BlockCall
    <3> QED BY <3>1, <3>2
  <2>3. Tail(Tail(q)) = << >>
    BY <2>2, LastCall
  <2> QED BY <1>2, <2>1, <2>3
<1>6. n > 2
  BY <1>4, <1>5
<1>7. calls' = Tail(q) /\ swapped' = swapped
  <2>1. calls[2].op \notin {"gpu", "preempt"}
    BY <1>2, <1>3, <1>4, <1>5
  <2> QED BY <1>2, <2>1 DEF CommitBlock
<1>8. PICK B : B = ToSet(q[n - 1].to)
  OBVIOUS
<1>9. InnerOk(q[n - 1], q[n]) /\ Deep(q, B)
  <2>1. ~ Blocked
    BY <1>1 DEF Blocked
  <2>2. GpuStackOk(q)
    BY <1>1, <1>2, <2>1, GpuStackNow
  <2> QED BY <1>4, <1>5, <1>6, <1>8, <2>2 DEF GpuStackOk
<1>10. PICK r : r = Tail(q)
  OBVIOUS
<1>11. r \in Seq(HotPending) /\ Len(r) = n - 1 /\ SameEnd(r, q) /\ Deep(r, B)
  BY <1>4, <1>6, <1>9, <1>10, DeepPop
<1>12. Further(B, Top) /\ plan.to \in B
  <2>1. 1 \in 1 .. n - 2
    BY <1>6
  <2> QED BY <1>1, <1>4, <1>8, <1>9, <2>1 DEF Deep, InnerOk
<1>13. ASSUME NEW s \in Seqs, NEW i \in DOMAIN tiers[s], tiers[s][i] \in B
       PROVE  i \in DOMAIN tiers'[s] /\ tiers'[s][i] \in B
  <2>1. CASE s # plan.seq
    BY <1>1, <1>13, <2>1, MoveKeepsSize
  <2>2. CASE s = plan.seq
    <3>1. tiers'[s] = [j \in DOMAIN tiers[s] |-> IF j \in DOMAIN plan.dst THEN plan.to ELSE tiers[s][j]]
      BY <1>1, <2>2, MoveKeepsSize
    <3> QED BY <1>12, <1>13, <3>1
  <2> QED BY <2>1, <2>2
<1>14. ASSUME NEW f \in HotPending, Further(B, f) PROVE Further(B, f)'
  <2>1. CASE f.op = "demote"
    <3>1. f.seq \in Seqs
      BY <2>1 DEF HotPending, DemoteCall, LoopCall
    <3> QED BY <1>13, <1>14, <2>1, <3>1 DEF Further
  <2>2. CASE f.op # "demote"
    <3>1. f.items \in Seq(Seqs \X Nat)
      BY <2>2 DEF HotPending, DemoteCall, LoopCall
    <3>2. \A p \in ToSet(f.items) : p[1] \in Seqs
      BY <3>1, SetOfSeq
    <3> QED BY <1>13, <1>14, <2>2, <3>2 DEF Further
  <2> QED BY <2>1, <2>2
<1>15. Deep(r, B)'
  <2>1. ASSUME NEW i \in 1 .. Len(r) - 2 PROVE Further(B, r[i])'
    <3>1. r[i] \in HotPending
      BY <1>11, <2>1
    <3> QED BY <1>11, <1>14, <2>1, <3>1 DEF Deep
  <2> QED BY <2>1 DEF Deep
<1>16. ASSUME NEW t \in Tier \ ({GPU} \cup B) PROVE FreeIn(t)' = {}
  <2>1. FreeIn(t) = {}
    BY <1>8, <1>9, <1>16 DEF InnerOk
  <2>2. free' = free \cup Freed(ImageOf(plan.src))
    BY <1>1 DEF CommitMove
  <2>3. ASSUME NEW b \in Freed(ImageOf(plan.src)) PROVE TierOf[b] # t
    <3>1. /\ DOMAIN plan.src = DOMAIN plan.dst
          /\ \A i \in DOMAIN plan.dst : table[plan.seq][i] = plan.src[i]
      BY <1>1 DEF CommitMove, IndInv, PlanSound
    <3>2. b = table[Top.seq][Top.index]
      BY <1>1, <1>3, <3>1 DEF Freed, ImageOf
    <3>3. Top.seq \in Seqs /\ Top.index \in DOMAIN tiers[Top.seq] /\ tiers[Top.seq][Top.index] \in B
      BY <1>3, <1>12 DEF Further, DemoteCall
    <3>4. TierOf[b] = tiers[Top.seq][Top.index]
      BY <3>2, <3>3, OwnedBlocks
    <3> QED BY <3>3, <3>4
  <2> QED BY <2>1, <2>2, <2>3 DEF FreeIn
<1>17. plan' = NoPlan
  BY <1>1, MoveKeepsSize
<1>18. ASSUME NEW l, NEW x, HotGpuLoop(l, x) PROVE HotGpuLoop(l, x)'
  <2>1. PICK Q \in SUBSET Seqs : Q = ToSet(swapped)
    BY <1>t, SetOfSeq DEF QueueTypes
  <2>2. OnGpu(Q)' \subseteq OnGpu(Q)
    BY DemotionShrinks
  <2>3. ToSet(swapped)' = Q
    BY <1>7, <2>1
  <2> QED BY <1>18, <2>1, <2>2, <2>3 DEF HotGpuLoop
<1>19. InnerOk(q[n - 1], q[n])'
  <2>1. HotGpuLoop(q[n], {<<q[n - 1].seq, q[n - 1].index>>})'
    BY <1>9, <1>18 DEF InnerOk
  <2> QED BY <1>8, <1>9, <1>16, <1>17, <2>1 DEF InnerOk
<1>20. GpuStackOk(r)'
  <2>1. Len(r) # 1 /\ r[Len(r)] = q[n] /\ r[Len(r) - 1] = q[n - 1]
    BY <1>4, <1>6, <1>11 DEF SameEnd
  <2> QED BY <1>8, <1>15, <1>19, <2>1 DEF GpuStackOk
<1>21. calls' = r
  BY <1>7, <1>10
<1> QED BY <1>20, <1>21, GpuStackNext

LEMMA GpuStep ==
  ASSUME IndInv, HotInv, Unshared, HotGpuInv, SharedSteps \/ OwnSteps \/ FailTransfer
  PROVE  HotGpuInv'
<1>t. /\ HotTypeOK /\ HotCallsInv /\ HotTodoInv /\ HotPlanInv
  BY DEF HotInv
<1>1. CASE phase' = "gpu" /\ calls' # << >>
  <2>1. phase = "gpu"
    BY <1>t, <1>1, GpuSteps
  <2>2. CASE GpuPass \/ PreemptForGpu
    BY <1>1, <2>2, GpuBegins
  <2>3. CASE MoveBlock \/ Copy
    <3>1. calls # << >>
      BY <1>1, <2>3 DEF MoveBlock, Copy, schedVars, control
    <3> QED BY <2>1, <2>3, <3>1, GpuMove
  <2> QED BY <1>t, <1>1, <2>1, <2>2, <2>3, GpuSteps, GpuNextBlock, GpuReturn, GpuLookBelow, GpuLookFurther,
             GpuCommit
<1>2. CASE ~ (phase' = "gpu" /\ calls' # << >>)
  BY <1>2 DEF HotGpuInv
<1> QED BY <1>1, <1>2

-----------------------------------------------------------------------------
(***************************************************************************)
(* The invariant, and the errors about swapped requests.                   *)
(***************************************************************************)
LEMMA SpaceAtFirst == ASSUME HotInit PROVE HotSpaceInv
<1>1. /\ swapped = << >> /\ victim = NoSeq /\ calls = << >> /\ plan = NoPlan /\ phase = "idle"
  BY DEF HotInit, SchedInit, Init
<1>2. ToSet(<< >>) = {}
  BY DEF ToSet
<1> QED BY <1>1, <1>2 DEF HotSpaceInv, Restorable, HotVictimInv, HotCooledInv, HotGpuInv, HotRestoreInv

LEMMA SpaceStutter ==
  ASSUME HotSpaceInv, UNCHANGED allVars PROVE HotSpaceInv'
<1> USE DEF allVars, schedVars, queues, step, control, vars, seqVars, placeVars, poolVars
<1>0. UNCHANGED <<tokens, table, tiers, plan, free, moved, swapped, victim, calls, phase, batch, todo>>
  OBVIOUS
<1>1. ASSUME NEW S, NEW s PROVE FitsBeside(S, s)' <=> FitsBeside(S, s)
  BY <1>0 DEF FitsBeside, OnGpu, BlocksOn, Size, Extra, NeedsBlock, Capacity
<1>2. Blocked => Blocked'
  BY <1>0, BlockedSame
<1>3. Restorable'
  BY <1>0, <1>1 DEF HotSpaceInv, Restorable
<1>4. HotVictimInv'
  BY <1>0, <1>1, <1>2 DEF HotSpaceInv, HotVictimInv
<1>5. HotCooledInv'
  <2>1. Restoring => Restoring'
    BY <1>0 DEF Restoring, Missing
  <2>2. FreeIn(GPU)' = FreeIn(GPU) /\ OnGpu(ToSet(swapped))' = OnGpu(ToSet(swapped))
    BY <1>0 DEF FreeIn, OnGpu, BlocksOn
  <2> QED BY <1>0, <1>2, <2>1, <2>2 DEF HotSpaceInv, HotCooledInv
<1>6. HotGpuInv'
  <2>1. CASE phase = "gpu" /\ calls # << >>
    BY <1>0, <2>1, GpuStackNow, GpuFrame DEF HotSpaceInv
  <2>2. CASE ~ (phase = "gpu" /\ calls # << >>)
    BY <1>0, <2>2 DEF HotGpuInv
  <2> QED BY <2>1, <2>2
<1>7. HotRestoreInv'
  BY <1>0 DEF HotSpaceInv, HotRestoreInv, CanAppend, NeedsBlock, FreeIn
<1> QED BY <1>3, <1>4, <1>5, <1>6, <1>7 DEF HotSpaceInv

LEMMA SpaceStep ==
  ASSUME GpuHeadroom, IndInv, HotInv, shared \/ HotSpaceInv, IndInv', HotInv', [HotNext]_hotVars
  PROVE  shared' \/ HotSpaceInv'
<1> SUFFICES ASSUME ~ shared' PROVE HotSpaceInv'
  OBVIOUS
<1>h. HotSpaceInv /\ Unshared /\ Unshared'
  BY HistoryStep DEF HotInv, HistoryOk, Remembered
<1>1. /\ Restorable /\ HotVictimInv /\ HotCooledInv /\ HotGpuInv /\ HotRestoreInv
  BY <1>h DEF HotSpaceInv
<1>2. CASE UNCHANGED allVars
  BY <1>h, <1>2, SpaceStutter
<1>3. CASE SharedSteps \/ OwnSteps \/ FailTransfer
  <2>1. Restorable' /\ HotRestoreInv'
    BY <1>h, <1>1, <1>3, RestorableStep, RestoreStep
  <2>2. HotVictimInv' /\ HotCooledInv'
    BY <1>h, <1>1, <1>3, VictimStep, CooledStep
  <2>3. HotGpuInv'
    BY <1>h, <1>1, <1>3, GpuStep
  <2> QED BY <2>1, <2>2, <2>3 DEF HotSpaceInv
<1> QED BY <1>2, <1>3, HotCases

LEMMA SpaceTogether ==
  ASSUME GpuHeadroom PROVE HotSpec => [](IndInv /\ HotIndInv)
<1>1. HotInit => HotSpaceInv
  BY SpaceAtFirst
<1>2. IndInv /\ HotInv /\ IndInv' /\ HotInv' /\ (shared \/ HotSpaceInv) /\ [HotNext]_hotVars
        => (shared \/ HotSpaceInv)'
  BY SpaceStep
<1>3. HotInv /\ RankTypeOK /\ (shared \/ HotSpaceInv) => HotIndInv
  BY DEF HotIndInv
<1> QED BY <1>1, <1>2, <1>3, HotTogether, RankTyped, PTL DEF HotSpec

(* A request never has more tokens than it may.                            *)
Lengths ==
  \A s \in Seqs :
    /\ Len(tokens[s]) <= Len(Prompt[s]) + MaxTokens[s]
    /\ status[s] # "finished" => Len(tokens[s]) < Len(Prompt[s]) + MaxTokens[s]

LEMMA LengthTypes ==
  ASSUME NEW s \in Seqs
  PROVE  Len(Prompt[s]) \in Nat /\ MaxTokens[s] \in Nat \ {0}
BY ConstantsAssumption

LEMMA LengthsKept ==
  ASSUME Lengths, tokens' = tokens,
         \A s \in Seqs : status'[s] # "finished" => status[s] # "finished"
  PROVE  Lengths'
BY DEF Lengths

LEMMA LengthsStep ==
  ASSUME IndInv, Lengths, [Next]_vars
  PROVE  Lengths'
<1> USE DEF vars, seqVars
<1>t. TypeOK /\ status \in [Seqs -> {"new", "waiting", "running", "swapped", "finished"}]
  BY DEF IndInv, TypeOK
<1>1. ASSUME tokens' = tokens, status' = status PROVE Lengths'
  BY <1>1, LengthsKept
<1>2. ASSUME tokens' = tokens, NEW s \in Seqs, NEW x, status[s] # "finished",
             status' = [status EXCEPT ![s] = x]
      PROVE  Lengths'
  BY <1>t, <1>2, LengthsKept
<1>3. ASSUME NEW s \in Seqs, s \in computed PROVE status[s] # "finished"
  BY <1>3 DEF IndInv, ScheduleSound, ScheduleOf
<1>4. ASSUME NEW s \in Seqs, NEW t \in Token, PostToken(s, t) \/ PostFinish(s, t) PROVE Lengths'
  <2>1. /\ s \in computed /\ tokens' = [tokens EXCEPT ![s] = Append(@, t)]
        /\ status' = [status EXCEPT ![s] = "finished"] \/ (status' = status /\ ~ Ends(s, t))
    BY <1>4 DEF PostToken, PostFinish
  <2>2. PICK n \in Nat, k \in Nat, m \in Nat : n = Len(tokens[s]) /\ k = Len(Prompt[s]) /\ m = MaxTokens[s]
    BY <1>t, LengthTypes, SeqTypes
  <2>3. n < k + m
    BY <1>3, <2>1, <2>2 DEF Lengths
  <2>4. Len(tokens'[s]) = n + 1
    BY <1>t, <2>1, <2>2, SeqTypes DEF TypeOK
  <2>5. status'[s] # "finished" => n + 1 < k + m
    <3>1. CASE status' = status /\ ~ Ends(s, t)
      <4>1. (n - k) + 1 # m
        BY <2>2, <3>1 DEF Ends, Completed
      <4> QED BY <2>3, <4>1
    <3>2. CASE status' = [status EXCEPT ![s] = "finished"]
      BY <1>t, <3>2
    <3> QED BY <2>1, <3>1, <3>2
  <2>6. ASSUME NEW r \in Seqs, r # s PROVE tokens'[r] = tokens[r] /\ status'[r] = status[r]
    BY <1>t, <2>1, <2>6 DEF TypeOK
  <2>7. Len(tokens'[s]) <= Len(Prompt[s]) + MaxTokens[s]
    BY <2>2, <2>3, <2>4
  <2>8. status'[s] # "finished" => Len(tokens'[s]) < Len(Prompt[s]) + MaxTokens[s]
    BY <2>2, <2>4, <2>5
  <2>9. ASSUME NEW r \in Seqs
        PROVE  /\ Len(tokens'[r]) <= Len(Prompt[r]) + MaxTokens[r]
               /\ status'[r] # "finished" => Len(tokens'[r]) < Len(Prompt[r]) + MaxTokens[r]
    <3>1. CASE r = s
      BY <2>7, <2>8, <3>1
    <3>2. CASE r # s
      BY <2>6, <3>2 DEF Lengths
    <3> QED BY <3>1, <3>2
  <2> QED BY <2>9 DEF Lengths
<1>5. CASE UNCHANGED vars
  BY <1>1, <1>5
<1>6. ASSUME NEW s \in Seqs, Add(s) \/ Run(s) \/ Prefill(s) \/ PostChunk(s) \/ Recompute(s) PROVE Lengths'
  <2>1. CASE Add(s)
    BY <1>2, <2>1 DEF Add
  <2>2. CASE Run(s) \/ PostChunk(s)
    BY <1>1, <2>2 DEF Run, PostChunk
  <2>3. CASE Recompute(s)
    <3>1. status[s] # "finished" /\ tokens' = tokens /\ status' = [status EXCEPT ![s] = "waiting"]
      BY <2>3 DEF Recompute
    <3> QED BY <1>2, <3>1
  <2>4. ASSUME NEW c, PrefillMore(s, c) PROVE Lengths'
    <3>1. status[s] # "finished" /\ tokens' = tokens
          /\ (status' = status \/ \E x : status' = [status EXCEPT ![s] = x])
      BY <2>4 DEF PrefillMore, ScheduleChunk
    <3> QED BY <1>1, <1>2, <3>1
  <2>5. ASSUME NEW n, NEW fresh, NEW c, PrefillNew(s, n, fresh, c) PROVE Lengths'
    <3>1. status[s] # "finished" /\ tokens' = tokens
          /\ (status' = status \/ \E x : status' = [status EXCEPT ![s] = x])
      BY <2>5 DEF PrefillNew, ScheduleChunk
    <3> QED BY <1>1, <1>2, <3>1
  <2> QED BY <1>6, <2>1, <2>2, <2>3, <2>4, <2>5 DEF Prefill
<1>7. ASSUME NEW s \in Seqs, Prepare(s) PROVE Lengths'
  BY <1>1, <1>7 DEF Prepare, PrepareSwap, PrepareMove
<1>8. ASSUME NEW s \in Seqs, NEW b \in Block, Decode(s, b) \/ Resume(s, b) PROVE Lengths'
  <2>1. status[s] # "finished" /\ tokens' = tokens
        /\ (status' = status \/ \E x : status' = [status EXCEPT ![s] = x])
    BY <1>8 DEF Decode, Resume
  <2> QED BY <1>1, <1>2, <2>1
<1>9. CASE CopyBlocks \/ ClearPrefixCache \/ \E W : AbortTransfer(W)
  BY <1>1, <1>9 DEF CopyBlocks, ClearPrefixCache, AbortTransfer
<1>10. CASE CommitSwap \/ CommitMove
  <2>1. plan # NoPlan /\ tokens' = tokens
    BY <1>10 DEF CommitSwap, CommitMove, NoPlan
  <2>2. plan.seq \in Seqs /\ status[plan.seq] # "finished"
    BY <1>t, <2>1 DEF IndInv, TypeOK, PlanSound, Active
  <2>3. status' = StatusAfterMove \/ \E x : status' = [status EXCEPT ![plan.seq] = x]
    BY <1>10 DEF CommitSwap, CommitMove
  <2>4. \E x : status' = [status EXCEPT ![plan.seq] = x]
    BY <2>3 DEF StatusAfterMove
  <2> QED BY <1>2, <2>1, <2>2, <2>4
<1>11. CASE Next
  <2>1. ASSUME NEW s \in Seqs, Post(s) PROVE Lengths'
    BY <1>4, <1>6, <2>1 DEF Post
  <2>2. CASE Transfer
    BY <1>9, <1>10, <2>2 DEF Transfer
  <2> QED BY <1>6, <1>7, <1>8, <1>9, <1>11, <2>1, <2>2 DEF Next
<1> QED BY <1>5, <1>11

LEMMA HotLengths == HotSpec => []Lengths
<1>1. HotInit => Lengths
  <2>1. HotInit => tokens = Prompt
    BY DEF HotInit, SchedInit, Init
  <2>2. \A n \in Nat, m \in Nat \ {0} : n <= n + m /\ n < n + m
    OBVIOUS
  <2> QED BY <2>1, <2>2, LengthTypes DEF Lengths
<1>2. IndInv /\ HotInv /\ Lengths /\ [HotNext]_hotVars => Lengths'
  BY HotStepRefines, LengthsStep DEF HotInv
<1> QED BY <1>1, <1>2, HotTogether, PTL DEF HotSpec

(* What is swapped is within the transfer budget as a whole.               *)
LEMMA WithinBudget ==
  ASSUME IndInv, Lengths, BudgetCoversRequests, MaxTransfer # -1, NEW s \in Seqs, status[s] = "swapped"
  PROVE  Cardinality(Missing(s)) <= MaxTransfer
<1>t. TypeOK /\ TagsAgree
  BY DEF IndInv
<1>1. PICK n \in Nat, k \in Nat, m \in Nat, b \in Nat :
        n = Len(tokens[s]) /\ k = Len(Prompt[s]) /\ m = MaxTokens[s] /\ b = BlockSize /\ b > 1
  BY <1>t, LengthTypes, SeqTypes
<1>2. n < k + m
  BY <1>1 DEF Lengths
<1>3. numSched[s] = 0 /\ Active(s)
  BY <1>t, SeqTypes DEF IndInv, ScheduleSound, ScheduleOf, Active
<1>4. Size(s) = BlocksSpanned(numCached[s]) /\ numCached[s] = n - 1
  BY <1>1, <1>3 DEF IndInv, TableCoversTokens, CoverOf, Size
<1>5. PICK c \in Nat : c = numCached[s] /\ c <= k + m
  BY <1>t, <1>2, <1>4, SeqTypes
<1>6. PICK d \in Nat : d = k + m
  OBVIOUS
<1>6a. (c + b - 1) \div b <= (d + b - 1) \div b
  <2>1. c <= d
    BY <1>5, <1>6
  <2> QED BY <1>1, <2>1, SpanMonotone
<1>7. Size(s) <= BlocksSpanned(k + m)
  BY <1>1, <1>4, <1>5, <1>6, <1>6a DEF BlocksSpanned
<1>8. BlocksSpanned(k + m) <= MaxTransfer
  BY <1>1 DEF BudgetCoversRequests
<1>9. BlocksSpanned(k + m) \in Nat /\ MaxTransfer \in Nat
  <2>1. (d + b - 1) \div b \in Nat
    BY <1>1, SpanBounds
  <2>2. BlocksSpanned(k + m) \in Nat
    BY <1>1, <1>6, <2>1 DEF BlocksSpanned
  <2>3. MaxTransfer \in Nat
    BY SchedulerAssumption
  <2> QED BY <2>2, <2>3
<1>10. Cardinality(Missing(s)) <= Size(s)
  <2>1. PICK i \in Nat, j \in Nat : i = Cardinality(OnGpu({s})) /\ j = Cardinality(Missing(s))
    BY <1>t, OnGpuCount, RequiredType
  <2>2. Size(s) = i + j
    BY <1>t, <2>1, SizeSplit
  <2> QED BY <2>1, <2>2
<1>11. Cardinality(Missing(s)) \in Nat /\ Size(s) \in Nat
  BY <1>t, RequiredType, SeqTypes DEF Size
<1> QED BY <1>7, <1>8, <1>9, <1>10, <1>11

(* When nothing runs, one of the swapped requests finds the blocks it      *)
(* needs: those that no swapped request has are free.                      *)
LEMMA SpaceLeft ==
  ASSUME IndInv, HotInv, Restorable, HotSwapInDone, waiting = << >>
  PROVE  ~ HotStalledOnSpace
<1> SUFFICES ASSUME HotStalledOnSpace PROVE FALSE
  OBVIOUS
<1>t. /\ HotTypeOK /\ HotCallsInv /\ HotTodoInv /\ HotPlanInv /\ HomeInv /\ QueueTypes
      /\ TypeOK /\ TagsAgree
  BY DEF HotInv, HotTypeOK, IndInv
<1>1. phase \in {"swapin", "restore"} /\ calls = << >> /\ plan = NoPlan
  BY <1>t DEF HotSwapInDone, InRestore, HotCallsInv, HotPlanInv
<1>2. swapped # << >> /\ running = << >> /\ \A s \in ToSet(swapped) : FreeCount(GPU) < Required(s)
  BY DEF HotStalledOnSpace
<1>3. PICK S \in SUBSET Seqs : S = ToSet(swapped) /\ S # {}
  BY <1>t, <1>2, SetOfSeq, HeadTailSet DEF QueueTypes
<1>4. ASSUME NEW r \in Seqs \ S PROVE OnGpu({r}) = {}
  <2>1. ToSet(<< >>) = {}
    BY DEF ToSet
  <2>2. status[r] \notin {"swapped", "waiting"}
    BY <1>t, <1>1, <1>3, <2>1 DEF HomeInv, WithStatus
  <2>3. TakenOut = << >> /\ Handled = {}
    BY <1>t, <1>1 DEF TakenOut, Handled, HotCallsInv
  <2>4. WithStatus("running") = {}
    BY <1>t, <1>1, <1>2, <2>1, <2>3 DEF HomeInv
  <2>5. status[r] # "running"
    BY <2>4 DEF WithStatus
  <2>6. status[r] \in {"new", "finished"}
    BY <1>t, <2>2, <2>5 DEF TypeOK
  <2>7. Len(table[r]) = 0 /\ DOMAIN tiers[r] = DOMAIN table[r]
    BY <1>t, <2>6 DEF IndInv, TableCoversTokens, CoverOf, TagsAgree, TagsOf
  <2>8. table[r] \in Seq(Block)
    BY <1>t, SeqTypes
  <2>9. DOMAIN tiers[r] = {}
    BY <2>7, <2>8
  <2> QED BY <2>9 DEF OnGpu, BlocksOn
<1>5. Capacity(GPU) - FreeCount(GPU) <= Cardinality(OnGpu(S))
  BY <1>1, <1>4, OnGpuAll
<1>6. PICK s \in S : FitsBeside(S \ {s}, s)
  BY <1>3 DEF Restorable
<1>7. PICK R \in SUBSET Seqs : R = S \ {s} /\ s \notin R /\ s \in Seqs /\ S = R \cup {s}
  BY <1>6
<1>8. PICK a \in Nat, g \in Nat, m \in Nat, e \in Nat :
        a = Cardinality(OnGpu(R)) /\ g = Cardinality(OnGpu({s})) /\ m = Cardinality(Missing(s)) /\ e = Extra(s)
  BY <1>t, <1>7, OnGpuCount, RequiredType
<1>9. Cardinality(OnGpu(S)) = a + g
  BY <1>t, <1>7, <1>8, OnGpuAdd
<1>10. Size(s) = g + m
  BY <1>t, <1>7, <1>8, SizeSplit
<1>11. PICK f \in Nat, k \in Nat : f = FreeCount(GPU) /\ k = Capacity(GPU)
  BY <1>t, FreeGpu, GpuSize
<1>12. a + (g + m) + e <= k
  BY <1>6, <1>7, <1>8, <1>10, <1>11 DEF FitsBeside
<1>13. k - f <= a + g
  BY <1>5, <1>9, <1>11
<1>14. f < m + e
  BY <1>2, <1>3, <1>6, <1>8, <1>11 DEF Required
<1> QED BY <1>12, <1>13, <1>14

(* The invariant as a whole.  While the GPU watermark is below the size of *)
(* the GPU, and until a block is shared: a GPU block is left when          *)
(* _enforce_watermarks is done, and each victim of preempt can come back,  *)
(* so of any swapped requests one can be restored while the others keep    *)
(* the GPU blocks they have.                                               *)
THEOREM HotSpaceKept == ASSUME GpuHeadroom PROVE HotSpec => []HotIndInv
BY SpaceTogether, PTL

(* Until a block is shared - which without the prefix cache is never the   *)
(* case (HotUnshared) - partly demoted requests do not keep the GPU from   *)
(* each other: when a pass over the swapped queue scheduled nothing and no *)
(* other request waits or runs, one of them finds the blocks it needs, so  *)
(* that schedule never has to raise "Swapped requests cannot fit in        *)
(* available GPU blocks".                                                  *)
THEOREM HotNeverStarved ==
  ASSUME GpuHeadroom
  PROVE  HotSpec => [](HotSwapInDone /\ waiting = << >> /\ ~ shared => ~ HotStalledOnSpace)
<1>1. IndInv /\ HotIndInv => (HotSwapInDone /\ waiting = << >> /\ ~ shared => ~ HotStalledOnSpace)
  BY SpaceLeft DEF HotIndInv, HotSpaceInv
<1> QED BY <1>1, SpaceTogether, PTL

(* With the transfer budget that Config demands neither error about        *)
(* swapped requests is raised, nor the one about a single request, until a *)
(* block is shared.                                                        *)
THEOREM HotSwapInSafe ==
  ASSUME GpuHeadroom, BudgetCoversRequests
  PROVE  HotSpec => []HotSwapInNeverRaises
<1>1. IndInv /\ HotIndInv /\ Lengths => HotSwapInNeverRaises
  <2> SUFFICES ASSUME IndInv, HotIndInv, Lengths, phase # "raised", ~ shared
               PROVE  HotSwappedFit /\ ~ (HotSwapInDone /\ batch = << >> /\ HotStalled)
    BY DEF HotSwapInNeverRaises
  <2>1. HotInv /\ Restorable /\ HotPlaceInv /\ HomeInv
    BY DEF HotIndInv, HotSpaceInv, HotInv
  <2>2. HotSwappedFit
    BY <2>1 DEF HotPlaceInv, HotSwappedFit
  <2>3. ~ HotStalledOnBudget
    <3>1. \A s \in ToSet(swapped) : s \in Seqs /\ status[s] = "swapped"
      BY <2>1 DEF HomeInv, WithStatus
    <3>2. ASSUME MaxTransfer # -1, NEW s \in ToSet(swapped)
          PROVE  ~ (Cardinality(Missing(s)) > MaxTransfer)
      <4>1. Cardinality(Missing(s)) <= MaxTransfer
        BY <3>1, <3>2, WithinBudget
      <4>2. Cardinality(Missing(s)) \in Nat /\ MaxTransfer \in Nat
        BY <3>1, <3>2, RequiredType, SchedulerAssumption DEF IndInv
      <4> QED BY <4>1, <4>2
    <3> QED BY <3>2 DEF HotStalledOnBudget
  <2>4. ASSUME HotSwapInDone, waiting = << >> PROVE ~ HotStalledOnSpace
    BY <2>1, <2>4, SpaceLeft
  <2> QED BY <2>2, <2>3, <2>4 DEF HotStalled
<1> QED BY <1>1, SpaceTogether, HotLengths, PTL
=============================================================================
