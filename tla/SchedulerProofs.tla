--------------------------- MODULE SchedulerProofs ---------------------------
(***************************************************************************)
(* Theorems about Scheduler: it keeps the discipline that BlockManager     *)
(* asks of its client, whatever the policy parameters are, so everything   *)
(* proved of BlockManager holds of the scheduled engine, and a step never  *)
(* moves more blocks than the transfer budget.                             *)
(***************************************************************************)
EXTENDS Scheduler, BlockManagerProofs

(***************************************************************************)
(* The helpers on sequences keep the type of their elements.               *)
(***************************************************************************)
LEMMA ByAgeType ==
  ASSUME NEW S \in SUBSET Seqs, NEW q \in ByAge(S)
  PROVE  q \in Seq(Seqs)
<1>1. IsFiniteSet(S)
  BY ConstantsAssumption, FS_Subset
<1>2. Cardinality(S) \in Nat
  BY <1>1, FS_CardinalityType
<1>3. q \in [1 .. Cardinality(S) -> Seqs]
  BY DEF ByAge
<1> QED BY <1>2, <1>3

LEMMA ToSetType ==
  ASSUME NEW q \in Seq(Seqs)
  PROVE  ToSet(q) \in SUBSET Seqs
BY DEF ToSet

LEMMA WithoutType ==
  ASSUME NEW q \in Seq(Seqs), NEW s, NEW r \in Without(q, s)
  PROVE  r \in Seq(Seqs)
<1>1. PICK i \in DOMAIN q : r = RemoveAt(q, i)
  BY DEF Without
<1>2. /\ SubSeq(q, 1, i - 1) \in Seq(Seqs)
      /\ SubSeq(q, i + 1, Len(q)) \in Seq(Seqs)
  <2>1. i \in 1 .. Len(q)
    BY <1>1
  <2> QED BY <2>1
<1> QED BY <1>1, <1>2 DEF RemoveAt

LEMMA MiddleType == Middle \in Seq(Tier)
<1>1. CacheTiers \in Seq(Tier) /\ Len(CacheTiers) \in Nat
  BY ConstantsAssumption DEF Tier
<1>2. SubSeq(CacheTiers, 2, Len(CacheTiers) - 1) \in Seq(Tier)
  BY <1>1
<1>3. ASSUME NEW q \in Seq(Tier) PROVE Reverse(q) \in Seq(Tier)
  BY DEF Reverse
<1> QED BY <1>2, <1>3 DEF Middle

LEMMA LowerSeqType ==
  ASSUME NEW t \in Tier PROVE LowerSeq(t) \in Seq(Tier)
<1>1. CacheTiers \in Seq(Tier) /\ Len(CacheTiers) \in Nat
  BY ConstantsAssumption DEF Tier
<1>2. PICK i \in DOMAIN CacheTiers : i = CHOOSE j \in DOMAIN CacheTiers : CacheTiers[j] = t
  BY DEF Tier
<1>3. i \in 1 .. Len(CacheTiers)
  BY <1>1, <1>2
<1>4. SubSeq(CacheTiers, i + 1, Len(CacheTiers)) \in Seq(Tier)
  BY <1>1, <1>3
<1> QED BY <1>2, <1>4 DEF LowerSeq

LEMMA GpuIsTier == GPU \in Tier
BY ConstantsAssumption DEF Tier

LEMMA DownType ==
  ASSUME NEW s \in Seqs, NEW t \in Tier PROVE Down(s, t) \in DownCall
BY LowerSeqType DEF Down, DownCall

Total(R) == \A r, s \in Seqs : r # s => (<<r, s>> \in R <=> <<s, r>> \notin R)

LEMMA ByIdTotal == ById \subseteq Seqs \X Seqs /\ Total(ById)
<1> SUFFICES ASSUME NEW r \in Seqs, NEW s \in Seqs, r # s
             PROVE  <<r, s>> \in ById <=> <<s, r>> \notin ById
  BY DEF ById, Total
<1>1. PICK i \in DOMAIN Order, j \in DOMAIN Order : Order[i] = r /\ Order[j] = s
  BY SchedulerAssumption DEF ImageOf
<1>2. i \in Nat /\ j \in Nat /\ i # j
  BY <1>1, SchedulerAssumption
<1>3. \A k \in DOMAIN Order : (Order[k] = r => k = i) /\ (Order[k] = s => k = j)
  BY <1>1, SchedulerAssumption DEF Injective
<1>4. <<r, s>> \in ById <=> i < j
  BY <1>1, <1>3 DEF ById
<1>5. <<s, r>> \in ById <=> j < i
  BY <1>1, <1>3 DEF ById
<1> QED BY <1>2, <1>4, <1>5

LEMMA TouchedTotal ==
  ASSUME NEW S, Total(older)
  PROVE  Touched(S) \subseteq Seqs \X Seqs /\ Total(Touched(S))
<1> SUFFICES ASSUME NEW r \in Seqs, NEW s \in Seqs, r # s
             PROVE  <<r, s>> \in Touched(S) <=> <<s, r>> \notin Touched(S)
  BY DEF Touched, Total
<1>1. CASE r \in S /\ s \in S
  BY <1>1, ByIdTotal DEF Touched, Total
<1>2. CASE r \notin S /\ s \notin S
  BY <1>2 DEF Touched, Total
<1>3. CASE (r \in S) # (s \in S)
  BY <1>3 DEF Touched
<1> QED BY <1>1, <1>2, <1>3

-----------------------------------------------------------------------------
(***************************************************************************)
(* Every step keeps the types of the scheduler's variables.                *)
(***************************************************************************)
LEMMA SizeType ==
  ASSUME TypeOK, NEW s \in Seqs PROVE Size(s) \in Nat
BY DEF TypeOK, Size

LEMMA TopType ==
  ASSUME SchedTypeOK, calls # << >>
  PROVE  /\ Top \in DownCall \cup FreeCall
         /\ Top.op = "down" => Top \in DownCall
         /\ Top.op = "free" => Top \in FreeCall
         /\ Tail(calls) \in Seq(DownCall \cup FreeCall)
<1>1. Top \in DownCall \cup FreeCall /\ Tail(calls) \in Seq(DownCall \cup FreeCall)
  BY DEF SchedTypeOK, QueueTypes, CallTypes, Top
<1> QED BY <1>1 DEF DownCall, FreeCall

(* A list of candidates or a batch that still has a request to visit. *)
LEMMA HeadType ==
  ASSUME NEW q \in Seq(Seqs), q # << >>
  PROVE  Head(q) \in Seqs /\ Tail(q) \in Seq(Seqs)
OBVIOUS

LEMMA OutsideTypes ==
  ASSUME QueueTypes,
         ResetStats \/ StartStep \/ \E s \in Seqs : Arrive(s)
  PROVE  QueueTypes'
<1>1. CASE ResetStats
  BY <1>1 DEF ResetStats, QueueTypes, queues, control
<1>2. CASE StartStep
  BY <1>2, MiddleType, SchedulerAssumption DEF StartStep, QueueTypes, queues
<1>3. ASSUME NEW s \in Seqs, Arrive(s) PROVE QueueTypes'
  BY <1>3 DEF Arrive, QueueTypes, step, control
<1> QED BY <1>1, <1>2, <1>3

LEMMA WatermarkTypes ==
  ASSUME TypeOK, SchedTypeOK, Watermarks
  PROVE  SchedTypeOK'
<1> USE DEF SchedTypeOK, QueueTypes, CallTypes, queues, step
<1>1. CASE VisitTier
  <2>1. Tail(levels) \in Seq(Tier)
    BY <1>1 DEF VisitTier
  <2>2. \A q \in ByAge(SwappedOn(Head(levels))) : q \in Seq(Seqs)
    <3>1. SwappedOn(Head(levels)) \in SUBSET Seqs
      BY ToSetType DEF SwappedOn
    <3> QED BY <3>1, ByAgeType
  <2> QED BY <1>1, <2>1, <2>2 DEF VisitTier
<1>2. CASE DemoteNext
  <2>1. Head(todo) \in Seqs /\ Tail(todo) \in Seq(Seqs)
    BY <1>2, HeadType DEF DemoteNext, TierDone
  <2>2. Head(levels) \in Tier
    BY <1>2 DEF DemoteNext
  <2>3. <<Down(Head(todo), Head(levels))>> \in Seq(DownCall \cup FreeCall)
    BY <2>1, <2>2, DownType
  <2> QED BY <1>2, <2>1, <2>3 DEF DemoteNext
<1>6. CASE EndTier
  <2>1. Tail(levels) \in Seq(Tier)
    BY <1>6 DEF EndTier
  <2> QED BY <1>6, <2>1 DEF EndTier
<1>3. CASE VisitGpu
  <2>1. \A q \in ByAge(ToSet(running)) : q \in Seq(Seqs)
    BY ToSetType, ByAgeType
  <2>2. todo' \in ByAge(ToSet(running)) \/ todo' = << >>
    BY <1>3 DEF VisitGpu
  <2>3. todo' \in Seq(Seqs)
    <3>1. << >> \in Seq(Seqs)
      OBVIOUS
    <3> HIDE DEF SchedTypeOK, QueueTypes, CallTypes, queues, step
    <3> QED BY <2>1, <2>2, <3>1
  <2> QED BY <1>3, <2>3 DEF VisitGpu
<1>4. CASE PreemptForWatermark
  <2> DEFINE s == Head(todo)
  <2>1. s \in Seqs /\ Tail(todo) \in Seq(Seqs)
    BY <1>4, HeadType DEF PreemptForWatermark, GpuDone
  <2>2. <<Down(s, GPU)>> \in Seq(DownCall \cup FreeCall)
    BY <2>1, GpuIsTier, DownType
  <2>3. \A r \in RunningWithout(s) : r \in Seq(Seqs)
    BY WithoutType DEF RunningWithout
  <2> HIDE DEF s
  <2> QED BY <1>4, <2>1, <2>2, <2>3 DEF PreemptForWatermark, s
<1>5. CASE EndWatermarks
  <2>1. \A q \in ByAge(ToSet(swapped)) : q \in Seq(Seqs)
    BY ToSetType, ByAgeType
  <2>2. todo' \in ByAge(ToSet(swapped)) \/ todo' = << >>
    BY <1>5 DEF EndWatermarks
  <2>3. todo' \in Seq(Seqs)
    <3>1. << >> \in Seq(Seqs)
      OBVIOUS
    <3> HIDE DEF SchedTypeOK, QueueTypes, CallTypes, queues, step
    <3> QED BY <2>1, <2>2, <3>1
  <2>4. phase' \in {"swapin", "prefill"}
    BY <1>5 DEF EndWatermarks
  <2> QED BY <1>5, <2>3, <2>4 DEF EndWatermarks
<1> QED BY <1>1, <1>2, <1>3, <1>4, <1>5, <1>6 DEF Watermarks

LEMMA CallUpdates ==
  /\ \A f \in DownCall : /\ [f EXCEPT !.cleared = TRUE] \in DownCall
                         /\ f.to # << >> =>
                              [f EXCEPT !.to = Tail(@), !.cleared = FALSE] \in DownCall
  /\ \A f \in FreeCall : f.seqs # << >> => [f EXCEPT !.seqs = Tail(@)] \in FreeCall
<1>1. ASSUME NEW f \in DownCall PROVE [f EXCEPT !.cleared = TRUE] \in DownCall
  BY DEF DownCall
<1>2. ASSUME NEW f \in DownCall, f.to # << >>
      PROVE  [f EXCEPT !.to = Tail(@), !.cleared = FALSE] \in DownCall
  <2>1. Tail(f.to) \in Seq(Tier)
    BY <1>2 DEF DownCall
  <2> QED BY <2>1 DEF DownCall
<1>3. ASSUME NEW f \in FreeCall, f.seqs # << >>
      PROVE  [f EXCEPT !.seqs = Tail(@)] \in FreeCall
  <2>1. Tail(f.seqs) \in Seq(Seqs)
    BY <1>3 DEF FreeCall
  <2> QED BY <2>1 DEF FreeCall
<1> QED BY <1>1, <1>2, <1>3

LEMMA RaiseTypes ==
  ASSUME QueueTypes, NEW q \in Seq(Seqs), Raise(q)
  PROVE  QueueTypes' /\ phase' = "raised" /\ calls' = << >>
BY SchedulerAssumption DEF Raise, QueueTypes, step

LEMMA TargetTypes ==
  ASSUME TypeOK, SchedTypeOK, Targets
  PROVE  SchedTypeOK'
<1> USE DEF SchedTypeOK, QueueTypes, CallTypes, queues, step
<1>a. calls # << >> /\ Top \in DownCall \cup FreeCall
  BY TopType DEF Targets, MakeRoom, NextTarget, MoveDown, EvictNext, EndFree, StayThere,
                 KeepRunning, RecomputeVictim, InDown, InFree
<1>b. Tail(calls) \in Seq(DownCall \cup FreeCall)
  BY <1>a, TopType
<1>1. CASE MakeRoom
  <2> DEFINE s == Top.seq
             t == Head(Top.to)
             cleared == [Top EXCEPT !.cleared = TRUE]
  <2>1. Top \in DownCall /\ Top.to # << >>
    BY <1>1, TopType DEF MakeRoom, InDown
  <2>2. s \in Seqs /\ t \in Tier /\ cleared \in DownCall
    <3>1. s \in Seqs /\ t \in Tier
      BY <2>1 DEF DownCall
    <3> QED BY <2>1, <3>1, CallUpdates
  <2>3. \A q \in ByAge(SwappedOn(t)) : Free(t, Size(s), q) \in FreeCall
    <3>1. SwappedOn(t) \in SUBSET Seqs
      BY ToSetType DEF SwappedOn
    <3> QED BY <2>2, <3>1, SizeType, ByAgeType DEF Free, FreeCall
  <2>4. PICK q \in ByAge(SwappedOn(t)) :
          calls' = (IF FreeCount(t) < Size(s) THEN <<Free(t, Size(s), q)>> ELSE << >>)
                     \o <<cleared>> \o Tail(calls)
    BY <1>1 DEF MakeRoom
  <2>5. Free(t, Size(s), q) \in DownCall \cup FreeCall /\ cleared \in DownCall \cup FreeCall
    BY <2>2, <2>3
  <2> HIDE DEF s, t, cleared
  <2>6. calls' \in Seq(DownCall \cup FreeCall)
    <3>1. CASE FreeCount(t) < Size(s)
      BY <1>b, <2>4, <2>5, <3>1
    <3>2. CASE ~ FreeCount(t) < Size(s)
      BY <1>b, <2>4, <2>5, <3>2
    <3> QED BY <3>1, <3>2
  <2> QED BY <1>1, <2>6 DEF MakeRoom
<1>2. CASE NextTarget
  <2>1. Top \in DownCall /\ Top.to # << >>
    BY <1>2, TopType DEF NextTarget, InDown
  <2>2. [Top EXCEPT !.to = Tail(@), !.cleared = FALSE] \in DownCall \cup FreeCall
    BY <2>1, CallUpdates
  <2>3. calls' = <<[Top EXCEPT !.to = Tail(@), !.cleared = FALSE]>> \o Tail(calls)
    BY <1>2 DEF NextTarget
  <2>4. calls' \in Seq(DownCall \cup FreeCall)
    BY <1>b, <2>2, <2>3
  <2> QED BY <1>2, <2>4 DEF NextTarget
<1>3. CASE MoveDown
  BY <1>3 DEF MoveDown, schedVars, control
<1>4. CASE EvictNext
  <2>1. Top \in FreeCall /\ Top.seqs # << >>
    BY <1>4, TopType DEF EvictNext, InFree
  <2>2. Down(Head(Top.seqs), Top.tier) \in DownCall \cup FreeCall
    BY <2>1, DownType DEF FreeCall
  <2>3. [Top EXCEPT !.seqs = Tail(@)] \in DownCall \cup FreeCall
    BY <2>1, CallUpdates
  <2>4. calls' = <<Down(Head(Top.seqs), Top.tier), [Top EXCEPT !.seqs = Tail(@)]>>
                   \o Tail(calls)
    BY <1>4 DEF EvictNext
  <2>5. calls' \in Seq(DownCall \cup FreeCall)
    BY <1>b, <2>2, <2>3, <2>4
  <2> QED BY <1>4, <2>5 DEF EvictNext
<1>5. CASE EndFree
  BY <1>5, <1>b DEF EndFree
<1>6. CASE StayThere
  BY <1>6, <1>b DEF StayThere
<1>7. CASE KeepRunning
  <2>1. Top.seq \in Seqs
    BY <1>7, TopType DEF KeepRunning, InDown, DownCall
  <2> QED BY <1>7, <2>1 DEF KeepRunning
<1>8. CASE RecomputeVictim
  <2>1. Top.seq \in Seqs
    BY <1>8, TopType DEF RecomputeVictim, InDown, DownCall
  <2> QED BY <1>8, <2>1 DEF RecomputeVictim
<1> QED BY <1>1, <1>2, <1>3, <1>4, <1>5, <1>6, <1>7, <1>8 DEF Targets

LEMMA FailTypes ==
  ASSUME QueueTypes, FailTransfer
  PROVE  QueueTypes' /\ phase' = "raised" /\ calls' = << >>
<1>1. Requeued \in Seq(Seqs)
  BY DEF Requeued, QueueTypes
<1> QED BY <1>1, RaiseTypes DEF FailTransfer

LEMMA TransferTypes ==
  ASSUME TypeOK, SchedTypeOK, Transfers \/ FailTransfer
  PROVE  SchedTypeOK'
<1>a. plan # NoPlan
  BY DEF Transfers, FailTransfer, Copy, CommitDown, CommitUp, CopyBlocks, CommitSwap,
         AbortTransfer, NoPlan
<1>b. plan.seq \in Seqs /\ Size(plan.seq) \in Nat
  BY <1>a, SizeType DEF TypeOK
<1>1. CASE Copy
  BY <1>1 DEF Copy, SchedTypeOK, QueueTypes, CallTypes, schedVars, queues, step, control
<1>2. CASE CommitDown
  <2>1. Tail(calls) \in Seq(DownCall \cup FreeCall)
    BY <1>2, TopType DEF CommitDown
  <2>2. Append(swapped, plan.seq) \in Seq(Seqs)
    BY <1>b DEF SchedTypeOK, QueueTypes, CallTypes
  <2>3. /\ swapped' \in Seq(Seqs)
        /\ cur' \in Seqs \cup {NoSeq} /\ victim' \in Seqs \cup {NoSeq}
    <3>1. CASE plan.seq = victim
      BY <1>2, <2>2, <3>1 DEF CommitDown, SchedTypeOK, QueueTypes, CallTypes
    <3>2. CASE plan.seq # victim
      BY <1>2, <3>2 DEF CommitDown, SchedTypeOK, QueueTypes, CallTypes
    <3> QED BY <3>1, <3>2
  <2>4. moved' \in Nat
    BY <1>2, <1>b DEF CommitDown, SchedTypeOK, QueueTypes, CallTypes
  <2> QED BY <1>2, <2>1, <2>3, <2>4 DEF CommitDown, SchedTypeOK, QueueTypes, CallTypes
<1>3. CASE CommitUp
  BY <1>3, <1>b DEF CommitUp, SchedTypeOK, QueueTypes, CallTypes, queues, control
<1>4. CASE FailTransfer
  <2> QED BY <1>4, FailTypes DEF SchedTypeOK, CallTypes
<1> QED BY <1>1, <1>2, <1>3, <1>4 DEF Transfers

LEMMA SwapInTypes ==
  ASSUME SchedTypeOK, SwapIn
  PROVE  SchedTypeOK'
<1> USE DEF SchedTypeOK, QueueTypes, CallTypes, queues, step
<1>1. CASE SkipSwapped
  BY <1>1, HeadType DEF SkipSwapped
<1>2. CASE MoveUp
  BY <1>2 DEF MoveUp, schedVars, control
<1>3. CASE Readmit
  <2> DEFINE s == Head(todo)
  <2>1. s \in Seqs /\ Tail(todo) \in Seq(Seqs)
    BY <1>3, HeadType DEF Readmit
  <2>2. \A r \in Without(swapped, s) : r \in Seq(Seqs)
    BY WithoutType
  <2> HIDE DEF s
  <2> QED BY <1>3, <2>1, <2>2 DEF Readmit, s
<1>4. CASE EndSwapIn
  BY <1>4 DEF EndSwapIn
<1> QED BY <1>1, <1>2, <1>3, <1>4 DEF SwapIn

(* The chunk of a prompt fits the tokens left in the batch. *)
LEMMA ScheduledTypes ==
  ASSUME QueueTypes, waiting # << >>, NEW n,
         room > 0, Uncomputed(Head(waiting), n) \in Nat,
         Scheduled(Head(waiting), Chunk(Head(waiting), n))
  PROVE  QueueTypes'
<1> DEFINE s == Head(waiting)
<1>1. Chunk(s, n) \in 0 .. room
  BY DEF Chunk, Min2, QueueTypes
<1>2. room - Chunk(s, n) \in 0 .. MaxBatchedTokens
  BY <1>1, SchedulerAssumption DEF QueueTypes
<1>3. s \in Seqs /\ Tail(waiting) \in Seq(Seqs)
  BY HeadType DEF QueueTypes
<1>4. Append(batch, s) \in Seq(Seqs) /\ Append(running, s) \in Seq(Seqs)
  BY <1>3 DEF QueueTypes
<1> HIDE DEF s
<1> QED BY <1>2, <1>3, <1>4 DEF Scheduled, QueueTypes, BatchWith, step, s

(* The scheduled chunk is a natural number because the manager's step      *)
(* takes it from the tokens that are left.                                 *)
LEMMA PrefillTypes ==
  ASSUME TypeOK, QueueTypes, PrefillPhase
  PROVE  QueueTypes'
<1> DEFINE s == Head(waiting)
<1>1. CASE AdmitNew
  <2>1. s \in Seqs
    BY <1>1, HeadType DEF AdmitNew, QueueTypes
  <2>2. PICK n \in 0 .. NumBlocks(s) - 1 :
          /\ CanAllocate(s, n) /\ AdmitChunk(s, n)
          /\ \E fresh : PrefillNew(s, n, fresh, Chunk(s, n))
          /\ Scheduled(s, Chunk(s, n))
    BY <1>1 DEF AdmitNew
  <2>3. Len(tokens[s]) - n * BlockSize \in Int /\ table[s] = << >>
    BY <2>1, <2>2, ConstantsAssumption DEF PrefillNew, TypeOK
  <2>4. Chunk(s, n) \in 1 .. Len(tokens[s]) - n * BlockSize
    BY <2>2 DEF PrefillNew, ScheduleChunk
  <2>5. Uncomputed(s, n) \in Nat
    BY <2>3, <2>4 DEF Uncomputed
  <2> QED BY <1>1, <2>2, <2>5, ScheduledTypes DEF AdmitNew, AdmitChunk
<1>2. CASE AdmitMore
  <2>1. s \in Seqs
    BY <1>2, HeadType DEF AdmitMore, QueueTypes
  <2>2. /\ AdmitChunk(s, 0) /\ PrefillMore(s, Chunk(s, 0)) /\ table[s] # << >>
        /\ Scheduled(s, Chunk(s, 0))
    BY <1>2 DEF AdmitMore
  <2>3. Len(tokens[s]) - numCached[s] \in Int
    BY <2>1 DEF TypeOK
  <2>4. Chunk(s, 0) \in 1 .. Len(tokens[s]) - numCached[s]
    BY <2>2 DEF PrefillMore, ScheduleChunk
  <2>5. Uncomputed(s, 0) \in Nat
    BY <2>2, <2>3, <2>4 DEF Uncomputed
  <2> QED BY <1>2, <2>2, <2>5, ScheduledTypes DEF AdmitMore, AdmitChunk
<1>3. CASE PrefillTooLarge
  BY <1>3, RaiseTypes DEF PrefillTooLarge, QueueTypes
<1>4. CASE EndPrefill
  BY <1>4 DEF EndPrefill, QueueTypes, queues, step
<1> QED BY <1>1, <1>2, <1>3, <1>4 DEF PrefillPhase

LEMMA DecodeTypes ==
  ASSUME QueueTypes, TakeRunning \/ DecodeCur \/ DecodeTooLarge \/ EndDecode
  PROVE  QueueTypes'
<1> USE DEF QueueTypes, queues, step
<1>1. CASE TakeRunning
  BY <1>1, HeadType DEF TakeRunning
<1>2. CASE DecodeCur
  BY <1>2 DEF DecodeCur
<1>3. CASE DecodeTooLarge
  BY <1>3, RaiseTypes DEF DecodeTooLarge
<1>4. CASE EndDecode
  BY <1>4 DEF EndDecode, GivenBack
<1> QED BY <1>1, <1>2, <1>3, <1>4

LEMMA ModelTypes ==
  ASSUME QueueTypes, Model
  PROVE  QueueTypes'
<1> USE DEF QueueTypes, queues, step
<1>1. CASE RunNext
  BY <1>1, HeadType DEF RunNext
<1>2. CASE EndRun
  BY <1>2 DEF EndRun
<1>3. CASE PostNext
  <2>1. Tail(todo) \in Seq(Seqs)
    BY <1>3, HeadType DEF PostNext
  <2>2. running' \in Seq(Seqs)
    BY <1>3, WithoutType DEF PostNext
  <2> QED BY <1>3, <2>1, <2>2 DEF PostNext
<1>4. CASE EndStep
  <2>1. older' \subseteq Seqs \X Seqs /\ Total(older')
    BY <1>4, TouchedTotal DEF EndStep, Total
  <2> QED BY <1>4, <2>1, SchedulerAssumption DEF EndStep, Total
<1> QED BY <1>1, <1>2, <1>3, <1>4 DEF Model

(* What phase and the stack of pending calls are after these steps.        *)
SharedSteps ==
  \/ StartStep \/ ResetStats \/ (\E s \in Seqs : Arrive(s)) \/ PrefillPhase
  \/ TakeRunning \/ DecodeCur \/ DecodeTooLarge \/ EndDecode \/ Model
SharedPhases == {"idle", "demote", "prefill", "decode", "run", "post", "raised"}

LEMMA SharedControl ==
  ASSUME SharedSteps
  PROVE  phase' \in SharedPhases /\ (calls' = calls \/ calls' = << >>)
<1> USE DEF SharedPhases, control
<1>1. CASE StartStep \/ ResetStats \/ \E s \in Seqs : Arrive(s)
  BY <1>1 DEF StartStep, ResetStats, Arrive
<1>2. CASE PrefillPhase
  BY <1>2 DEF PrefillPhase, AdmitNew, AdmitMore, Scheduled, PrefillTooLarge, EndPrefill, Raise
<1>3. CASE TakeRunning \/ DecodeCur \/ DecodeTooLarge \/ EndDecode
  BY <1>3 DEF TakeRunning, DecodeCur, DecodeTooLarge, EndDecode, InDecode, Raise
<1>4. CASE Model
  BY <1>4 DEF Model, RunNext, EndRun, PostNext, EndStep
<1> QED BY <1>1, <1>2, <1>3, <1>4 DEF SharedSteps

LEMMA SharedTypes ==
  ASSUME TypeOK, QueueTypes, SharedSteps
  PROVE  QueueTypes'
BY OutsideTypes, PrefillTypes, DecodeTypes, ModelTypes DEF SharedSteps

LEMMA PreemptTypes ==
  ASSUME SchedTypeOK, PreemptOther \/ PreemptSelf
  PROVE  SchedTypeOK'
<1> USE DEF SchedTypeOK, QueueTypes, CallTypes, queues, step
<1>1. CASE PreemptOther
  <2>1. victim' \in Seqs
    BY <1>1 DEF PreemptOther, Oldest, ToSet
  <2>2. running' \in Seq(Seqs)
    BY <1>1, WithoutType DEF PreemptOther, RunningWithout
  <2>3. <<Down(victim', GPU)>> \in Seq(DownCall \cup FreeCall)
    BY <2>1, GpuIsTier, DownType
  <2> QED BY <1>1, <2>1, <2>2, <2>3 DEF PreemptOther
<1>2. CASE PreemptSelf
  <2>1. cur \in Seqs
    BY <1>2 DEF PreemptSelf
  <2>2. <<Down(cur, GPU)>> \in Seq(DownCall \cup FreeCall)
    BY <2>1, GpuIsTier, DownType
  <2> QED BY <1>2, <2>1, <2>2 DEF PreemptSelf
<1> QED BY <1>1, <1>2

LEMMA InitTypes == ASSUME SchedInit PROVE SchedTypeOK
<1>1. older \subseteq Seqs \X Seqs /\ Total(older)
  BY ByIdTotal DEF SchedInit
<1>2. room \in 0 .. MaxBatchedTokens /\ moved \in Nat
  BY SchedulerAssumption DEF SchedInit
<1>3. odd \in BOOLEAN
  BY Zenon DEF SchedInit
<1> QED BY <1>1, <1>2, <1>3 DEF SchedInit, SchedTypeOK, QueueTypes, CallTypes, Total

LEMMA SchedTypesPreserved ==
  ASSUME TypeOK, SchedTypeOK, [SchedNext]_allVars
  PROVE  SchedTypeOK'
<1>1. CASE SharedSteps
  <2>1. QueueTypes' /\ phase' \in SharedPhases /\ (calls' = calls \/ calls' = << >>)
    BY <1>1, SharedTypes, SharedControl DEF SchedTypeOK
  <2>2. calls \in Seq(DownCall \cup FreeCall) /\ << >> \in Seq(DownCall \cup FreeCall)
    BY DEF SchedTypeOK, CallTypes
  <2>3. calls' \in Seq(DownCall \cup FreeCall)
    BY <2>1, <2>2
  <2> QED BY <2>1, <2>3 DEF SchedTypeOK, CallTypes, SharedPhases
<1>3. CASE SchedNext
  BY <1>1, <1>3, WatermarkTypes, TargetTypes, TransferTypes, SwapInTypes, PreemptTypes
     DEF SchedNext, Engine, SharedSteps, DecodePhase
<1>2. CASE UNCHANGED allVars
  BY <1>2 DEF allVars, schedVars, queues, step, control, SchedTypeOK, QueueTypes, CallTypes
<1> QED BY <1>2, <1>3

-----------------------------------------------------------------------------
(***************************************************************************)
(* Every step of the scheduler is a step of BlockManager's general client  *)
(* or leaves the manager alone.                                            *)
(***************************************************************************)
LEMMA SomeStep ==
  ASSUME NEW s \in Seqs,
         \/ Add(s) \/ Run(s) \/ Recompute(s) \/ PostChunk(s)
         \/ \E t \in Token : PostToken(s, t) \/ PostFinish(s, t)
         \/ \E b \in Block : Decode(s, b) \/ Resume(s, b)
  PROVE  Next
BY DEF Next, Post

LEMMA PrepareStep ==
  ASSUME NEW s \in Seqs, NEW t \in Tier,
         \E dst \in [DOMAIN table[s] -> FreeIn(t)] : PrepareSwap(s, t, dst)
  PROVE  Next
BY DEF Next, Prepare

(* The chunk of a prompt is one that the general client may choose. *)
LEMMA PrefillStep ==
  ASSUME TypeOK, QueueTypes, AdmitNew \/ AdmitMore
  PROVE  Next
<1> DEFINE s == Head(waiting)
<1>s. s \in Seqs
  BY HeadType DEF AdmitNew, AdmitMore, QueueTypes
<1>l. Len(tokens[s]) \in Nat /\ numCached[s] \in Nat
  BY <1>s DEF TypeOK
<1>1. CASE AdmitNew
  <2>1. PICK n \in 0 .. NumBlocks(s) - 1 :
          \E fresh \in [n + 1 .. NumBlocks(s) -> FreeIn(GPU)] :
            PrefillNew(s, n, fresh, Chunk(s, n))
    BY <1>1 DEF AdmitNew
  <2>2. Chunk(s, n) \in 1 .. Len(tokens[s]) - n * BlockSize
    BY <2>1 DEF PrefillNew, ScheduleChunk
  <2>3. n * BlockSize \in Nat
    BY ConstantsAssumption
  <2>4. Chunk(s, n) \in 1 .. Len(tokens[s])
    BY <1>l, <2>2, <2>3
  <2>5. Prefill(s)
    BY <2>1, <2>4 DEF Prefill
  <2> QED BY <1>s, <2>5 DEF Next
<1>2. CASE AdmitMore
  <2>1. PrefillMore(s, Chunk(s, 0))
    BY <1>2 DEF AdmitMore
  <2>2. Chunk(s, 0) \in 1 .. Len(tokens[s]) - numCached[s]
    BY <2>1 DEF PrefillMore, ScheduleChunk
  <2>3. Chunk(s, 0) \in 1 .. Len(tokens[s])
    BY <1>l, <2>2
  <2>4. Prefill(s)
    BY <2>1, <2>3 DEF Prefill
  <2> QED BY <1>s, <2>4 DEF Next
<1> QED BY <1>1, <1>2

LEMMA WatermarkSteps == ASSUME Watermarks PROVE UNCHANGED vars
BY DEF Watermarks, VisitTier, DemoteNext, EndTier, VisitGpu, PreemptForWatermark, EndWatermarks

LEMMA TargetSteps ==
  ASSUME SchedTypeOK, Targets PROVE [Next]_vars
<1>1. CASE MoveDown
  <2>1. Top.seq \in Seqs /\ Head(Top.to) \in Tier
    <3>1. Top \in DownCall /\ Top.to # << >>
      BY <1>1, TopType DEF MoveDown, InDown
    <3> QED BY <3>1 DEF DownCall
  <2>2. \E dst \in [DOMAIN table[Top.seq] -> FreeIn(Head(Top.to))] :
          PrepareSwap(Top.seq, Head(Top.to), dst)
    BY <1>1 DEF MoveDown
  <2> QED BY <2>1, <2>2, PrepareStep
<1>2. CASE RecomputeVictim
  <2>1. Top.seq \in Seqs
    BY <1>2, TopType DEF RecomputeVictim, InDown, DownCall
  <2>2. Recompute(Top.seq)
    BY <1>2 DEF RecomputeVictim
  <2> QED BY <2>1, <2>2, SomeStep
<1>3. CASE MakeRoom \/ NextTarget \/ EvictNext \/ EndFree \/ StayThere \/ KeepRunning
  BY <1>3 DEF MakeRoom, NextTarget, EvictNext, EndFree, StayThere, KeepRunning
<1> QED BY <1>1, <1>2, <1>3 DEF Targets

LEMMA TransferSteps == ASSUME Transfers \/ FailTransfer PROVE Next
<1>1. CASE Transfers
  BY <1>1 DEF Transfers, Copy, CommitDown, CommitUp, Next, Transfer
<1>2. CASE FailTransfer
  BY <1>2 DEF FailTransfer, Next, Transfer
<1> QED BY <1>1, <1>2

LEMMA SwapInSteps ==
  ASSUME SchedTypeOK, SwapIn PROVE [Next]_vars
<1>1. CASE MoveUp
  <2>1. Head(todo) \in Seqs
    BY <1>1, HeadType DEF MoveUp, SchedTypeOK, QueueTypes, CallTypes
  <2>2. \E dst \in [DOMAIN table[Head(todo)] -> FreeIn(GPU)] :
          PrepareSwap(Head(todo), GPU, dst)
    BY <1>1 DEF MoveUp
  <2> QED BY <2>1, <2>2, GpuIsTier, PrepareStep
<1>2. CASE Readmit
  <2>1. Head(todo) \in Seqs
    BY <1>2, HeadType DEF Readmit, SchedTypeOK, QueueTypes, CallTypes
  <2>2. \E b \in Block : Resume(Head(todo), b)
    BY <1>2 DEF Readmit
  <2> QED BY <2>1, <2>2, SomeStep
<1>3. CASE SkipSwapped \/ EndSwapIn
  BY <1>3 DEF SkipSwapped, EndSwapIn
<1> QED BY <1>1, <1>2, <1>3 DEF SwapIn

LEMMA DecodeSteps ==
  ASSUME QueueTypes, TakeRunning \/ DecodeCur \/ DecodeTooLarge \/ EndDecode PROVE [Next]_vars
<1>1. CASE DecodeCur
  <2>1. cur \in Seqs /\ \E b \in Block : Decode(cur, b)
    BY <1>1 DEF DecodeCur, QueueTypes
  <2> QED BY <2>1, SomeStep
<1>2. CASE TakeRunning \/ DecodeTooLarge \/ EndDecode
  BY <1>2 DEF TakeRunning, DecodeTooLarge, EndDecode
<1> QED BY <1>1, <1>2

LEMMA ModelSteps ==
  ASSUME QueueTypes, Model PROVE [Next]_vars
<1>1. CASE RunNext
  <2>1. Head(todo) \in Seqs /\ Run(Head(todo))
    BY <1>1, HeadType DEF RunNext, QueueTypes
  <2> QED BY <2>1, SomeStep
<1>2. CASE PostNext
  <2>1. Head(todo) \in Seqs
    BY <1>2, HeadType DEF PostNext, QueueTypes
  <2>2. \/ PostChunk(Head(todo))
        \/ \E t \in Token : PostToken(Head(todo), t) \/ PostFinish(Head(todo), t)
    BY <1>2 DEF PostNext
  <2> QED BY <2>1, <2>2, SomeStep
<1>3. CASE EndRun \/ EndStep
  BY <1>3 DEF EndRun, EndStep
<1> QED BY <1>1, <1>2, <1>3 DEF Model

LEMMA SharedRefine ==
  ASSUME TypeOK, QueueTypes, SharedSteps
  PROVE  [Next]_vars
<1>1. CASE StartStep
  BY <1>1 DEF StartStep
<1>2. CASE ResetStats
  BY <1>2 DEF ResetStats, Next
<1>3. ASSUME NEW s \in Seqs, Arrive(s) PROVE Next
  BY <1>3, SomeStep DEF Arrive
<1>4. CASE PrefillPhase
  BY <1>4, PrefillStep DEF PrefillPhase, PrefillTooLarge, EndPrefill
<1> QED BY <1>1, <1>2, <1>3, <1>4, DecodeSteps, ModelSteps DEF SharedSteps

LEMMA StepRefines ==
  ASSUME TypeOK, SchedTypeOK, [SchedNext]_allVars
  PROVE  [Next]_vars
<1>1. CASE SharedSteps
  BY <1>1, SharedRefine DEF SchedTypeOK
<1>2. CASE Watermarks
  BY <1>2, WatermarkSteps
<1>3. CASE PreemptOther \/ PreemptSelf
  BY <1>3 DEF PreemptOther, PreemptSelf
<1>4. CASE UNCHANGED allVars
  BY <1>4 DEF allVars
<1> QED BY <1>1, <1>2, <1>3, <1>4, TargetSteps, TransferSteps, SwapInSteps
        DEF SchedNext, Engine, SharedSteps, DecodePhase

LEMMA Together ==
  SchedSpec => [](IndInv /\ SchedTypeOK)
<1>1. SchedInit => IndInv /\ SchedTypeOK
  BY InitTypes, InitEstablishes DEF SchedInit
<1>2. IndInv /\ SchedTypeOK /\ [SchedNext]_allVars => (IndInv /\ SchedTypeOK)'
  BY SchedTypesPreserved, StepRefines, StepPreserves DEF IndInv
<1> QED BY <1>1, <1>2, PTL DEF SchedSpec

(* The scheduler is a client that keeps BlockManager's discipline: every   *)
(* behaviour of the engine, whatever the watermarks, budget, batch limits  *)
(* and failures, is a behaviour of the block manager's specification.  No  *)
(* assertion or "changed during KV transfer" error of the manager is met.  *)
THEOREM KeepsDiscipline == SchedSpec => Spec
<1>1. SchedInit => Init
  BY DEF SchedInit
<1>2. IndInv /\ SchedTypeOK /\ [SchedNext]_allVars => [Next]_vars
  BY StepRefines DEF IndInv
<1> QED BY <1>1, <1>2, Together, PTL DEF SchedSpec, Spec

(* The deques, candidates and pending calls of the scheduler always hold   *)
(* requests and tiers, and the tokens of a batch stay within               *)
(* max_num_batched_tokens.                                                 *)
THEOREM SchedulerTypes == SchedSpec => []SchedTypeOK
BY Together, PTL

(* In the scheduled engine a block's reference count is the number of      *)
(* tables that name it (and the transfer filling it): nothing leaks and    *)
(* nothing in use is freed, whatever schedule() decides.                   *)
THEOREM EngineReferenceCounting == SchedSpec => []RefCountsExact
<1>1. IndInv => RefCountsExact
  BY DEF IndInv
<1> QED BY <1>1, Together, PTL

-----------------------------------------------------------------------------
(***************************************************************************)
(* The transfer budget.  A transfer in flight has already been checked, so *)
(* the strengthening counts the blocks it will add when it is committed;   *)
(* and no step changes the table of a request while its blocks are moving. *)
(***************************************************************************)
BudgetKept ==
  MaxTransfer # -1 =>
    /\ moved <= MaxTransfer
    /\ plan # NoPlan => moved + Size(plan.seq) <= MaxTransfer

LEMMA BudgetFrame ==
  ASSUME BudgetKept, moved' = moved, plan' = plan, plan = NoPlan \/ table' = table
  PROVE  BudgetKept'
BY DEF BudgetKept, Size

(* Operations of the manager other than transfers need plan = NoPlan. *)
LEMMA QuietSteps ==
  ASSUME NEW s,
         \/ Add(s) \/ Run(s) \/ Recompute(s) \/ PostChunk(s)
         \/ \E t \in Token : PostToken(s, t) \/ PostFinish(s, t)
         \/ \E b \in Block : Decode(s, b) \/ Resume(s, b)
         \/ \E n, fresh, c : PrefillNew(s, n, fresh, c)
         \/ \E c : PrefillMore(s, c)
  PROVE  plan = NoPlan /\ plan' = plan
BY DEF Add, Run, Recompute, PostChunk, PostToken, PostFinish, Decode, Resume, PrefillNew,
       PrefillMore, Quiet

LEMMA PreparedBudget ==
  ASSUME BudgetKept, SchedTypeOK, NEW s, NEW t, NEW dst, PrepareSwap(s, t, dst),
         Budget(Size(s)), moved' = moved
  PROVE  BudgetKept'
<1>1. plan'.seq = s /\ table' = table
  BY DEF PrepareSwap, StartPlan, placeVars
<1> QED BY <1>1 DEF BudgetKept, Budget, Size

LEMMA TransferBudget ==
  ASSUME BudgetKept, SchedTypeOK, Transfers \/ FailTransfer
  PROVE  BudgetKept'
<1>1. CASE Copy
  <2>1. plan # NoPlan /\ plan'.seq = plan.seq /\ table' = table /\ moved' = moved
    BY <1>1 DEF Copy, CopyBlocks, placeVars, schedVars, step
  <2> QED BY <2>1 DEF BudgetKept, Size
<1>2. CASE CommitDown \/ CommitUp
  <2>1. plan # NoPlan /\ plan' = NoPlan /\ moved' = moved + Size(plan.seq)
    BY <1>2 DEF CommitDown, CommitUp, CommitSwap, NoPlan
  <2> QED BY <2>1 DEF BudgetKept
<1>3. CASE FailTransfer
  <2>1. plan' = NoPlan /\ moved' = moved
    BY <1>3 DEF FailTransfer, AbortTransfer, Raise, step
  <2> QED BY <2>1 DEF BudgetKept
<1> QED BY <1>1, <1>2, <1>3 DEF Transfers

(* A new step starts with nothing moved. *)
LEMMA FreshBudget ==
  ASSUME TypeOK, BudgetKept, SchedTypeOK, StartStep \/ ResetStats
  PROVE  BudgetKept'
<1>1. moved' = 0 /\ plan' = plan /\ table' = table
  BY DEF StartStep, ResetStats, ClearPrefixCache, vars, placeVars
<1>2. moved \in Nat /\ (MaxTransfer # -1 => MaxTransfer \in Nat)
  BY SchedulerAssumption DEF SchedTypeOK, QueueTypes, CallTypes
<1>3. plan # NoPlan => Size(plan.seq) \in Nat
  BY SizeType DEF TypeOK
<1> QED BY <1>1, <1>2, <1>3 DEF BudgetKept, Size

LEMMA BudgetPreserved ==
  ASSUME TypeOK, BudgetKept, SchedTypeOK, [SchedNext]_allVars
  PROVE  BudgetKept'
<1> USE DEF vars, placeVars, step
<1>1. CASE StartStep \/ ResetStats
  BY <1>1, FreshBudget
<1>2. ASSUME NEW s \in Seqs, Arrive(s) PROVE BudgetKept'
  BY <1>2, QuietSteps, BudgetFrame DEF Arrive
<1>3. CASE Watermarks
  BY <1>3, BudgetFrame DEF Watermarks, VisitTier, DemoteNext, EndTier, VisitGpu,
     PreemptForWatermark, EndWatermarks
<1>4. CASE Targets
  <2>1. CASE MoveDown
    BY <2>1, PreparedBudget DEF MoveDown, MayMove, schedVars
  <2>2. CASE RecomputeVictim
    BY <2>2, QuietSteps, BudgetFrame DEF RecomputeVictim
  <2>3. CASE MakeRoom \/ NextTarget \/ EvictNext \/ EndFree \/ StayThere \/ KeepRunning
    BY <2>3, BudgetFrame DEF MakeRoom, NextTarget, EvictNext, EndFree, StayThere, KeepRunning
  <2> QED BY <1>4, <2>1, <2>2, <2>3 DEF Targets
<1>5. CASE SwapIn
  <2>1. CASE MoveUp
    BY <2>1, PreparedBudget DEF MoveUp, schedVars
  <2>2. CASE Readmit
    BY <2>2, QuietSteps, BudgetFrame DEF Readmit
  <2>3. CASE SkipSwapped \/ EndSwapIn
    BY <2>3, BudgetFrame DEF SkipSwapped, EndSwapIn
  <2> QED BY <1>5, <2>1, <2>2, <2>3 DEF SwapIn
<1>6. CASE PrefillPhase
  <2>1. CASE AdmitNew \/ AdmitMore
    BY <2>1, QuietSteps, BudgetFrame DEF AdmitNew, AdmitMore, Scheduled
  <2>2. CASE PrefillTooLarge \/ EndPrefill
    BY <2>2, BudgetFrame DEF PrefillTooLarge, EndPrefill, Raise
  <2> QED BY <1>6, <2>1, <2>2 DEF PrefillPhase
<1>7. CASE DecodePhase
  <2>1. CASE DecodeCur
    BY <2>1, QuietSteps, BudgetFrame DEF DecodeCur
  <2>2. CASE TakeRunning \/ PreemptOther \/ PreemptSelf \/ DecodeTooLarge \/ EndDecode
    BY <2>2, BudgetFrame DEF TakeRunning, PreemptOther, PreemptSelf, DecodeTooLarge,
       EndDecode, Raise
  <2> QED BY <1>7, <2>1, <2>2 DEF DecodePhase
<1>8. CASE Model
  <2>1. CASE RunNext \/ PostNext
    BY <2>1, QuietSteps, BudgetFrame DEF RunNext, PostNext
  <2>2. CASE EndRun \/ EndStep
    BY <2>2, BudgetFrame DEF EndRun, EndStep
  <2> QED BY <1>8, <2>1, <2>2 DEF Model
<1>9. CASE UNCHANGED allVars
  BY <1>9, BudgetFrame DEF allVars, schedVars
<1> QED BY <1>1, <1>2, <1>3, <1>4, <1>5, <1>6, <1>7, <1>8, <1>9, TransferBudget
        DEF SchedNext, Engine

(* However the calls that make room nest, a step never moves more blocks   *)
(* than kv_max_transfer_blocks: _transfer_budget_allows is asked before    *)
(* every transfer, and nothing between the question and commit_swap        *)
(* changes the answer.                                                     *)
THEOREM StepBudget == SchedSpec => []BudgetRespected
<1>1. SchedInit => BudgetKept
  BY SchedulerAssumption DEF SchedInit, Init, BudgetKept
<1>2. IndInv /\ SchedTypeOK /\ BudgetKept /\ [SchedNext]_allVars => BudgetKept'
  BY BudgetPreserved DEF IndInv
<1>3. BudgetKept => BudgetRespected
  BY DEF BudgetKept, BudgetRespected
<1> QED BY <1>1, <1>2, <1>3, Together, PTL DEF SchedSpec
=============================================================================
