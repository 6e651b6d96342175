------------------------------ MODULE Scheduler ------------------------------
(***************************************************************************)
(* Scheduler of nanovllm/engine/scheduler.py with kv_placement="sequence", *)
(* and the loop of LLMEngine that calls schedule, the model and            *)
(* postprocess.  It is a client of BlockManager: every step below that     *)
(* touches a block is an action of that module, restricted by the policy,  *)
(* and the others leave the manager's variables alone.                     *)
(*                                                                         *)
(* One call of schedule() is many steps here, one for each iteration of    *)
(* its loops and each transfer, because a transfer may raise half way.     *)
(* phase says which loop of schedule() runs.  calls is the stack of        *)
(* pending calls of the mutually recursive pair _ensure_free_blocks ("free")*)
(* and the loop over target tiers that preempt, _demote_swapped_tier and   *)
(* _ensure_free_blocks share ("down"); the top of the stack comes first.   *)
(*                                                                         *)
(* Statistics are left out.  Block ages and reuse_hits only matter with    *)
(* kv_placement="block-hot", which is not modelled here.                   *)
(***************************************************************************)
EXTENDS BlockManager, SequencesExt

CONSTANTS
  Order,             \* the requests in the order of their seq_id
  MaxSeqs,           \* max_num_seqs
  MaxBatchedTokens,  \* max_num_batched_tokens
  MaxTransfer,       \* kv_max_transfer_blocks, -1 for no limit
  High, Low,         \* watermarks of a tier as numbers of used blocks
  TransfersMayFail   \* transfer_blocks may raise

ASSUME SchedulerAssumption ==
  /\ Order \in Seq(Seqs) /\ ImageOf(Order) = Seqs /\ Injective(Order)
  /\ MaxSeqs \in Nat \ {0} /\ MaxBatchedTokens \in Nat \ {0}
  /\ MaxTransfer \in {-1} \cup (Nat \ {0})
  /\ High \in [Tier -> Nat] /\ Low \in [Tier -> Nat]
  /\ \A t \in Tier : Low[t] <= High[t]
  /\ TransfersMayFail \in BOOLEAN

VARIABLES
  waiting, running, swapped,  \* the deques of the scheduler
  older,    \* the order of the requests by (last_used_step, seq_id)
  odd,      \* step_index % 2 = 1
  moved,    \* step_transfer_count
  phase,    \* the loop schedule() is in, "idle" between two steps
  levels,   \* tiers _enforce_watermarks still has to visit
  todo,     \* candidates the current loop still has to visit
  calls,    \* pending calls, innermost first
  cur,      \* the request the decode loop took from running
  victim,   \* the request being preempted
  batch,    \* scheduled_seqs
  room      \* max_num_batched_tokens - num_batched_tokens

queues == <<waiting, running, swapped>>
step == <<older, odd, moved>>
control == <<phase, levels, todo, calls, cur, victim, batch, room>>
schedVars == <<queues, step, control>>

-----------------------------------------------------------------------------
Capacity(t) == Cardinality({b \in Block : TierOf[b] = t})
FreeCount(t) == Cardinality(FreeIn(t))
UsedIn(t) == Capacity(t) - FreeCount(t)
Size(s) == Len(table[s])
Extra(s) == IF NeedsBlock(s) THEN 1 ELSE 0

LowerSeq(t) == LET i == CHOOSE j \in DOMAIN CacheTiers : CacheTiers[j] = t
               IN SubSeq(CacheTiers, i + 1, Len(CacheTiers))
(* cache_tiers[1:-1], the last first *)
Middle == Reverse(SubSeq(CacheTiers, 2, Len(CacheTiers) - 1))

(* sorted(..., key = (last_used_step, seq_id)): the one sequence of the    *)
(* set.                                                                    *)
ByAge(S) == {q \in [1 .. Cardinality(S) -> S] :
               \A i, j \in DOMAIN q : i < j => <<q[i], q[j]>> \in older}
Oldest(S) == {s \in S : \A r \in S \ {s} : <<s, r>> \in older}
SwappedOn(t) == {s \in ToSet(swapped) : tableTier[s] = t}
ById == {p \in Seqs \X Seqs :
           \E i, j \in DOMAIN Order : i < j /\ p = <<Order[i], Order[j]>>}
Touched(S) == {p \in Seqs \X Seqs :
                 IF p[1] \in S <=> p[2] \in S
                 THEN p \in IF p[1] \in S THEN ById ELSE older
                 ELSE p[2] \in S}

(* q.remove(s) *)
Without(q, s) == {RemoveAt(q, i) : i \in {j \in DOMAIN q : q[j] = s}}
(* The victim of a preemption leaves running. *)
RunningWithoutSTILL(s) == {running}
RunningWithout(s) == Without(running, s)

BudgetALONE(n) == MaxTransfer = -1 \/ n <= MaxTransfer
Budget(n) == MaxTransfer = -1 \/ moved + n <= MaxTransfer
CanSwap(s, t, extra) ==
  /\ tableTier[s] # t
  /\ \A b \in Held(s) : refCount[b] = 1
  /\ FreeCount(t) >= Size(s) + extra
CanAppend(s) == NeedsBlock(s) => FreeIn(GPU) # {}
(* The RuntimeErrors about requests that the GPU can never hold. *)
TooManyBlocksFREE(n) == n > FreeCount(GPU)
TooManyBlocks(n) == n > Capacity(GPU)

(* Scheduler.add *)
Rejected(s) == MaxTransfer # -1 /\ Len(CacheTiers) > 1 /\ NumBlocks(s) > MaxTransfer

Down(s, t) == [op |-> "down", seq |-> s, to |-> LowerSeq(t), cleared |-> FALSE]
Free(t, n, q) == [op |-> "free", tier |-> t, need |-> n, seqs |-> q]

SchedInit ==
  /\ Init
  /\ waiting = << >> /\ running = << >> /\ swapped = << >>
  /\ older = ById /\ odd = FALSE /\ moved = 0
  /\ phase = "idle" /\ levels = << >> /\ todo = << >> /\ calls = << >>
  /\ cur = NoSeq /\ victim = NoSeq /\ batch = << >> /\ room = 0

-----------------------------------------------------------------------------
(* Between steps.                                                          *)

IsFinished == waiting = << >> /\ running = << >> /\ swapped = << >>

(* add_request: seq_ids grow in the order of the calls; add raises for a   *)
(* request that could never be moved within the budget.                    *)
Arrive(s) ==
  /\ phase = "idle" /\ ~ Rejected(s)
  /\ \A i, j \in DOMAIN Order : Order[j] = s /\ i < j =>
       status[Order[i]] # "new" \/ Rejected(Order[i])
  /\ Add(s)
  /\ waiting' = Append(waiting, s)
  /\ UNCHANGED <<running, swapped, step, control>>

(* reset_stats, and with clear_prefix_cache what reset_for_benchmark does. *)
ResetStats ==
  /\ phase = "idle" /\ IsFinished
  /\ ClearPrefixCache \/ UNCHANGED vars
  /\ odd' = FALSE /\ moved' = 0
  /\ UNCHANGED <<queues, older, control>>

(* step() calls schedule(). *)
StartStep ==
  /\ phase = "idle" /\ ~ IsFinished
  /\ odd' = ~ odd /\ moved' = 0
  /\ phase' = "demote" /\ levels' = Middle
  /\ batch' = << >> /\ room' = MaxBatchedTokens
  /\ UNCHANGED <<vars, queues, older, todo, calls, cur, victim>>

(* An exception leaves schedule() with the queues given. *)
Raise(run) ==
  /\ phase' = "raised" /\ running' = run
  /\ levels' = << >> /\ todo' = << >> /\ calls' = << >>
  /\ cur' = NoSeq /\ victim' = NoSeq /\ batch' = << >> /\ room' = 0
  /\ UNCHANGED <<waiting, swapped, step>>

-----------------------------------------------------------------------------
(* _enforce_watermarks.                                                    *)

(* _demote_swapped_tier of the next tier between the GPU and the last. *)
VisitTier ==
  /\ phase = "demote" /\ levels # << >>
  /\ LET t == Head(levels)
     IN IF UsedIn(t) > High[t]
        THEN phase' = "cool" /\ todo' \in ByAge(SwappedOn(t)) /\ UNCHANGED levels
        ELSE levels' = Tail(levels) /\ UNCHANGED <<phase, todo>>
  /\ UNCHANGED <<vars, queues, step, calls, cur, victim, batch, room>>

TierDone == todo = << >> \/ UsedIn(Head(levels)) <= Low[Head(levels)]

DemoteNext ==
  /\ phase = "cool" /\ calls = << >> /\ ~ TierDone
  /\ todo' = Tail(todo)
  /\ calls' = <<Down(Head(todo), Head(levels))>>
  /\ UNCHANGED <<vars, queues, step, phase, levels, cur, victim, batch, room>>

EndTier ==
  /\ phase = "cool" /\ calls = << >> /\ TierDone
  /\ phase' = "demote" /\ levels' = Tail(levels) /\ todo' = << >>
  /\ UNCHANGED <<vars, queues, step, calls, cur, victim, batch, room>>

VisitGpu ==
  /\ phase = "demote" /\ levels = << >>
  /\ phase' = "gpu"
  /\ todo' \in IF Len(CacheTiers) > 1 /\ UsedIn(GPU) > High[GPU]
               THEN ByAge(ToSet(running)) ELSE {<< >>}
  /\ UNCHANGED <<vars, queues, step, levels, calls, cur, victim, batch, room>>

GpuDone == todo = << >> \/ UsedIn(GPU) <= Low[GPU] \/ Len(running) <= 1

(* preempt(candidate, allow_recompute=False) *)
PreemptForWatermark ==
  /\ phase = "gpu" /\ calls = << >> /\ ~ GpuDone
  /\ todo' = Tail(todo)
  /\ LET s == Head(todo)
     IN IF Budget(Size(s))
        THEN victim' = s /\ running' \in RunningWithout(s) /\ calls' = <<Down(s, GPU)>>
        ELSE UNCHANGED <<victim, running, calls>>
  /\ UNCHANGED <<vars, waiting, swapped, step, phase, levels, cur, batch, room>>

(* Requests are only readmitted in a step that moved nothing down, and in  *)
(* every other step while prompts are waiting.                             *)
EndWatermarks ==
  /\ phase = "gpu" /\ calls = << >> /\ GpuDone
  /\ IF swapped # << >> /\ moved = 0 /\ (waiting = << >> \/ ~ odd)
     THEN phase' = "swapin" /\ todo' \in ByAge(ToSet(swapped))
     ELSE phase' = "prefill" /\ todo' = << >>
  /\ UNCHANGED <<vars, queues, step, levels, calls, cur, victim, batch, room>>

-----------------------------------------------------------------------------
(* The loop over target tiers: make room in the next one, move, or go on. *)

Top == Head(calls)
InDown == calls # << >> /\ Top.op = "down" /\ plan = NoPlan
InFree == calls # << >> /\ Top.op = "free" /\ plan = NoPlan
Outermost == Len(calls) = 1

(* Whether room is made at all: _demote_swapped_tier asks the budget, the *)
(* others the capacity of the tier.                                        *)
WorthTrying(f) ==
  IF phase = "cool" /\ Outermost THEN Budget(Size(f.seq))
  ELSE Size(f.seq) <= Capacity(Head(f.to))
MayMove(f) == CanSwap(f.seq, Head(f.to), 0) /\ Budget(Size(f.seq))

MakeRoom ==
  /\ InDown /\ Top.to # << >> /\ ~ Top.cleared /\ WorthTrying(Top)
  /\ LET n == Size(Top.seq)  t == Head(Top.to)
     IN \E q \in ByAge(SwappedOn(t)) :
          calls' = (IF FreeCount(t) < n THEN <<Free(t, n, q)>> ELSE << >>)
                     \o <<[Top EXCEPT !.cleared = TRUE]>> \o Tail(calls)
  /\ UNCHANGED <<vars, queues, step, phase, levels, todo, cur, victim, batch, room>>

NextTarget ==
  /\ InDown /\ Top.to # << >>
  /\ IF Top.cleared THEN ~ MayMove(Top) ELSE ~ WorthTrying(Top)
  /\ calls' = <<[Top EXCEPT !.to = Tail(@), !.cleared = FALSE]>> \o Tail(calls)
  /\ UNCHANGED <<vars, queues, step, phase, levels, todo, cur, victim, batch, room>>

(* _move: prepare_swap *)
MoveDown ==
  /\ InDown /\ Top.to # << >> /\ Top.cleared /\ MayMove(Top)
  /\ \E dst \in [DOMAIN table[Top.seq] -> FreeIn(Head(Top.to))] :
       PrepareSwap(Top.seq, Head(Top.to), dst)
  /\ UNCHANGED schedVars

(* _ensure_free_blocks: swapped requests go further down, the oldest first. *)
EvictNext ==
  /\ InFree /\ Top.seqs # << >> /\ FreeCount(Top.tier) < Top.need
  /\ calls' = <<Down(Head(Top.seqs), Top.tier), [Top EXCEPT !.seqs = Tail(@)]>>
                \o Tail(calls)
  /\ UNCHANGED <<vars, queues, step, phase, levels, todo, cur, victim, batch, room>>

EndFree ==
  /\ InFree /\ (Top.seqs = << >> \/ FreeCount(Top.tier) >= Top.need)
  /\ calls' = Tail(calls)
  /\ UNCHANGED <<vars, queues, step, phase, levels, todo, cur, victim, batch, room>>

(* No tier below took the request. *)
StayThere ==
  /\ InDown /\ Top.to = << >> /\ (phase = "cool" \/ ~ Outermost)
  /\ calls' = Tail(calls)
  /\ UNCHANGED <<vars, queues, step, phase, levels, todo, cur, victim, batch, room>>

KeepRunning ==
  /\ InDown /\ Top.to = << >> /\ phase = "gpu" /\ Outermost
  /\ calls' = << >> /\ victim' = NoSeq /\ running' = <<Top.seq>> \o running
  /\ UNCHANGED <<vars, waiting, swapped, step, phase, levels, todo, cur, batch, room>>

RecomputeVictim ==
  /\ InDown /\ Top.to = << >> /\ phase = "decode" /\ Outermost
  /\ Recompute(Top.seq)
  /\ waiting' = <<Top.seq>> \o waiting
  /\ calls' = << >> /\ victim' = NoSeq /\ cur' = IF cur = Top.seq THEN NoSeq ELSE cur
  /\ UNCHANGED <<running, swapped, step, phase, levels, todo, batch, room>>

-----------------------------------------------------------------------------
(* transfer_blocks, and the rest of _move.                                 *)

Copy == CopyBlocks /\ UNCHANGED schedVars

(* commit_swap; a preempted request joins the swapped queue. *)
CommitDown ==
  /\ calls # << >> /\ CommitSwap
  /\ moved' = moved + Size(plan.seq)
  /\ calls' = Tail(calls)
  /\ IF plan.seq = victim
     THEN /\ swapped' = Append(swapped, plan.seq) /\ victim' = NoSeq
          /\ cur' = IF cur = plan.seq THEN NoSeq ELSE cur
     ELSE UNCHANGED <<swapped, victim, cur>>
  /\ UNCHANGED <<waiting, running, older, odd, phase, levels, todo, batch, room>>

CommitUp ==
  /\ calls = << >> /\ CommitSwap
  /\ moved' = moved + Size(plan.seq)
  /\ UNCHANGED <<queues, older, odd, control>>

(* transfer_blocks raised: abort_swap, and the handlers of the callers put *)
(* the victim (and the request it makes room for) back.                    *)
RequeuedRUNNING == running
Requeued ==
  (IF cur \in {NoSeq, victim} THEN << >> ELSE <<cur>>)
    \o (IF victim = NoSeq THEN << >> ELSE <<victim>>) \o running
FailTransfer ==
  /\ TransfersMayFail
  /\ \E W \in SUBSET DOMAIN plan.dst : AbortTransfer(W)
  /\ Raise(Requeued)

-----------------------------------------------------------------------------
(* _schedule_swapped.  Its RuntimeErrors are guards here, not actions:     *)
(* SwapInNeverRaises says that they are out of reach.                      *)

InSwapIn == phase = "swapin" /\ plan = NoPlan
AtGpu(s) == tableTier[s] = GPU
Full == Len(running) >= MaxSeqs \/ Len(batch) >= MaxBatchedTokens
TooLarge(s) == TooManyBlocks(Size(s) + Extra(s))
OverWatermarkALONE(s) == UsedIn(GPU) + Size(s) + Extra(s) > High[GPU]
OverWatermark(s) ==
  running # << >> /\ UsedIn(GPU) + Size(s) + Extra(s) > High[GPU]
Readmittable(s) == ~ OverWatermark(s) /\ CanSwap(s, GPU, Extra(s))

SkipSwapped ==
  /\ InSwapIn /\ todo # << >> /\ ~ Full
  /\ LET s == Head(todo)
     IN ~ AtGpu(s) /\ ~ TooLarge(s) /\ Budget(Size(s)) /\ ~ Readmittable(s)
  /\ todo' = Tail(todo)
  /\ UNCHANGED <<vars, queues, step, phase, levels, calls, cur, victim, batch, room>>

MoveUp ==
  /\ InSwapIn /\ todo # << >> /\ ~ Full
  /\ LET s == Head(todo)
     IN /\ ~ AtGpu(s) /\ ~ TooLarge(s) /\ Budget(Size(s)) /\ Readmittable(s)
        /\ \E dst \in [DOMAIN table[s] -> FreeIn(GPU)] : PrepareSwap(s, GPU, dst)
  /\ UNCHANGED schedVars

Readmit ==
  /\ InSwapIn /\ todo # << >> /\ AtGpu(Head(todo))
  /\ LET s == Head(todo)
     IN /\ \E b \in Block : Resume(s, b)
        /\ swapped' \in Without(swapped, s)
        /\ running' = Append(running, s)
        /\ batch' = Append(batch, s)
  /\ todo' = Tail(todo)
  /\ UNCHANGED <<waiting, step, phase, levels, calls, cur, victim, room>>

SwapInDone ==
  /\ InSwapIn
  /\ IF todo = << >> THEN TRUE
     ELSE LET s == Head(todo)
          IN ~ AtGpu(s) /\ (Full \/ (~ TooLarge(s) /\ ~ Budget(Size(s))))

(* The two RuntimeErrors of schedule() about requests that stay swapped. *)
StalledOnBudget ==
  /\ waiting = << >>
  /\ MaxTransfer # -1 /\ \E s \in ToSet(swapped) : Size(s) > MaxTransfer
StalledOnCapacity ==
  /\ waiting = << >> /\ moved = 0 /\ swapped # << >> /\ running = << >>
  /\ \A s \in ToSet(swapped) : ~ CanSwap(s, GPU, Extra(s))
  /\ \A s \in ToSet(swapped) : ~ TooLarge(s)

Stalled == batch = << >> /\ (StalledOnBudget \/ StalledOnCapacity)

EndSwapIn ==
  /\ SwapInDone /\ ~ Stalled
  /\ IF batch # << >> THEN phase' = "run" /\ todo' = batch
                      ELSE phase' = "prefill" /\ todo' = << >>
  /\ UNCHANGED <<vars, queues, step, levels, calls, cur, victim, batch, room>>

-----------------------------------------------------------------------------
(* Prefill.                                                                *)

(* active_before_prefill + len(scheduled_seqs) *)
ActiveAndScheduledNEW == Len(batch)
ActiveAndScheduled ==
  Len(running) + Cardinality(ToSet(batch) \ ToSet(running))
Allocatable(s) == \E n \in 0 .. NumBlocks(s) - 1 : CanAllocate(s, n)
Uncomputed(s, n) ==
  Len(tokens[s]) - (IF table[s] = << >> THEN n * BlockSize ELSE numCached[s])

(* Only the first request of a batch may get a part of its prompt. *)
AdmitChunk(s, n) ==
  /\ room > 0 /\ ActiveAndScheduled < MaxSeqs
  /\ room >= Uncomputed(s, n) \/ batch = << >>

PrefillLoopOver ==
  \/ waiting = << >> \/ room = 0 \/ ActiveAndScheduled >= MaxSeqs
  \/ /\ waiting # << >>
     /\ LET s == Head(waiting)
        IN IF table[s] = << >>
           THEN /\ ~ Allocatable(s) => ~ TooManyBlocks(NumBlocks(s))
                /\ \A n \in 0 .. NumBlocks(s) - 1 : CanAllocate(s, n) => ~ AdmitChunk(s, n)
           ELSE ~ AdmitChunk(s, 0)

ChunkUNCAPPED(s, n) == Uncomputed(s, n)
Chunk(s, n) == Min2(Uncomputed(s, n), room)

(* A prompt computed to its end leaves the waiting queue; a request is     *)
(* part of the batch either way. *)
BatchWithCOMPLETE(s) == IF status'[s] = "running" THEN Append(batch, s) ELSE batch
BatchWith(s) == Append(batch, s)

Scheduled(s, c) ==
  /\ batch' = BatchWith(s)
  /\ room' = room - c
  /\ IF status'[s] = "running"
     THEN waiting' = Tail(waiting) /\ running' = Append(running, s)
     ELSE UNCHANGED <<waiting, running>>
  /\ UNCHANGED <<swapped, step, phase, levels, todo, calls, cur, victim>>

AdmitNew ==
  /\ phase = "prefill" /\ waiting # << >>
  /\ LET s == Head(waiting)
     IN \E n \in 0 .. NumBlocks(s) - 1 :
          /\ CanAllocate(s, n) /\ AdmitChunk(s, n)
          /\ LET c == Chunk(s, n)
             IN /\ \E fresh \in [n + 1 .. NumBlocks(s) -> FreeIn(GPU)] :
                     PrefillNew(s, n, fresh, c)
                /\ Scheduled(s, c)

AdmitMore ==
  /\ phase = "prefill" /\ waiting # << >>
  /\ LET s == Head(waiting)  c == Chunk(s, 0)
     IN /\ table[s] # << >> /\ AdmitChunk(s, 0)
        /\ PrefillMore(s, c)
        /\ Scheduled(s, c)

PrefillTooLarge ==
  /\ phase = "prefill" /\ waiting # << >> /\ room > 0 /\ ActiveAndScheduled < MaxSeqs
  /\ LET s == Head(waiting)
     IN table[s] = << >> /\ ~ Allocatable(s) /\ TooManyBlocks(NumBlocks(s))
  /\ Raise(running)
  /\ UNCHANGED vars

EndPrefill ==
  /\ phase = "prefill" /\ PrefillLoopOver
  /\ IF batch # << >> THEN phase' = "run" /\ todo' = batch
                      ELSE phase' = "decode" /\ todo' = << >>
  /\ UNCHANGED <<vars, queues, step, levels, calls, cur, victim, batch, room>>

-----------------------------------------------------------------------------
(* Decode.                                                                 *)

InDecode == phase = "decode" /\ calls = << >>

TakeRunning ==
  /\ InDecode /\ cur = NoSeq /\ running # << >> /\ Len(batch) < MaxSeqs
  /\ cur' = Head(running) /\ running' = Tail(running)
  /\ UNCHANGED <<vars, waiting, swapped, step, phase, levels, todo, calls,
                 victim, batch, room>>

DecodeCur ==
  /\ InDecode /\ cur # NoSeq
  /\ \E b \in Block : Decode(cur, b)
  /\ batch' = Append(batch, cur) /\ cur' = NoSeq
  /\ UNCHANGED <<queues, step, phase, levels, todo, calls, victim, room>>

(* The victim is the running request idle for longest, else the one that   *)
(* needs the block.                                                        *)
PreemptOther ==
  /\ InDecode /\ cur # NoSeq /\ ~ CanAppend(cur)
  /\ victim' \in Oldest(ToSet(running))
  /\ running' \in RunningWithout(victim')
  /\ calls' = <<Down(victim', GPU)>>
  /\ UNCHANGED <<vars, waiting, swapped, step, phase, levels, todo, cur, batch, room>>

PreemptSelf ==
  /\ InDecode /\ cur # NoSeq /\ ~ CanAppend(cur)
  /\ running = << >> /\ ~ TooManyBlocks(Size(cur) + 1)
  /\ victim' = cur /\ calls' = <<Down(cur, GPU)>>
  /\ UNCHANGED <<vars, queues, step, phase, levels, todo, cur, batch, room>>

DecodeTooLarge ==
  /\ InDecode /\ cur # NoSeq /\ ~ CanAppend(cur)
  /\ running = << >> /\ TooManyBlocks(Size(cur) + 1)
  /\ Raise(running)
  /\ UNCHANGED vars

(* running.extendleft(reversed(scheduled_seqs)) *)
GivenBackNONE == running
GivenBack == batch \o running

EndDecode ==
  /\ InDecode /\ cur = NoSeq /\ (running = << >> \/ Len(batch) = MaxSeqs)
  /\ running' = GivenBack
  /\ phase' = "run" /\ todo' = batch
  /\ UNCHANGED <<vars, waiting, swapped, step, levels, calls, cur, victim, batch, room>>

-----------------------------------------------------------------------------
(* The model runs the batch, and postprocess goes through it. *)

RunNext ==
  /\ phase = "run" /\ todo # << >>
  /\ Run(Head(todo))
  /\ todo' = Tail(todo)
  /\ UNCHANGED <<queues, step, phase, levels, calls, cur, victim, batch, room>>

EndRun ==
  /\ phase = "run" /\ todo = << >>
  /\ phase' = "post" /\ todo' = batch
  /\ UNCHANGED <<vars, queues, step, levels, calls, cur, victim, batch, room>>

PostNext ==
  /\ phase = "post" /\ todo # << >>
  /\ LET s == Head(todo)
     IN \/ /\ PostChunk(s) \/ \E t \in Token : PostToken(s, t)
           /\ UNCHANGED running
        \/ /\ \E t \in Token : PostFinish(s, t)
           /\ running' \in Without(running, s)
  /\ todo' = Tail(todo)
  /\ UNCHANGED <<waiting, swapped, step, phase, levels, calls, cur, victim, batch, room>>

EndStep ==
  /\ phase = "post" /\ todo = << >>
  /\ older' = Touched(ToSet(batch))
  /\ phase' = "idle" /\ batch' = << >> /\ room' = 0
  /\ UNCHANGED <<vars, queues, odd, moved, levels, todo, calls, cur, victim>>

-----------------------------------------------------------------------------
Watermarks == VisitTier \/ DemoteNext \/ EndTier \/ VisitGpu \/ PreemptForWatermark \/ EndWatermarks
Targets == MakeRoom \/ NextTarget \/ MoveDown \/ EvictNext \/ EndFree
             \/ StayThere \/ KeepRunning \/ RecomputeVictim
Transfers == Copy \/ CommitDown \/ CommitUp
SwapIn == SkipSwapped \/ MoveUp \/ Readmit \/ EndSwapIn
PrefillPhase == AdmitNew \/ AdmitMore \/ PrefillTooLarge \/ EndPrefill
DecodePhase == TakeRunning \/ DecodeCur \/ PreemptOther \/ PreemptSelf \/ DecodeTooLarge \/ EndDecode
Model == RunNext \/ EndRun \/ PostNext \/ EndStep

(* The steps the engine's loop takes by itself. *)
Engine == StartStep \/ Watermarks \/ Targets \/ Transfers \/ SwapIn
            \/ PrefillPhase \/ DecodePhase \/ Model

SchedNext == Engine \/ FailTransfer \/ ResetStats \/ \E s \in Seqs : Arrive(s)

allVars == <<vars, schedVars>>
SchedSpec == SchedInit /\ [][SchedNext]_allVars
(* generate() calls step() until is_finished(). *)
FairSpec == SchedSpec /\ WF_allVars(Engine)
-----------------------------------------------------------------------------
(* Properties.                                                             *)

(* The decode loop takes requests out of running and gives them back at    *)
(* its end; until then it holds them, and the handlers that put them back  *)
(* know the victim and the request it makes room for.                      *)
Handled == {cur, victim} \ {NoSeq}
TakenOut == IF phase = "decode" THEN batch ELSE << >>
AllQueued == waiting \o running \o swapped \o TakenOut \o SetToSeq(Handled)
Unfinished(s) == status[s] \notin {"new", "finished"}

DownCall == [op : {"down"}, seq : Seqs, to : Seq(Tier), cleared : BOOLEAN]
FreeCall == [op : {"free"}, tier : Tier, need : Nat, seqs : Seq(Seqs)]

(* The deques, the work lists and the pending calls hold requests and      *)
(* tiers, the order by age is total, and a step never spends more tokens   *)
(* than max_num_batched_tokens (the chunk of schedule's prefill loop).     *)
QueueTypes ==
  /\ waiting \in Seq(Seqs) /\ running \in Seq(Seqs) /\ swapped \in Seq(Seqs)
  /\ older \subseteq Seqs \X Seqs
  /\ \A r, s \in Seqs : r # s => (<<r, s>> \in older <=> <<s, r>> \notin older)
  /\ odd \in BOOLEAN /\ moved \in Nat /\ room \in 0 .. MaxBatchedTokens
  /\ levels \in Seq(Tier) /\ todo \in Seq(Seqs) /\ batch \in Seq(Seqs)
  /\ cur \in Seqs \cup {NoSeq} /\ victim \in Seqs \cup {NoSeq}
CallTypes ==
  /\ phase \in {"idle", "demote", "cool", "gpu", "swapin", "prefill", "decode", "run",
                 "post", "raised"}
  /\ phase = "cool" => levels # << >>
  /\ calls \in Seq(DownCall \cup FreeCall)
(* The types of the scheduler's state; phase and calls are those of its    *)
(* whole-request loops.                                                    *)
SchedTypeOK == QueueTypes /\ CallTypes

(* While no exception ended a step, every admitted request that is not     *)
(* finished is in one queue or in the hands of the decode loop, once, and  *)
(* a finished one is nowhere; the queue agrees with the request's status.  *)
(* (popleft, remove, append and extendleft of schedule, preempt,           *)
(* _schedule_swapped and postprocess.)                                     *)
OneHome ==
  phase # "raised" =>
    /\ Injective(AllQueued)
    /\ ToSet(AllQueued) = {s \in Seqs : Unfinished(s)}
    /\ \A s \in ToSet(waiting) : status[s] = "waiting"
    /\ \A s \in ToSet(swapped) : status[s] = "swapped"
    /\ \A s \in ToSet(running) \cup ToSet(TakenOut) \cup Handled :
         status[s] = "running" \/ plan.seq = s

(* What a queue means for the blocks: a running request has all of them on *)
(* the GPU, a swapped one all of them on one lower tier except while it is *)
(* being readmitted, a waiting one has none or a part of its prompt.       *)
QueuesPlaceBlocks ==
  phase # "raised" =>
    /\ \A s \in ToSet(running) \cup ToSet(waiting) : AllOn(s, GPU)
    /\ \A s \in ToSet(swapped) :
         \/ tableTier[s] # GPU /\ AllOn(s, tableTier[s])
         \/ phase = "swapin" /\ todo # << >> /\ s = Head(todo)

(* The model gets exactly the requests that were given tokens, each once,  *)
(* all of whose blocks are on the GPU (the check of ModelRunner.run), and  *)
(* no request is left with tokens that no step computes.                   *)
BatchExact ==
  phase \in {"run", "post", "idle"} =>
    /\ Injective(batch)
    /\ \A s \in ToSet(batch) : Unfinished(s) => AllOn(s, GPU)
    /\ {s \in Seqs : numSched[s] > 0} =
         IF phase = "run" THEN ToSet(batch) ELSE ToSet(todo)

(* Never more than max_num_seqs requests are in execution, counting those  *)
(* of the batch whose prompt is not complete yet and those the decode loop *)
(* holds: the captured graphs and their buffers have no more rows.         *)
ActiveBounded ==
  phase # "raised" =>
    Cardinality(ToSet(running) \cup ToSet(batch) \cup Handled) <= MaxSeqs

(* However deep the calls that make room nest, a step moves no more blocks *)
(* than kv_max_transfer_blocks.                                            *)
BudgetRespected == MaxTransfer # -1 => moved <= MaxTransfer

(* reset_stats only looks at the queues: when they are empty, no request   *)
(* may still be active or hold a block of any tier.                        *)
ResetSafe ==
  phase \in {"idle", "raised"} /\ IsFinished =>
    free = Block /\ \A s \in Seqs : ~ Unfinished(s)

(* The errors of _schedule_swapped and schedule about swapped requests are *)
(* unreachable when whole requests are placed: what could be moved down    *)
(* fits the GPU with the block it needs next and the budget, and when only *)
(* swapped requests are left nothing occupies the GPU.                     *)
SwapInNeverRaises ==
  phase # "raised" =>
    /\ \A s \in ToSet(swapped) : ~ TooLarge(s)
    /\ ~ (SwapInDone /\ Stalled)

(* What an exception in schedule costs: the queues still hold each request *)
(* at most once, and one that is in no queue was given its decode token by *)
(* this very step or is too large for the GPU.  A victim of preemption and *)
(* the request it makes room for are always put back.                      *)
LostOnlyScheduled ==
  phase = "raised" =>
    /\ Injective(waiting \o running \o swapped)
    /\ \A s \in Seqs :
         Unfinished(s) /\ s \notin ToSet(waiting \o running \o swapped) =>
           numSched[s] = 1 \/ TooLarge(s)

(* The inductive invariant behind the properties of the queues.            *)

(* What is on the stack of pending calls: the outermost call moves the     *)
(* victim, or in _demote_swapped_tier a swapped request; the others make   *)
(* room, so they move swapped requests, and nothing moves down to the GPU. *)
CallOk(f, outermost) ==
  /\ f.op = "down" => /\ GPU \notin ToSet(f.to)
                      /\ IF outermost /\ phase # "cool"
                         THEN f.seq = victim ELSE f.seq \in ToSet(swapped)
  /\ f.op = "free" => ~ outermost /\ ToSet(f.seqs) \subseteq ToSet(swapped)

(* There is a victim exactly while calls of preempt are pending, and       *)
(* another request keeps a GPU block meanwhile or the victim fits the GPU. *)
CallsInv ==
  /\ calls # << >> => phase \in {"cool", "gpu", "decode"}
  /\ victim # NoSeq <=> calls # << >> /\ phase # "cool"
  /\ cur # NoSeq => phase = "decode"
  /\ victim # NoSeq => IF phase = "gpu" THEN running # << >>
                       ELSE cur # NoSeq /\ (cur = victim => ~ TooManyBlocks(Size(cur) + 1))
  /\ \A i \in DOMAIN calls : CallOk(calls[i], i = Len(calls))

(* The candidates of _demote_swapped_tier and _schedule_swapped are still  *)
(* swapped when their turn comes.                                          *)
TodoInv ==
  /\ phase \in {"cool", "swapin"} => ToSet(todo) \subseteq ToSet(swapped)
  /\ phase = "swapin" => Injective(todo)
  /\ \A s \in Seqs : <<s, s>> \notin older

(* What is moved down can be moved up again. *)
Returnable(s) == ~ TooLarge(s) /\ (MaxTransfer # -1 => Size(s) <= MaxTransfer)
PlanInv ==
  plan # NoPlan =>
    /\ plan.op = "swap"
    /\ \/ /\ phase = "swapin" /\ calls = << >> /\ todo # << >> /\ Len(running) < MaxSeqs
          /\ plan.seq = Head(todo) /\ plan.to = GPU
       \/ /\ calls # << >> /\ Top.op = "down"
          /\ plan.seq = Top.seq /\ plan.to # GPU /\ Returnable(plan.seq)

(* A request's status says in which queue it is. *)
WithStatus(st) == {s \in Seqs : status[s] = st}
HomeInv ==
  phase # "raised" =>
    /\ Injective(waiting) /\ ToSet(waiting) = WithStatus("waiting")
    /\ Injective(swapped) /\ ToSet(swapped) = WithStatus("swapped")
    /\ Injective(running)
    /\ ToSet(running) \cup ToSet(TakenOut) \cup Handled = WithStatus("running")
    /\ ToSet(running) \cap ToSet(TakenOut) = {}
    /\ (ToSet(running) \cup ToSet(TakenOut)) \cap Handled = {}

(* The requests with scheduled tokens are those of the batch, or those of  *)
(* it that postprocess has not visited.                                    *)
WithTokens == {s \in Seqs : numSched[s] > 0}
BatchInv ==
  phase # "raised" =>
    /\ Injective(batch)
    /\ WithTokens = IF phase = "post" THEN ToSet(todo) ELSE ToSet(batch)
    /\ phase \in {"idle", "demote", "cool", "gpu"} => batch = << >>
    /\ phase = "idle" => todo = << >>
    /\ phase = "swapin" => ToSet(batch) \subseteq ToSet(running)
    /\ phase = "decode" => \A s \in ToSet(batch) : numSched[s] = 1
    /\ phase = "post" => Injective(todo)
    /\ phase \in {"run", "post"} =>
         \A s \in ToSet(batch) : status[s] \in {"waiting", "running", "finished"}

(* A swapped request is on the GPU only just before it is readmitted. *)
PlaceInv ==
  phase # "raised" =>
    /\ \A s \in Seqs : tableTier[s] \in Tier
    /\ \A s \in ToSet(swapped) :
         /\ Returnable(s)
         /\ AtGpu(s) => /\ phase = "swapin" /\ plan = NoPlan /\ Len(running) < MaxSeqs
                        /\ todo # << >> /\ s = Head(todo)

SchedInv ==
  /\ SchedTypeOK /\ CallsInv /\ TodoInv /\ PlanInv /\ HomeInv /\ BatchInv /\ PlaceInv
  /\ ActiveBounded /\ LostOnlyScheduled

(* Every admitted request is answered, or an exception says why not.       *)
Served ==
  \A s \in Seqs : status[s] = "waiting" ~> (status[s] = "finished" \/ phase = "raised")
=============================================================================
