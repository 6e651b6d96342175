------------------------------- MODULE BlockHot -------------------------------
(***************************************************************************)
(* The scheduler with kv_placement="block-hot": single blocks of swapped   *)
(* requests move down, a preempted request gives up one block at a time,   *)
(* and a request runs again when its missing blocks were restored.         *)
(*                                                                         *)
(* Arrivals, prefill, decode, the model's run and postprocess are those of *)
(* Scheduler; the watermarks, preemption and readmission are replaced.     *)
(* calls is again the stack of pending calls: "demote" is _demote_block,   *)
(* "free" _ensure_free_blocks, "cool" the loop of _demote_swapped_tier,    *)
(* "gpu" one pass of the while loop of _enforce_watermarks, "preempt" the  *)
(* loop of preempt.                                                        *)
(*                                                                         *)
(* A block of the prefix cache may have several owners, and a single one   *)
(* of them may move it: it gets a copy below, the others keep the block.   *)
(* Of the sort keys reuse_hits and the age of a block are left out: with   *)
(* the prefix cache any order of the blocks they decide between may be     *)
(* taken; without it the first is 0 and the second the age of the request, *)
(* which leaves (age, index, seq_id).                                      *)
(***************************************************************************)
EXTENDS Scheduler

VARIABLES
  rank,      \* last_used_step of unfinished requests, as a rank
  shared     \* history: some block has had two owners

hotVars == <<allVars, rank, shared>>
HotInit == SchedInit /\ rank = [s \in Seqs |-> 0] /\ shared = FALSE

Missing(s) == {i \in DOMAIN tiers[s] : tiers[s][i] # GPU}
Required(s) == Cardinality(Missing(s)) + Extra(s)

(* _cold_blocks: blocks with one owner come first, then those of the       *)
(* request used last.                                                      *)
SharedAt(p) == refCount[table[p[1]][p[2]]] > 1
Before(p, q) == p[2] < q[2] \/ (p[2] = q[2] /\ <<p[1], q[1]>> \in ById)
Colder(p, q) ==
  IF SharedAt(p) <=> SharedAt(q)
  THEN \/ rank[p[1]] > rank[q[1]]
       \/ rank[p[1]] = rank[q[1]] /\ ~ EnablePrefixCache /\ Before(p, q)
  ELSE SharedAt(q)
BlocksOn(S, t) == UNION {{<<s, i>> : i \in {j \in DOMAIN tiers[s] : tiers[s][j] = t}} : s \in S}
(* The sequences of the blocks of B in the order of their keys. *)
Sorted(B) == {q \in [1 .. Cardinality(B) -> B] :
                /\ Injective(q)
                /\ \A i, j \in DOMAIN q : i < j => ~ Colder(q[j], q[i])}
Cold(t, excluded) == Sorted(BlocksOn(ToSet(swapped) \ {excluded}, t))
(* preempt only moves blocks that no other request uses. *)
OwnGpuANY(s) == Sorted(BlocksOn({s} \cup ToSet(running), GPU))
OwnGpu(s) == Sorted({p \in BlocksOn({s}, GPU) : ~ SharedAt(p)})

Loop(op, t, n, items) == [op |-> op, tier |-> t, need |-> n, items |-> items]
Demote(p, t) == [op |-> "demote", seq |-> p[1], index |-> p[2], to |-> LowerSeq(t), cleared |-> FALSE]

-----------------------------------------------------------------------------
(* The loops over cold blocks.                                             *)

InLoop == calls # << >> /\ Top.op # "demote" /\ plan = NoPlan
InDemote == calls # << >> /\ Top.op = "demote" /\ plan = NoPlan

Enough ==
  \/ Top.op = "free" /\ FreeCount(Top.tier) >= Top.need
  \/ Top.op = "cool" /\ UsedIn(Top.tier) <= Low[Top.tier]

NextBlock ==
  /\ InLoop /\ Top.items # << >> /\ ~ Enough
  /\ calls' = <<Demote(Head(Top.items), Top.tier), [Top EXCEPT !.items = Tail(@)]>> \o Tail(calls)
  /\ UNCHANGED <<vars, queues, step, phase, levels, todo, cur, victim, batch, room>>

EndLoop ==
  /\ InLoop /\ Top.op \in {"free", "cool"} /\ (Top.items = << >> \/ Enough)
  /\ calls' = Tail(calls)
  /\ UNCHANGED <<vars, queues, step, phase, levels, todo, cur, victim, batch, room>>

(* _demote_block makes room in the next tier, if it has none. *)
LookBelow ==
  /\ InDemote /\ Top.to # << >> /\ ~ Top.cleared
  /\ LET t == Head(Top.to)
     IN \E q \in Cold(t, NoSeq) :
          calls' = (IF FreeCount(t) = 0 THEN <<Loop("free", t, 1, q)>> ELSE << >>)
                     \o <<[Top EXCEPT !.cleared = TRUE]>> \o Tail(calls)
  /\ UNCHANGED <<vars, queues, step, phase, levels, todo, cur, victim, batch, room>>

LookFurther ==
  /\ InDemote /\ Top.to # << >> /\ Top.cleared /\ FreeCount(Head(Top.to)) = 0
  /\ calls' = <<[Top EXCEPT !.to = Tail(@), !.cleared = FALSE]>> \o Tail(calls)
  /\ UNCHANGED <<vars, queues, step, phase, levels, todo, cur, victim, batch, room>>

(* _move_block *)
MoveBlock ==
  /\ InDemote /\ Top.to # << >> /\ Top.cleared /\ FreeCount(Head(Top.to)) > 0 /\ Budget(1)
  /\ \E dst \in [{Top.index} -> FreeIn(Head(Top.to))] :
       PrepareMove(Top.seq, Head(Top.to), {Top.index}, dst)
  /\ UNCHANGED schedVars

(* _demote_block returns False: no tier has room, or the budget is spent. *)
NotMoved ==
  /\ InDemote
  /\ \/ Top.to = << >>
     \/ Top.to # << >> /\ Top.cleared /\ FreeCount(Head(Top.to)) > 0 /\ ~ Budget(1)
  /\ calls' = Tail(calls)
  /\ UNCHANGED <<vars, queues, step, phase, levels, todo, cur, victim, batch, room>>

(* It returns True: the watermark loop looks at all blocks again, and a    *)
(* preempted request joins the swapped queue.                              *)
CommitBlock ==
  /\ calls # << >> /\ CommitMove
  /\ moved' = moved + 1
  /\ LET caller == calls[2].op
     IN /\ calls' = IF caller \in {"gpu", "preempt"} THEN Tail(Tail(calls)) ELSE Tail(calls)
        /\ IF caller = "preempt"
           THEN /\ swapped' = Append(swapped, plan.seq) /\ victim' = NoSeq
                /\ cur' = IF cur = plan.seq THEN NoSeq ELSE cur
           ELSE UNCHANGED <<swapped, victim, cur>>
  /\ UNCHANGED <<waiting, running, older, odd, phase, levels, todo, batch, room>>

-----------------------------------------------------------------------------
(* _enforce_watermarks.                                                    *)

CoolTier ==
  /\ phase = "demote" /\ levels # << >> /\ calls = << >>
  /\ LET t == Head(levels)
     IN \E q \in Cold(t, NoSeq) :
          calls' = IF UsedIn(t) > High[t] THEN <<Loop("cool", t, 0, q)>> ELSE << >>
  /\ levels' = Tail(levels)
  /\ UNCHANGED <<vars, queues, step, phase, todo, cur, victim, batch, room>>

CoolGpuLATE ==
  /\ phase = "demote" /\ levels = << >> /\ calls = << >>
  /\ phase' = IF Len(CacheTiers) > 1 /\ UsedIn(GPU) > High[GPU] + 1 THEN "gpu" ELSE "cooled"
  /\ UNCHANGED <<vars, queues, step, levels, todo, calls, cur, victim, batch, room>>
CoolGpu ==
  /\ phase = "demote" /\ levels = << >> /\ calls = << >>
  /\ phase' = IF Len(CacheTiers) > 1 /\ UsedIn(GPU) > High[GPU] THEN "gpu" ELSE "cooled"
  /\ UNCHANGED <<vars, queues, step, levels, todo, calls, cur, victim, batch, room>>

GpuPass ==
  /\ phase = "gpu" /\ calls = << >>
  /\ IF UsedIn(GPU) > Low[GPU]
     THEN (\E q \in Cold(GPU, NoSeq) : calls' = <<Loop("gpu", GPU, 0, q)>>) /\ UNCHANGED phase
     ELSE phase' = "cooled" /\ UNCHANGED calls
  /\ UNCHANGED <<vars, queues, step, levels, todo, cur, victim, batch, room>>

(* No cold block is left to move: preempt(candidate, allow_recompute=False) *)
PreemptForGpu ==
  /\ InLoop /\ Top.op = "gpu" /\ Top.items = << >> /\ Len(running) > 1
  /\ victim' \in Oldest(ToSet(running)) /\ running' \in RunningWithout(victim')
  /\ \E q \in OwnGpu(victim') : calls' = <<Loop("preempt", GPU, 0, q)>>
  /\ UNCHANGED <<vars, waiting, swapped, step, phase, levels, todo, cur, batch, room>>

GpuStuck ==
  /\ InLoop /\ Top.items = << >> /\ phase = "gpu"
  /\ \/ Top.op = "gpu" /\ Len(running) <= 1 /\ UNCHANGED <<running, victim>>
     \/ Top.op = "preempt" /\ running' = <<victim>> \o running /\ victim' = NoSeq
  /\ phase' = "cooled" /\ calls' = << >>
  /\ UNCHANGED <<vars, waiting, swapped, step, levels, todo, cur, batch, room>>

EndCooling ==
  /\ phase = "cooled"
  /\ IF swapped # << >> /\ moved = 0 /\ (waiting = << >> \/ ~ odd)
     THEN phase' = "swapin" /\ todo' \in ByAge(ToSet(swapped))
     ELSE phase' = "prefill" /\ todo' = << >>
  /\ UNCHANGED <<vars, queues, step, levels, calls, cur, victim, batch, room>>

-----------------------------------------------------------------------------
(* _schedule_swapped: in phase "swapin" the next request is looked at, in  *)
(* phase "restore" room was made for it if nothing is running.             *)
LookAtSwapped ==
  /\ phase = "swapin" /\ todo # << >> /\ ~ Full /\ ~ TooLarge(Head(todo))
  /\ LET s == Head(todo)
     IN \E q \in Cold(GPU, s) :
          calls' = IF running = << >> /\ FreeCount(GPU) < Required(s)
                   THEN <<Loop("free", GPU, Required(s), q)>> ELSE << >>
  /\ phase' = "restore"
  /\ UNCHANGED <<vars, queues, step, levels, todo, cur, victim, batch, room>>

InRestore == phase = "restore" /\ calls = << >> /\ plan = NoPlan
FitsGpu(s) ==
  /\ running # << >> => UsedIn(GPU) + Required(s) <= High[GPU]
  /\ FreeCount(GPU) >= Required(s)

PassOver ==
  /\ InRestore
  /\ LET s == Head(todo) IN Missing(s) # {} /\ Budget(Cardinality(Missing(s))) /\ ~ FitsGpu(s)
  /\ todo' = Tail(todo) /\ phase' = "swapin"
  /\ UNCHANGED <<vars, queues, step, levels, calls, cur, victim, batch, room>>

(* _restore_blocks prepares a move of each missing block; it moves all or  *)
(* none of them.                                                           *)
RestoreBlocks ==
  /\ InRestore
  /\ LET s == Head(todo)
     IN /\ Missing(s) # {} /\ Budget(Cardinality(Missing(s))) /\ FitsGpu(s)
        /\ \E dst \in [Missing(s) -> FreeIn(GPU)] : PrepareMove(s, GPU, Missing(s), dst)
  /\ UNCHANGED schedVars

CommitRestore ==
  /\ calls = << >> /\ CommitMove
  /\ moved' = moved + Cardinality(DOMAIN plan.dst)
  /\ UNCHANGED <<queues, older, odd, control>>

RunAgain ==
  /\ InRestore
  /\ LET s == Head(todo)
     IN /\ \E b \in Block : Resume(s, b)
        /\ swapped' \in Without(swapped, s)
        /\ running' = Append(running, s) /\ batch' = Append(batch, s)
  /\ todo' = Tail(todo) /\ phase' = "swapin"
  /\ UNCHANGED <<waiting, step, levels, calls, cur, victim, room>>

HotSwapInDone ==
  \/ phase = "swapin" /\ (IF todo = << >> THEN TRUE ELSE Full)
  \/ /\ InRestore
     /\ LET s == Head(todo) IN Missing(s) # {} /\ ~ Budget(Cardinality(Missing(s)))

(* The RuntimeErrors about swapped requests: of _schedule_swapped about    *)
(* the one it looks at, and the two of schedule.                           *)
NextTooLarge == phase = "swapin" /\ todo # << >> /\ ~ Full /\ TooLarge(Head(todo))
HotStalledOnBudget ==
  MaxTransfer # -1 /\ \E s \in ToSet(swapped) : Cardinality(Missing(s)) > MaxTransfer
HotStalledOnSpace ==
  /\ moved = 0 /\ swapped # << >> /\ running = << >>
  /\ \A s \in ToSet(swapped) : FreeCount(GPU) < Required(s)
HotStalled == waiting = << >> /\ (HotStalledOnBudget \/ HotStalledOnSpace)

EndHotSwapIn ==
  /\ HotSwapInDone
  /\ IF batch # << >> THEN phase' = "run" /\ todo' = batch
                      ELSE ~ HotStalled /\ phase' = "prefill" /\ todo' = << >>
  /\ UNCHANGED <<vars, queues, step, levels, calls, cur, victim, batch, room>>

(* The last error can be raised with a watermark as large as the GPU       *)
(* (GpuHeadroom below).                                                    *)
Stuck ==
  /\ NextTooLarge \/ (HotSwapInDone /\ batch = << >> /\ HotStalled)
  /\ Raise(running) /\ UNCHANGED vars

-----------------------------------------------------------------------------
(* Decode: preempt takes one block from the victim; recomputation if none  *)
(* of them can move.                                                       *)
TakeBlock ==
  /\ InDecode /\ cur # NoSeq /\ ~ CanAppend(cur)
  /\ IF running # << >>
     THEN victim' \in Oldest(ToSet(running)) /\ running' \in RunningWithout(victim')
     ELSE ~ TooManyBlocks(Size(cur) + 1) /\ victim' = cur /\ UNCHANGED running
  /\ \E q \in OwnGpu(victim') : calls' = <<Loop("preempt", GPU, 0, q)>>
  /\ UNCHANGED <<vars, waiting, swapped, step, phase, levels, todo, cur, batch, room>>

ThrowAway ==
  /\ InLoop /\ Top.op = "preempt" /\ Top.items = << >> /\ phase = "decode"
  /\ Recompute(victim)
  /\ waiting' = <<victim>> \o waiting
  /\ calls' = << >> /\ victim' = NoSeq /\ cur' = IF cur = victim THEN NoSeq ELSE cur
  /\ UNCHANGED <<running, swapped, step, phase, levels, todo, batch, room>>

Unshared == \A b \in Block : refCount[b] <= 1
Remember == shared' = (shared \/ ~ Unshared')
Unaged == UNCHANGED rank /\ Remember

(* postprocess sets last_used_step of the batch to the current step. *)
HotEndStep ==
  /\ EndStep
  /\ LET used0(s) == IF s \in ToSet(batch) THEN Cardinality(Seqs) + 1 ELSE rank[s]
         steps == {0} \cup {used0(r) : r \in {q \in Seqs : Unfinished(q)}}
     IN rank' = [s \in Seqs |-> IF Unfinished(s)
                                THEN Cardinality({v \in steps : v < used0(s)}) ELSE 0]
  /\ Remember

HotWatermarks == CoolTier \/ CoolGpu \/ GpuPass \/ PreemptForGpu \/ GpuStuck \/ EndCooling
HotTargets == NextBlock \/ EndLoop \/ LookBelow \/ LookFurther \/ MoveBlock \/ NotMoved
                \/ Copy \/ CommitBlock
HotSwapIn == LookAtSwapped \/ PassOver \/ RestoreBlocks \/ CommitRestore \/ RunAgain
               \/ EndHotSwapIn \/ Stuck
HotDecode == TakeRunning \/ DecodeCur \/ TakeBlock \/ ThrowAway \/ DecodeTooLarge \/ EndDecode

HotEngine ==
  \/ /\ StartStep \/ HotWatermarks \/ HotTargets \/ HotSwapIn \/ PrefillPhase \/ HotDecode
          \/ RunNext \/ EndRun \/ PostNext
     /\ Unaged
  \/ HotEndStep
HotNext ==
  \/ HotEngine
  \/ /\ FailTransfer \/ ResetStats \/ \E s \in Seqs : Arrive(s)
     /\ Unaged
HotSpec == HotInit /\ [][HotNext]_hotVars

-----------------------------------------------------------------------------
(* A running request has all its blocks on the GPU, and a swapped one has  *)
(* a block to wait for, although blocks of both are moved one at a time by *)
(* loops that remember them: no request waits in the swapped queue for     *)
(* nothing, and none runs with a hole in its context.                      *)
HotPlaces ==
  phase # "raised" =>
    /\ \A s \in ToSet(running) \cup ToSet(waiting) : AllOn(s, GPU)
    /\ \A s \in ToSet(swapped) : Missing(s) # {} \/ (InRestore /\ s = Head(todo))

(* What is swapped fits the GPU with the block it needs next: the error of *)
(* _schedule_swapped about a single request is never raised.               *)
HotSwappedFit == \A s \in ToSet(swapped) : ~ TooLarge(s)
(* Partly demoted requests keep GPU blocks from each other.  Nevertheless, *)
(* while GpuHeadroom and BudgetCoversRequests hold and no block has been   *)
(* shared, one of them can be restored when nothing else is left: schedule *)
(* does not raise for them.                                                *)
HotSwapInNeverRaises ==
  phase # "raised" /\ ~ shared =>
    HotSwappedFit /\ ~ (HotSwapInDone /\ batch = << >> /\ HotStalled)

-----------------------------------------------------------------------------
(* The inductive invariant behind the properties of the queues.            *)

DemoteCall == [op : {"demote"}, seq : Seqs, index : Nat, to : Seq(Tier), cleared : BOOLEAN]
LoopCall == [op : {"cool", "gpu", "free", "preempt"}, tier : Tier, need : Nat,
             items : Seq(Seqs \X Nat)]
HotTypeOK ==
  /\ QueueTypes
  /\ phase \in {"idle", "demote", "gpu", "cooled", "swapin", "restore", "prefill", "decode",
                 "run", "post", "raised"}
  /\ calls \in Seq(DemoteCall \cup LoopCall)

(* The requests whose blocks a loop may move: preempt takes the victim's,  *)
(* the other loops those of swapped requests.                              *)
Owners(op) == IF op = "preempt" THEN {victim} ELSE ToSet(swapped)

(* Calls alternate: a loop calls _demote_block for one of its blocks, and  *)
(* that calls the loop of _ensure_free_blocks; outermost is the loop of    *)
(* the phase.                                                              *)
Outer(op) ==
  \/ op = "cool" /\ phase = "demote"
  \/ op = "gpu" /\ phase = "gpu"
  \/ op = "free" /\ phase = "restore"
  \/ op = "preempt" /\ phase \in {"gpu", "decode"} /\ victim # NoSeq
FrameOk(q, i) ==
  IF q[i].op = "demote"
  THEN /\ i < Len(q) /\ q[i + 1].op # "demote"
       /\ GPU \notin ToSet(q[i].to) /\ q[i].seq \in Owners(q[i + 1].op)
  ELSE /\ IF i < Len(q) THEN q[i].op = "free" /\ q[i + 1].op = "demote" ELSE Outer(q[i].op)
       /\ \A p \in ToSet(q[i].items) : p[1] \in Owners(q[i].op)

(* The victim is preempt's, and unless blocks are shared it fits the GPU   *)
(* with one block more.                                                    *)
HotCallsInv ==
  /\ calls # << >> => phase \in {"demote", "gpu", "restore", "decode"}
  /\ \A i \in DOMAIN calls : FrameOk(calls, i)
  /\ victim # NoSeq => /\ calls # << >> /\ calls[Len(calls)].op = "preempt"
                       /\ shared \/ ~ TooManyBlocks(Size(victim) + 1)
                       /\ phase = "decode" => cur # NoSeq
  /\ cur # NoSeq => phase = "decode"

HotTodoInv ==
  /\ phase \in {"swapin", "restore"} => ToSet(todo) \subseteq ToSet(swapped) /\ Injective(todo)
  /\ phase = "restore" => todo # << >> /\ Len(running) < MaxSeqs
  /\ \A s \in Seqs : <<s, s>> \notin older

(* A transfer moves the block _demote_block was called for down, or all    *)
(* missing blocks of the request _schedule_swapped looks at up.            *)
HotPlanInv ==
  plan # NoPlan =>
    /\ plan.op = "move"
    /\ \/ /\ calls # << >> /\ Top.op = "demote" /\ plan.seq = Top.seq /\ plan.to # GPU
          /\ DOMAIN plan.dst = {Top.index}
       \/ /\ calls = << >> /\ phase = "restore" /\ plan.seq = Head(todo) /\ plan.to = GPU
          /\ DOMAIN plan.dst = Missing(plan.seq)

HotBatchInv ==
  /\ BatchInv
  /\ phase = "cooled" => batch = << >>
  /\ phase = "restore" => ToSet(batch) \subseteq ToSet(running)

(* Swapped requests have something to restore, and unless blocks are       *)
(* shared they can be restored.                                            *)
HotPlaceInv ==
  phase # "raised" =>
    \A s \in ToSet(swapped) : /\ shared \/ ~ TooLarge(s)
                              /\ Missing(s) # {} \/ (InRestore /\ s = Head(todo))

HistoryOk == shared \in BOOLEAN /\ (shared \/ Unshared)

(* Ages are compared as numbers. *)
RankTypeOK == rank \in [Seqs -> Nat]

HotInv ==
  /\ HotTypeOK /\ HotCallsInv /\ HotTodoInv /\ HotPlanInv /\ HomeInv /\ HotBatchInv
  /\ HotPlaceInv /\ ActiveBounded /\ LostOnlyScheduled /\ HistoryOk

-----------------------------------------------------------------------------
(* Why, as long as no block was shared, one of the swapped requests can be *)
(* restored when nothing else is left, while the watermark of the GPU is   *)
(* below its size.                                                         *)
GpuHeadroom == High[GPU] < Capacity(GPU)
(* Config: the budget covers a whole request of the greatest length. *)
BudgetCoversRequests ==
  MaxTransfer # -1 => \A s \in Seqs : BlocksSpanned(Len(Prompt[s]) + MaxTokens[s]) <= MaxTransfer

OnGpu(S) == BlocksOn(S, GPU)
FitsBeside(S, s) == Cardinality(OnGpu(S)) + Size(s) + Extra(s) <= Capacity(GPU)

(* As in the banker's algorithm: of any swapped requests one can be        *)
(* restored while the others keep the GPU blocks they have.                *)
Restorable == \A S \in SUBSET ToSet(swapped) : S # {} => \E s \in S : FitsBeside(S \ {s}, s)

(* No block can move down in the rest of the step. *)
NothingFits == ~ Budget(1) \/ \A t \in Tier \ {GPU} : FreeIn(t) = {}
Blocked == plan = NoPlan /\ NothingFits

(* A victim joins the swapped requests only if it can come back first.     *)
HotVictimInv == victim # NoSeq => FitsBeside(ToSet(swapped), victim) \/ Blocked

(* _enforce_watermarks leaves a free GPU block, or no swapped request any, *)
(* unless it could move nothing; until a request is scheduled nobody else  *)
(* takes a GPU block.                                                      *)
Restoring ==
  phase = "restore" /\ ((plan # NoPlan /\ plan.to = GPU) \/ Missing(Head(todo)) = {})
HotCooledInv ==
  phase \in {"cooled", "swapin", "restore", "prefill", "decode"} /\ batch = << >> /\ ~ Restoring =>
    FreeIn(GPU) # {} \/ Blocked \/ OnGpu(ToSet(swapped)) = {}

(* Its loop on the GPU has not yet tried the blocks in items.  The tiers   *)
(* that the _demote_block it calls has passed are full and stay full,      *)
(* because all that is called there only moves blocks further down.        *)
Further(below, f) ==
  IF f.op = "demote"
  THEN f.index \in DOMAIN tiers[f.seq] /\ tiers[f.seq][f.index] \in below /\ ToSet(f.to) \subseteq below
  ELSE /\ f.tier \in below
       /\ \A p \in ToSet(f.items) : p[2] \in DOMAIN tiers[p[1]] /\ tiers[p[1]][p[2]] \in below
HotGpuLoop(loop, pending) ==
  /\ loop.tier = GPU
  /\ IF loop.op = "gpu" THEN OnGpu(ToSet(swapped)) \subseteq ToSet(loop.items) \cup pending
                        ELSE loop.items # << >> \/ pending # {}
HotGpuInv ==
  phase = "gpu" /\ calls # << >> /\ ~ Blocked =>
    LET n == Len(calls)
    IN IF n = 1 THEN HotGpuLoop(calls[1], {})
       ELSE LET call == calls[n - 1]  below == ToSet(call.to)
            IN /\ HotGpuLoop(calls[n], {<<call.seq, call.index>>})
               /\ \E k \in 2 .. Len(CacheTiers) + 1 :
                    call.to = SubSeq(CacheTiers, k, Len(CacheTiers))
               /\ \A t \in Tier \ ({GPU} \cup below) : FreeIn(t) = {}
               /\ \A i \in 1 .. n - 2 : Further(below, calls[i])
               /\ plan # NoPlan => plan.to \in below

(* The request being restored gets the block it needs next. *)
HotRestoreInv == plan # NoPlan /\ plan.to = GPU => CanAppend(plan.seq)

HotSpaceInv == Restorable /\ HotVictimInv /\ HotCooledInv /\ HotGpuInv /\ HotRestoreInv
HotIndInv == HotInv /\ RankTypeOK /\ (shared \/ HotSpaceInv)
=============================================================================
