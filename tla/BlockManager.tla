---------------------------- MODULE BlockManager ----------------------------
(***************************************************************************)
(* The KV-block bookkeeping of the engine: the class BlockManager of       *)
(* nanovllm/engine/block_manager.py together with the fields of Sequence   *)
(* (nanovllm/engine/sequence.py) that it and its callers update.           *)
(*                                                                         *)
(* The client is the most general one: it calls the manager's operations  *)
(* on any request whenever the discipline that Scheduler keeps allows the  *)
(* call.  Scheduler's policy (who is preempted, in which order) is a       *)
(* restriction of this client, so what holds here holds under any policy.  *)
(*                                                                         *)
(* What the module abstracts.                                              *)
(*  - A block of any tier is a member of Block and TierOf says where it    *)
(*    lives.  The free deques are one set: any free block of a tier may    *)
(*    be popped.                                                           *)
(*  - The chained hash of the code is the token prefix itself, so hashes   *)
(*    do not collide; (hash, token_ids) of a block are set together at     *)
(*    every place and are one value here.                                  *)
(*  - kv is the content of the cache memory, which the code's bookkeeping  *)
(*    never reads: kv[b] is the token prefix whose last KV entries lie in  *)
(*    b, or Garbage.                                                       *)
(***************************************************************************)
EXTENDS Integers, Sequences, FiniteSets

CONSTANTS
  Seqs,               \* the requests
  Token,              \* the vocabulary
  Prompt,             \* the prompt of each request
  MaxTokens,          \* sampling_params.max_tokens of each request
  Eos,                \* the end-of-sequence token
  BlockSize,          \* tokens per block
  Block,              \* the blocks of all tiers
  TierOf,             \* the tier a block belongs to
  CacheTiers,         \* Scheduler.cache_tiers, fastest first
  EnablePrefixCache,  \* kv_enable_prefix_cache
  NoSeq               \* not a request

GPU == "gpu"
TierName == {"gpu", "cpu", "ssd", "remote"}
Tier == {CacheTiers[i] : i \in DOMAIN CacheTiers}
Lower(t) == {CacheTiers[j] : j \in {k \in DOMAIN CacheTiers :
                \E i \in DOMAIN CacheTiers : CacheTiers[i] = t /\ i < k}}

ASSUME ConstantsAssumption ==
  /\ IsFiniteSet(Seqs) /\ IsFiniteSet(Block)
  /\ Prompt \in [Seqs -> Seq(Token)]
  /\ \A s \in Seqs : Len(Prompt[s]) > 0
  /\ MaxTokens \in [Seqs -> Nat \ {0}]
  /\ BlockSize \in Nat /\ BlockSize > 1
  /\ CacheTiers \in Seq(TierName) /\ Len(CacheTiers) > 0 /\ CacheTiers[1] = GPU
  /\ \A i, j \in DOMAIN CacheTiers : CacheTiers[i] = CacheTiers[j] => i = j
  /\ TierOf \in [Block -> Tier]
  /\ EnablePrefixCache \in BOOLEAN
  /\ NoSeq \notin Seqs

NoHash == << >>       \* Block.hash = -1
Garbage == << >>      \* KV entries no attention call may read

VARIABLES
  tokens,       \* Sequence.token_ids
  numCached,    \* Sequence.num_cached_tokens
  numSched,     \* Sequence.num_scheduled_tokens
  status,       \* Sequence.status, "new" before add_request
  table,        \* Sequence.block_table
  tiers,        \* Sequence.block_tiers
  tableTier,    \* Sequence.block_table_tier, "none" when mixed
  refCount,     \* Block.ref_count
  blockHash,    \* Block.hash and Block.token_ids
  free,         \* free_block_ids and the free ids of the lower tiers
  used,         \* used_block_ids (GPU blocks only)
  hashToBlock,  \* hash_to_block_id
  plan,         \* the SwapPlan or BlockMovePlans in flight
  kv,           \* the cache memory
  computed      \* requests whose scheduled tokens went through the model

seqVars  == <<tokens, numCached, numSched, status, computed>>
placeVars == <<table, tiers, tableTier>>
poolVars == <<refCount, blockHash, free, used, hashToBlock>>
vars == <<seqVars, placeVars, poolVars, plan, kv>>

NoPlan == [op |-> "none", seq |-> NoSeq, to |-> GPU, src |-> << >>,
           dst |-> << >>, copied |-> FALSE]

-----------------------------------------------------------------------------
(* Blocks of a request.                                                    *)

NumBlocks(s) == (Len(tokens[s]) + BlockSize - 1) \div BlockSize
Prefix(s, i) == SubSeq(tokens[s], 1, i * BlockSize)
Held(s) == {table[s][i] : i \in DOMAIN table[s]}
AllOn(s, t) == \A i \in DOMAIN tiers[s] : tiers[s][i] = t
FreeIn(t) == {b \in free : TierOf[b] = t}
Injective(f) == \A i, j \in DOMAIN f : f[i] = f[j] => i = j
ImageOf(f) == {f[i] : i \in DOMAIN f}
Active(s) == status[s] \in {"running", "swapped"}

(* Definitions that end in a word in capitals are mistaken variants of the  *)
(* definition after them; no behaviour of Spec uses them.                  *)

NeedsBlockLATE(s) == Len(tokens[s]) % BlockSize = 0

(* may_append needs a block when the last token opens a new one. *)
NeedsBlock(s) == Len(tokens[s]) % BlockSize = 1

IndexWithoutSTALE(popped) == hashToBlock

(* Popping GPU blocks drops the index entries that still name them. *)
IndexWithout(popped) ==
  [h \in {x \in DOMAIN hashToBlock :
            ~ (hashToBlock[x] \in popped /\ blockHash[hashToBlock[x]] = x)}
     |-> hashToBlock[h]]

(* f overridden by the entries of g. *)
Override(f, g) == [x \in DOMAIN f \cup DOMAIN g |->
                     IF x \in DOMAIN g THEN g[x] ELSE f[x]]

(* Index entries for the blocks that carry a hash. *)
IndexOf(blocks, hash) ==
  IF EnablePrefixCache
  THEN [h \in {hash[b] : b \in blocks} \ {NoHash} |->
          CHOOSE b \in blocks : hash[b] = h]
  ELSE << >>

(* One reference to each block of S is dropped: a GPU block returns to the *)
(* pool with its last reference, a lower-tier block has a single owner.    *)
FreedSHARED(S) == S
Freed(S) == {b \in S : TierOf[b] # GPU \/ refCount[b] = 1}
RefAfterDropRESET(S) == [b \in Block |-> IF b \in S THEN 0 ELSE refCount[b]]
RefAfterDropTWICE(S) ==
  [b \in Block |-> IF b \notin S THEN refCount[b]
                   ELSE IF TierOf[b] = GPU THEN refCount[b] - 2 ELSE 0]
RefAfterDrop(S) ==
  [b \in Block |-> IF b \notin S THEN refCount[b]
                   ELSE IF TierOf[b] = GPU THEN refCount[b] - 1 ELSE 0]
HashAfterDrop(S) ==
  [b \in Block |-> IF b \in S /\ TierOf[b] # GPU THEN NoHash ELSE blockHash[b]]

-----------------------------------------------------------------------------
Init ==
  /\ tokens = Prompt
  /\ numCached = [s \in Seqs |-> 0]
  /\ numSched = [s \in Seqs |-> 0]
  /\ status = [s \in Seqs |-> "new"]
  /\ table = [s \in Seqs |-> << >>]
  /\ tiers = [s \in Seqs |-> << >>]
  /\ tableTier = [s \in Seqs |-> GPU]
  /\ refCount = [b \in Block |-> 0]
  /\ blockHash = [b \in Block |-> NoHash]
  /\ free = Block
  /\ used = {}
  /\ hashToBlock = << >>
  /\ plan = NoPlan
  /\ kv = [b \in Block |-> Garbage]
  /\ computed = {}

(* Transfers are synchronous: nothing else happens before commit or abort. *)
QuietASYNC == TRUE
Quiet == plan = NoPlan

(* LLMEngine.add_request and Scheduler.add *)
Add(s) ==
  /\ Quiet /\ status[s] = "new"
  /\ status' = [status EXCEPT ![s] = "waiting"]
  /\ UNCHANGED <<tokens, numCached, numSched, computed, placeVars, poolVars,
                 plan, kv>>

(* can_allocate: n is the number of leading full blocks found in the index,*)
(* and enough blocks are free for the others.                              *)
CachedBlock(s, i) == hashToBlock[Prefix(s, i)]
IsIndexed(s, i) == Prefix(s, i) \in DOMAIN hashToBlock
                     /\ blockHash[CachedBlock(s, i)] = Prefix(s, i)
CanAllocate(s, n) ==
  /\ n \in 0 .. NumBlocks(s) - 1
  /\ \A i \in 1 .. n : EnablePrefixCache /\ IsIndexed(s, i)
  /\ n < NumBlocks(s) - 1 => ~ (EnablePrefixCache /\ IsIndexed(s, n + 1))
  /\ Cardinality(FreeIn(GPU)) >=
       NumBlocks(s) - Cardinality({i \in 1 .. n : CachedBlock(s, i) \in used})

(* schedule's prefill branch gives the request c of its uncached tokens;   *)
(* the last chunk makes it a running request.                              *)
ScheduleChunk(s, cached, c) ==
  /\ c \in 1 .. Len(tokens[s]) - cached
  /\ numSched' = [numSched EXCEPT ![s] = c]
  /\ status' = [status EXCEPT ![s] =
                  IF cached + c = Len(tokens[s]) THEN "running" ELSE "waiting"]

(* First prefill step of a waiting request: can_allocate, allocate.        *)
PrefillNew(s, n, fresh, c) ==
  LET hit  == {CachedBlock(s, i) : i \in 1 .. n}
      new  == ImageOf(fresh)
      size == NumBlocks(s)
  IN /\ Quiet /\ status[s] = "waiting" /\ table[s] = << >> /\ numSched[s] = 0
     /\ CanAllocate(s, n)
     /\ fresh \in [n + 1 .. size -> FreeIn(GPU) \ hit] /\ Injective(fresh)
     /\ table' = [table EXCEPT ![s] =
                    [i \in 1 .. size |-> IF i <= n THEN CachedBlock(s, i) ELSE fresh[i]]]
     /\ tiers' = [tiers EXCEPT ![s] = [i \in 1 .. size |-> GPU]]
     /\ numCached' = [numCached EXCEPT ![s] = n * BlockSize]
     /\ ScheduleChunk(s, n * BlockSize, c)
     /\ refCount' = [b \in Block |->
                       IF b \in hit THEN (IF b \in used THEN refCount[b] + 1 ELSE 1)
                       ELSE IF b \in new THEN 1 ELSE refCount[b]]
     /\ blockHash' = [b \in Block |-> IF b \in new THEN NoHash ELSE blockHash[b]]
     /\ free' = free \ (hit \cup new)
     /\ used' = used \cup hit \cup new
     /\ hashToBlock' = IndexWithout(new)
     /\ UNCHANGED <<tokens, computed, tableTier, plan, kv>>

(* A later chunk of a prompt that did not fit the token budget.            *)
PrefillMore(s, c) ==
  /\ Quiet /\ status[s] = "waiting" /\ table[s] # << >> /\ numSched[s] = 0
  /\ ScheduleChunk(s, numCached[s], c)
  /\ UNCHANGED <<tokens, numCached, computed, placeVars, poolVars, plan, kv>>

(* may_append, with the block b it pops when the last token needs one.     *)
MayAppend(s, b) ==
  IF NeedsBlock(s)
  THEN /\ table' = [table EXCEPT ![s] = Append(@, b)]
       /\ tiers' = [tiers EXCEPT ![s] = Append(@, GPU)]
       /\ refCount' = [refCount EXCEPT ![b] = 1]
       /\ blockHash' = [blockHash EXCEPT ![b] = NoHash]
       /\ free' = free \ {b}
       /\ used' = used \cup {b}
       /\ hashToBlock' = IndexWithout({b})
  ELSE UNCHANGED <<table, tiers, poolVars>>

(* schedule's decode branch, can_append and may_append. *)
Decode(s, b) ==
  /\ Quiet /\ status[s] = "running" /\ numSched[s] = 0
  /\ b \in IF NeedsBlock(s) THEN FreeIn(GPU) ELSE Block
  /\ MayAppend(s, b)
  /\ numSched' = [numSched EXCEPT ![s] = 1]
  /\ UNCHANGED <<tokens, numCached, status, computed, tableTier, plan, kv>>

(* _schedule_swapped after the blocks came back. *)
Resume(s, b) ==
  /\ Quiet /\ status[s] = "swapped" /\ AllOn(s, GPU)
  /\ b \in IF NeedsBlock(s) THEN FreeIn(GPU) ELSE Block
  /\ MayAppend(s, b)
  /\ status' = [status EXCEPT ![s] = "running"]
  /\ numSched' = [numSched EXCEPT ![s] = 1]
  /\ UNCHANGED <<tokens, numCached, computed, tableTier, plan, kv>>

-----------------------------------------------------------------------------
(* The model run.  HoldsPrefix(b, i, m): block b holds, as i-th block of a *)
(* request with tokens x, the KV entries of x up to position m.            *)
Min2(a, b) == IF a < b THEN a ELSE b
HoldsPrefix(b, i, x, m) ==
  LET upTo == Min2(m, i * BlockSize)
  IN /\ Len(kv[b]) >= upTo /\ Len(kv[b]) <= i * BlockSize
     /\ SubSeq(kv[b], 1, upTo) = SubSeq(x, 1, upTo)

(* Every cached position of s is where s's block table looks for it. *)
BlocksSpanned(m) == (m + BlockSize - 1) \div BlockSize
ViewOk(s) ==
  \A i \in 1 .. BlocksSpanned(numCached[s]) :
    /\ i \in DOMAIN table[s]
    /\ TierOf[table[s][i]] = tiers[s][i]
    /\ HoldsPrefix(table[s][i], i, tokens[s], numCached[s])

(* The slots a scheduled request writes: prefill follows the block table,  *)
(* decode always writes the last block of the table.                       *)
EndOf(s) == numCached[s] + numSched[s]
WrittenIdx(s) ==
  IF numSched[s] = 1 /\ EndOf(s) = Len(tokens[s]) THEN {Len(table[s])}
  ELSE (numCached[s] \div BlockSize) + 1 .. BlocksSpanned(EndOf(s))
WrittenBlocks(s) == {table[s][i] : i \in WrittenIdx(s)}

(* The model computes the scheduled tokens of s from what its table names. *)
Run(s) ==
  /\ Quiet /\ numSched[s] > 0 /\ s \notin computed
  /\ kv' = [b \in Block |->
              IF \E i \in WrittenIdx(s) : table[s][i] = b
              THEN LET i == CHOOSE j \in WrittenIdx(s) : table[s][j] = b
                   IN IF ViewOk(s) /\ i <= BlocksSpanned(EndOf(s))
                      THEN SubSeq(tokens[s], 1, Min2(EndOf(s), i * BlockSize))
                      ELSE Garbage
              ELSE kv[b]]
  /\ computed' = computed \cup {s}
  /\ UNCHANGED <<tokens, numCached, numSched, status, placeVars, poolVars, plan>>

-----------------------------------------------------------------------------
(* postprocess.  hash_blocks names the blocks the chunk filled, chaining   *)
(* from the hash of the block before them.                                 *)
FilledIdx(s) == (numCached[s] \div BlockSize) + 1 .. EndOf(s) \div BlockSize
ChainHashRESTART(s, i) ==
  SubSeq(tokens[s], (numCached[s] \div BlockSize) * BlockSize + 1, i * BlockSize)
ChainHash(s, i) ==
  LET start == numCached[s] \div BlockSize
  IN (IF start > 0 THEN blockHash[table[s][start]] ELSE NoHash)
       \o SubSeq(tokens[s], start * BlockSize + 1, i * BlockSize)
IdxOf(s, b) == CHOOSE i \in DOMAIN table[s] : table[s][i] = b
HashedBlocks(s) ==
  [b \in Block |-> IF \E i \in FilledIdx(s) : table[s][i] = b
                   THEN ChainHash(s, IdxOf(s, b)) ELSE blockHash[b]]
IndexWithChunk(s) ==
  IF EnablePrefixCache
  THEN Override(hashToBlock,
                [h \in {ChainHash(s, i) : i \in FilledIdx(s)} |->
                   table[s][CHOOSE i \in FilledIdx(s) : ChainHash(s, i) = h]])
  ELSE hashToBlock

(* A chunk that leaves prompt tokens to compute; no token is sampled. *)
PostChunk(s) ==
  /\ Quiet /\ s \in computed /\ EndOf(s) < Len(tokens[s])
  /\ blockHash' = HashedBlocks(s)
  /\ hashToBlock' = IndexWithChunk(s)
  /\ numCached' = [numCached EXCEPT ![s] = EndOf(s)]
  /\ numSched' = [numSched EXCEPT ![s] = 0]
  /\ computed' = computed \ {s}
  /\ UNCHANGED <<tokens, status, placeVars, refCount, free, used, plan, kv>>

Completed(s) == Len(tokens[s]) - Len(Prompt[s])
Ends(s, t) == t = Eos \/ Completed(s) + 1 = MaxTokens[s]

(* The sampled token t is appended and the request goes on. *)
PostToken(s, t) ==
  /\ Quiet /\ s \in computed /\ EndOf(s) = Len(tokens[s]) /\ ~ Ends(s, t)
  /\ blockHash' = HashedBlocks(s)
  /\ hashToBlock' = IndexWithChunk(s)
  /\ numCached' = [numCached EXCEPT ![s] = EndOf(s)]
  /\ numSched' = [numSched EXCEPT ![s] = 0]
  /\ tokens' = [tokens EXCEPT ![s] = Append(@, t)]
  /\ computed' = computed \ {s}
  /\ UNCHANGED <<status, placeVars, refCount, free, used, plan, kv>>

(* deallocate, where blocks of the table may carry the hashes given. *)
Deallocate(s, hash) ==
  /\ refCount' = RefAfterDrop(Held(s))
  /\ blockHash' = [b \in Block |-> IF b \in Held(s) /\ TierOf[b] # GPU
                                   THEN NoHash ELSE hash[b]]
  /\ free' = free \cup Freed(Held(s))
  /\ used' = used \ Freed(Held(s))
  /\ numCached' = [numCached EXCEPT ![s] = 0]
  /\ table' = [table EXCEPT ![s] = << >>]
  /\ tiers' = [tiers EXCEPT ![s] = << >>]
  /\ tableTier' = [tableTier EXCEPT ![s] = GPU]

(* The sampled token ends the request, whose blocks are given back. *)
PostFinish(s, t) ==
  /\ Quiet /\ s \in computed /\ EndOf(s) = Len(tokens[s]) /\ Ends(s, t)
  /\ hashToBlock' = IndexWithChunk(s)
  /\ Deallocate(s, HashedBlocks(s))
  /\ numSched' = [numSched EXCEPT ![s] = 0]
  /\ tokens' = [tokens EXCEPT ![s] = Append(@, t)]
  /\ status' = [status EXCEPT ![s] = "finished"]
  /\ computed' = computed \ {s}
  /\ UNCHANGED <<plan, kv>>

(* preempt without a lower tier that fits: the KV is thrown away. *)
Recompute(s) ==
  /\ Quiet /\ status[s] = "running" /\ numSched[s] = 0
  /\ Deallocate(s, blockHash)
  /\ status' = [status EXCEPT ![s] = "waiting"]
  /\ UNCHANGED <<tokens, numSched, computed, hashToBlock, plan, kv>>

-----------------------------------------------------------------------------
(* Transfers: prepare, copy, commit or abort.                              *)

(* Targets are popped from the tier and take over the source's hash. *)
PopTargets(s, dst, t) ==
  LET new == ImageOf(dst)
      at(b) == CHOOSE i \in DOMAIN dst : dst[i] = b
  IN /\ refCount' = [b \in Block |-> IF b \in new THEN 1 ELSE refCount[b]]
     /\ blockHash' = [b \in Block |->
                        IF b \in new THEN blockHash[table[s][at(b)]] ELSE blockHash[b]]
     /\ free' = free \ new
     /\ used' = IF t = GPU THEN used \cup new ELSE used
     /\ hashToBlock' = IF t = GPU THEN IndexWithout(new) ELSE hashToBlock

StartPlan(op, s, dst, t) ==
  plan' = [op |-> op, seq |-> s, to |-> t, copied |-> FALSE, dst |-> dst,
           src |-> [i \in DOMAIN dst |-> table[s][i]]]

Movable(s) == Quiet /\ Active(s) /\ numSched[s] = 0

(* prepare_swap: the whole table, if no other request shares a block. *)
PrepareSwap(s, t, dst) ==
  /\ Movable(s)
  /\ tableTier[s] \in Tier
  /\ t \in Lower(tableTier[s]) \/ (t = GPU /\ tableTier[s] # GPU)
  /\ \A b \in Held(s) : refCount[b] = 1
  /\ dst \in [DOMAIN table[s] -> FreeIn(t)] /\ Injective(dst)
  /\ PopTargets(s, dst, t)
  /\ StartPlan("swap", s, dst, t)
  /\ UNCHANGED <<seqVars, placeVars, kv>>

(* prepare_block_move: one block to a lower tier (_move_block) or one call *)
(* per missing block to the GPU (_restore_blocks).                         *)
PrepareMove(s, t, I, dst) ==
  /\ Movable(s)
  /\ I \subseteq {i \in DOMAIN table[s] : tiers[s][i] # t} /\ I # {}
  /\ \/ t = GPU
     \/ \E i \in I : I = {i} /\ t \in Lower(tiers[s][i])
  /\ \A i \in I : refCount[table[s][i]] > 0
  /\ dst \in [I -> FreeIn(t)] /\ Injective(dst)
  /\ PopTargets(s, dst, t)
  /\ StartPlan("move", s, dst, t)
  /\ UNCHANGED <<seqVars, placeVars, kv>>

CopiedSTAGED(W) == [b \in Block |->
                      IF \E i \in W : plan.dst[i] = b
                      THEN kv[plan.src[CHOOSE i \in W : \A j \in W : j <= i]] ELSE kv[b]]
Copied(W) == [b \in Block |->
                IF \E i \in W : plan.dst[i] = b
                THEN kv[plan.src[CHOOSE i \in W : plan.dst[i] = b]] ELSE kv[b]]

(* _restore_blocks transfers only after it prepared every missing block. *)
Prepared ==
  plan.op = "move" /\ plan.to = GPU =>
    \A i \in DOMAIN table[plan.seq] :
      tiers[plan.seq][i] # GPU => i \in DOMAIN plan.dst

(* transfer_blocks succeeded. *)
CopyBlocks ==
  /\ plan # NoPlan /\ ~ plan.copied /\ Prepared
  /\ kv' = Copied(DOMAIN plan.dst)
  /\ plan' = [plan EXCEPT !.copied = TRUE]
  /\ UNCHANGED <<seqVars, placeVars, poolVars>>

(* transfer_blocks raised after copying the blocks of W, or (move) a later *)
(* prepare_block_move did: abort_swap, abort_block_move.                   *)
AbortTransferUSED(W) ==
  LET targets == ImageOf(plan.dst)
  IN /\ plan # NoPlan /\ ~ plan.copied /\ W \subseteq DOMAIN plan.dst
     /\ kv' = Copied(W)
     /\ refCount' = [b \in Block |-> IF b \in targets THEN 0 ELSE refCount[b]]
     /\ free' = free \cup targets
     /\ plan' = NoPlan
     /\ UNCHANGED <<seqVars, placeVars, blockHash, used, hashToBlock>>
AbortTransfer(W) ==
  LET targets == ImageOf(plan.dst)
  IN /\ plan # NoPlan /\ ~ plan.copied /\ W \subseteq DOMAIN plan.dst
     /\ kv' = Copied(W)
     /\ refCount' = [b \in Block |-> IF b \in targets THEN 0 ELSE refCount[b]]
     /\ blockHash' = [b \in Block |-> IF b \in targets THEN NoHash ELSE blockHash[b]]
     /\ free' = free \cup targets
     /\ used' = used \ targets
     /\ plan' = NoPlan
     /\ UNCHANGED <<seqVars, placeVars, hashToBlock>>

(* A committed demotion leaves the request in the swapped queue. *)
StatusAfterMoveRUNS == status
StatusAfterMove == [status EXCEPT ![plan.seq] = IF plan.to = GPU THEN @ ELSE "swapped"]
IndexWithTargets(index) ==
  IF plan.to = GPU THEN Override(index, IndexOf(ImageOf(plan.dst), blockHash)) ELSE index

(* commit_swap: the freed GPU blocks keep hash and index entry. *)
CommitSwap ==
  LET s == plan.seq  source == ImageOf(plan.src)
  IN /\ plan.op = "swap" /\ plan.copied /\ plan.src = table[s]
     /\ refCount' = RefAfterDrop(source)
     /\ blockHash' = HashAfterDrop(source)
     /\ free' = free \cup Freed(source)
     /\ used' = used \ Freed(source)
     /\ table' = [table EXCEPT ![s] = plan.dst]
     /\ tableTier' = [tableTier EXCEPT ![s] = plan.to]
     /\ tiers' = [tiers EXCEPT ![s] = [i \in DOMAIN plan.dst |-> plan.to]]
     /\ hashToBlock' = IndexWithTargets(hashToBlock)
     /\ status' = StatusAfterMove
     /\ plan' = NoPlan
     /\ UNCHANGED <<tokens, numCached, numSched, computed, kv>>

(* A table whose blocks are not all on one tier has no common tier. *)
TierAfterMoveMIXED == plan.to
TierAfterMove ==
  IF \A i \in DOMAIN table[plan.seq] : i \in DOMAIN plan.dst \/ tiers[plan.seq][i] = plan.to
  THEN plan.to ELSE "none"

(* commit_block_move: a freed GPU block loses hash and index entry. *)
CommitMove ==
  LET s == plan.seq  source == ImageOf(plan.src)  I == DOMAIN plan.dst
  IN /\ plan.op = "move" /\ plan.copied
     /\ \A i \in I : table[s][i] = plan.src[i]
     /\ refCount' = RefAfterDrop(source)
     /\ blockHash' = [b \in Block |-> IF b \in Freed(source) THEN NoHash ELSE blockHash[b]]
     /\ free' = free \cup Freed(source)
     /\ used' = used \ Freed(source)
     /\ table' = [table EXCEPT ![s] = [i \in DOMAIN @ |-> IF i \in I THEN plan.dst[i] ELSE @[i]]]
     /\ tiers' = [tiers EXCEPT ![s] = [i \in DOMAIN @ |-> IF i \in I THEN plan.to ELSE @[i]]]
     /\ tableTier' = [tableTier EXCEPT ![s] = TierAfterMove]
     /\ hashToBlock' = IndexWithTargets(IndexWithout(Freed(source)))
     /\ status' = StatusAfterMove
     /\ plan' = NoPlan
     /\ UNCHANGED <<tokens, numCached, numSched, computed, kv>>

(* reset_stats(clear_prefix_cache=True) between benchmark repetitions. *)
ClearPrefixCache ==
  /\ Quiet /\ \A s \in Seqs : status[s] \in {"new", "finished"}
  /\ used = {}
  /\ hashToBlock' = << >>
  /\ blockHash' = [b \in Block |-> IF TierOf[b] = GPU THEN NoHash ELSE blockHash[b]]
  /\ UNCHANGED <<seqVars, placeVars, refCount, free, used, plan, kv>>

-----------------------------------------------------------------------------
Prefill(s) ==
  \/ \E n \in 0 .. NumBlocks(s) - 1 : \E c \in 1 .. Len(tokens[s]) :
       \E fresh \in [n + 1 .. NumBlocks(s) -> FreeIn(GPU)] : PrefillNew(s, n, fresh, c)
  \/ \E c \in 1 .. Len(tokens[s]) : PrefillMore(s, c)
Post(s) == \/ PostChunk(s)
           \/ \E t \in Token : PostToken(s, t) \/ PostFinish(s, t)
Prepare(s) == \E t \in Tier :
  \/ \E dst \in [DOMAIN table[s] -> FreeIn(t)] : PrepareSwap(s, t, dst)
  \/ \E I \in SUBSET DOMAIN table[s] : \E dst \in [I -> FreeIn(t)] :
       PrepareMove(s, t, I, dst)
Transfer == CopyBlocks \/ CommitSwap \/ CommitMove
              \/ \E W \in SUBSET DOMAIN plan.dst : AbortTransfer(W)

Next == \/ \E s \in Seqs : \/ Add(s) \/ Prefill(s) \/ Run(s) \/ Post(s)
                           \/ Recompute(s) \/ Prepare(s)
                           \/ \E b \in Block : Decode(s, b) \/ Resume(s, b)
        \/ Transfer \/ ClearPrefixCache

Spec == Init /\ [][Next]_vars
-----------------------------------------------------------------------------
(* Properties.                                                             *)

Hash == Seq(Token)
PlanTargets == ImageOf(plan.dst)
InFlight(b) == IF b \in PlanTargets THEN 1 ELSE 0
Holders(b) == {s \in Seqs : b \in Held(s)}

(* Every variable has the type the code gives its field. *)
TypeOK ==
  /\ tokens \in [Seqs -> Seq(Token)]
  /\ numCached \in [Seqs -> Nat] /\ numSched \in [Seqs -> Nat]
  /\ status \in [Seqs -> {"new", "waiting", "running", "swapped", "finished"}]
  /\ table \in [Seqs -> Seq(Block)] /\ tiers \in [Seqs -> Seq(Tier)]
  /\ tableTier \in [Seqs -> Tier \cup {"none"}]
  /\ refCount \in [Block -> Nat] /\ blockHash \in [Block -> Hash]
  /\ free \subseteq Block /\ used \subseteq Block
  /\ DOMAIN hashToBlock \subseteq Hash /\ ImageOf(hashToBlock) \subseteq Block
  /\ kv \in [Block -> Seq(Token)] /\ computed \subseteq Seqs
  /\ plan = NoPlan \/ /\ plan.op \in {"swap", "move"} /\ plan.seq \in Seqs
                      /\ plan.to \in Tier /\ plan.copied \in BOOLEAN
                      /\ DOMAIN plan.dst \subseteq DOMAIN table[plan.seq]
                      /\ plan.dst \in [DOMAIN plan.dst -> Block]

(* A reference count is exactly the number of block tables that name the   *)
(* block, plus the transfer that is filling it: no operation, committed or *)
(* aborted, leaks a block or frees one that is still named, and no table   *)
(* names a block twice (allocate, deallocate, commit_swap, abort_swap,     *)
(* commit_block_move, abort_block_move).                                   *)
RefCountsExact ==
  /\ \A b \in Block : refCount[b] = Cardinality(Holders(b)) + InFlight(b)
  /\ \A s \in Seqs : Injective(table[s])

(* The free deques hold the blocks nobody references, used_block_ids the   *)
(* other GPU blocks; below the GPU a block has one owner.  These are what  *)
(* the assertions of _allocate_block, _deallocate_block and                *)
(* _release_offload_block rely on.                                         *)
PoolPartition ==
  /\ free = {b \in Block : refCount[b] = 0}
  /\ used = {b \in Block : TierOf[b] = GPU} \ free
  /\ \A b \in Block : TierOf[b] # GPU => refCount[b] <= 1

(* block_tiers says where the blocks of block_table are, block_table_tier  *)
(* is their common tier, and a request that is about to run, or is         *)
(* running, is wholly on the GPU ("Attention requires all scheduled KV     *)
(* blocks on GPU").                                                        *)
TagsOf(s) ==
  /\ DOMAIN tiers[s] = DOMAIN table[s]
  /\ \A i \in DOMAIN table[s] : TierOf[table[s][i]] = tiers[s][i]
  /\ tableTier[s] \in Tier => AllOn(s, tableTier[s])
  /\ (status[s] = "running" \/ numSched[s] > 0) => AllOn(s, GPU)
TagsAgree == \A s \in Seqs : TagsOf(s)

(* Between steps the block table covers exactly the tokens: one block too  *)
(* few and the next token has no slot, one too many (a second may_append)  *)
(* and prepare_decode writes a slot that attention never reads.            *)
CoverOf(s) ==
  LET len == Len(table[s])
  IN /\ status[s] \in {"new", "finished"} => len = 0
     /\ status[s] = "waiting" => len \in {0, NumBlocks(s)}
     /\ Active(s) /\ numSched[s] > 0 => len = NumBlocks(s)
     /\ Active(s) /\ numSched[s] = 0 =>
          len = BlocksSpanned(numCached[s]) /\ numCached[s] = Len(tokens[s]) - 1
TableCoversTokens == \A s \in Seqs : CoverOf(s)

(* hash_to_block_id never leads to a block whose content is another        *)
(* prefix, or was evicted, moved away, aborted or not yet computed: the    *)
(* next request with that prefix would attend to it.                       *)
PrefixIndexSound ==
  \A h \in DOMAIN hashToBlock :
    /\ TierOf[hashToBlock[h]] = GPU
    /\ blockHash[hashToBlock[h]] = h
    /\ kv[hashToBlock[h]] = h

(* The blocks a scheduled request is about to write belong to it alone and *)
(* are not offered to others by the prefix index.                          *)
WriteExclusive ==
  \A s \in Seqs : numSched[s] > 0 /\ s \notin computed =>
    \A b \in WrittenBlocks(s) :
      /\ refCount[b] = 1
      /\ b \notin ImageOf(hashToBlock)

(* Every cached token of every live request has its KV entries where the   *)
(* block table says they are, through sharing, eviction, demotion,         *)
(* readmission and failed transfers.                                       *)
ViewCorrect == \A s \in Seqs : ViewOk(s)

(* The scheduled tokens of a request are tokens it has, a request that is  *)
(* waiting or running keeps its blocks on the GPU, and only such a request *)
(* is ever scheduled.                                                      *)
ScheduleOf(s) ==
  /\ EndOf(s) <= Len(tokens[s])
  /\ s \in computed => numSched[s] > 0
  /\ numSched[s] > 0 => status[s] \in {"waiting", "running"} /\ table[s] # << >>
  /\ status[s] = "running" /\ numSched[s] > 0 => EndOf(s) = Len(tokens[s])
  /\ status[s] = "waiting" /\ numSched[s] > 0 => EndOf(s) < Len(tokens[s])
  /\ status[s] = "waiting" => AllOn(s, GPU)
  /\ table[s] = << >> => /\ numCached[s] = 0 /\ tableTier[s] = GPU
                         /\ ~ Active(s)
ScheduleSound == \A s \in Seqs : ScheduleOf(s)

(* A transfer in flight still describes the request it was prepared for,   *)
(* and its targets are free blocks of the target tier nobody else named    *)
(* ("Sequence changed while KV transfer was in progress", "Logical block   *)
(* changed during KV transfer" are never raised).                          *)
PlanSound ==
  plan # NoPlan =>
    LET s == plan.seq
    IN /\ Active(s) /\ numSched[s] = 0
       /\ plan.src = [i \in DOMAIN plan.dst |-> table[s][i]]
       /\ Injective(plan.dst)
       /\ \A b \in PlanTargets : TierOf[b] = plan.to /\ Holders(b) = {}
       /\ plan.op = "swap" => DOMAIN plan.dst = DOMAIN table[s]
       /\ plan.copied => Prepared

IndexOnGpu == \A h \in DOMAIN hashToBlock : TierOf[hashToBlock[h]] = GPU

(* The inductive invariant behind the ownership properties. *)
IndInv ==
  /\ TypeOK /\ RefCountsExact /\ PoolPartition /\ TagsAgree
  /\ TableCoversTokens /\ ScheduleSound /\ PlanSound /\ IndexOnGpu

(* What the blocks of a request contain.  Done(s) tokens of s went through *)
(* the model; hash_blocks has named the blocks filled by the cached ones   *)
(* and no other block of the table.                                        *)
Done(s) == IF s \in computed THEN EndOf(s) ELSE numCached[s]
ContentOf(s) ==
  /\ \A i \in 1 .. numCached[s] \div BlockSize : blockHash[table[s][i]] = Prefix(s, i)
  /\ \A i \in DOMAIN table[s] :
       i > numCached[s] \div BlockSize => blockHash[table[s][i]] = NoHash
  /\ \A i \in 1 .. BlocksSpanned(Done(s)) :
       HoldsPrefix(table[s][i], i, tokens[s], Done(s))

(* Only a full, hashed block is shared, through the index. *)
SharedHashed == \A b \in Block : refCount[b] > 1 => blockHash[b] # NoHash

(* The targets of a transfer have their sources' hashes, and once copied   *)
(* their contents, and are not in the index yet.                           *)
PlanContent ==
  \A i \in DOMAIN plan.dst :
    /\ blockHash[plan.dst[i]] = blockHash[plan.src[i]]
    /\ plan.copied => kv[plan.dst[i]] = kv[plan.src[i]]
    /\ plan.dst[i] \notin ImageOf(hashToBlock)

(* The inductive invariant behind the properties of contents. *)
ContentInv ==
  /\ \A s \in Seqs : ContentOf(s)
  /\ SharedHashed /\ PlanContent
  /\ PrefixIndexSound /\ NoHash \notin DOMAIN hashToBlock
BlockInv == IndInv /\ ContentInv

(* What the attention of s finds: entry p is the first p tokens that the   *)
(* block holding position p was computed from.                             *)
Seen(s) == [p \in 1 .. numCached[s] |->
              LET content == kv[table[s][BlocksSpanned(p)]]
              IN IF p <= Len(content) THEN SubSeq(content, 1, p) ELSE Garbage]

View == INSTANCE KVView WITH
          text <- tokens,
          view <- [s \in Seqs |-> Seen(s)],
          over <- {s \in Seqs : status[s] = "finished"}

(* The manager keeps the promise of KVView: a request's context is its own *)
(* and only its own steps change it.                                       *)
ImplementsKVView == View!Spec
=============================================================================
