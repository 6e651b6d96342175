# Verification of nano-vllm's tiered KV cache

nano-vllm is a small LLM serving engine. This fork keeps the key/value (KV)
entries of requests in fixed-size blocks that can live on the GPU, in host memory
(CPU), in an SSD file or on a remote HTTP server, and moves them between those
tiers while requests run. This directory holds TLA+ modules of the code that
decides *which block belongs to whom, where it is, how it gets there, and which
request runs next*, of the engine's startup and its calls to worker processes, and
of the ledgers that experiments are resumed from; TLC configurations that check
them on small instances; and TLAPS proofs of the facts everything else rests on.

Paths below are relative to the repository's `src/` (`nanovllm/engine/...`).

1. [Inventory](#1-inventory)
2. [Modules](#2-modules)
3. [From code to model](#3-from-code-to-model)
4. [Runs](#4-runs)
5. [Fairness](#5-fairness)
6. [Theorems](#6-theorems)
7. [What the checks found](#7-what-the-checks-found)
8. [Not modelled](#8-not-modelled)
9. [Plan](#9-plan)

## 1. Inventory

| Component | Code | State | Operations | Correct when |
|---|---|---|---|---|
| Block manager | `engine/block_manager.py` | blocks of each tier with reference count and chained hash, free and used pools, `hash_to_block_id` | `can_allocate`/`allocate` (prefix hits), `may_append`, `deallocate`, `hash_blocks`, prepare/commit/abort of a whole-table swap and of single-block moves, `clear_prefix_cache` | counts equal references, a block in the pool has no user, the index leads only to blocks that hold the prefix, a written block is private, each request finds its own KV entries |
| Sequence | `engine/sequence.py` | tokens, cached and scheduled counts, status, block table, tier of each block | changed by the scheduler and the block manager | its table covers its tokens, its tags say where its blocks are |
| Scheduler | `engine/scheduler.py` | deques `waiting`, `running`, `swapped`; step and transfer counters | `add`, `schedule` (watermarks, readmission, prefill, decode), `preempt`, `postprocess`, `reset_stats` | a request is in exactly one place, a batch is consistent and bounded, the transfer budget is kept, an error loses nothing, every request is answered |
| LLM engine | `engine/llm_engine.py` | scheduler, runner, worker processes, traces | construction, `add_request`, `step`, `generate`, `reset_for_benchmark`, `exit` | the loop ends with every answer; startup and exit end on every rank |
| Model runner | `engine/model_runner.py` | KV memory, staging buffers, captured graphs | `run`, `swap_blocks`, `prepare_prefill`, `prepare_decode` | reads and writes exactly the slots of the batch; a transfer moves a block intact; a graph exists for every batch size |
| Tensor-parallel RPC | `model_runner.py` 86-107 | one shared buffer, one event per worker | `write_shm`, `read_shm`, `loop` | every worker executes every call once, in order |
| SSD cache | `engine/ssd_cache.py` | a file of slots, one staging buffer | `write_block`, `read_block`, `close` | a slot returns what was last written |
| Remote client | `engine/remote_cache.py` | one connection | `put_block`, `get_block`, `health` (with one retry), `clear` | a block read is the block last written, although calls time out and are repeated |
| Remote server | `engine/remote_cache_server.py` | dictionary of blocks, `used_bytes`, a lock; one thread per connection | PUT, GET, DELETE of a namespace | `used_bytes` is the size of the stored blocks and within the limit |
| Configuration | `config.py`, `sampling_params.py` | none | validation | parameters fit each other and what the other parts take for granted |
| Ledgers | `experiments/run_ablation.py`, `sweep_thresholds.py`, `validity.py`, `results.py`, `remote_namespace.py` | a file with a row for each configuration | run, resume, stop | rows of one file belong together; an `ok` row was compared with the baseline it stands next to and is kept |
| Experiment runner | `experiments/runners/nano_runner.py`, `bench.py` | none of its own | build an engine, warm up, measure, write a result | - |
| Comparison, quality, tables | other files of `experiments/`, `external_main_bench.py` | files | compare, aggregate, print | - |
| Model and layers | `models/`, `layers/`, `utils/` | tensors | forward, sampling | - |

### How they interact

`LLMEngine.generate` adds requests and calls `step` until the scheduler has none
left. A `step` calls `Scheduler.schedule`, hands the batch it returns to the model
runner, and passes the sampled tokens to `Scheduler.postprocess`. `schedule` is
the client of the block manager: it prepares a transfer (targets are popped), calls
the runner back through `transfer_blocks` to copy the bytes, and commits - or, when
the copy raises, aborts and lets the exception escape through its own loops. In
the runner a copy goes through device streams, the SSD file or the HTTP client,
which talks to a server that other engines share. With several GPUs rank 0
broadcasts each call to the workers through one shared-memory buffer, and the ranks
meet in the collectives of `torch.distributed`. An experiment builds engines, one per
configuration, in processes of their own; the ledger records how each ended.

### What is hard about it

The engine itself is single-threaded; its difficulty is *order and failure*:

* **Sharing and reuse.** A GPU block may be shared by several requests, indexed for
  future ones, freed with its hash still indexed, and popped again for something
  else. Counts, hashes and index are updated by ten operations that must match over any
  history.
* **Transfers that fail half way.** Between prepare and commit part of the bytes may
  have been copied; the abort must leave the source the truth.
* **A scheduler of mutually recursive calls.** Making room on one tier demotes
  requests to the next, which makes room there first, and so on, inside one
  transfer budget. While it happens the decode loop holds requests in local
  variables, in no queue, and any transfer may raise.
* **Progress.** Watermarks demote what readmission brings back, recomputed
  requests jump the queue, prompts are cut into chunks that hold blocks: each rule
  is sensible alone and together they have to answer every request.
* **Outside the scheduler:** timeouts and retries against a threaded server, short
  reads and writes of a file, one staging buffer for both directions, workers signalled
  through one buffer without an acknowledgement, ranks that wait in a collective
  for one that raised, a ledger rewritten in place and resumed with other arguments.

`PROJECT.json` lists these as hazards, each at its line, with the properties that
would notice it going wrong. Three have none, with the reason.

## 2. Modules

| Module | What it is |
|---|---|
| `KVView` | Abstract specification: each request has a private view of its own cached context. One request at a time learns, answers, finishes or forgets; nothing else changes a view. |
| `BlockManager` | The block manager and the sequences, with the KV memory, under the most general client that keeps the calling discipline of the scheduler. Implements `KVView`. |
| `Scheduler` | `schedule`, `preempt`, `postprocess` and the engine loop for `kv_placement="sequence"`. EXTENDS `BlockManager`: each of its block operations *is* an action of that module, restricted by policy. |
| `BlockHot` | The scheduler with `kv_placement="block-hot"`. EXTENDS `Scheduler`: arrivals, prefill, decode, model run and postprocess are those of `Scheduler`; watermarks, preemption and readmission are replaced by the loops over single blocks. |
| `RemoteCache` | The remote client and the server: requests, answers, timeouts, retries, one server thread per connection, a restart. |
| `Transfers` | `swap_blocks` of the model runner, its staging buffers, the SSD file, verification. EXTENDS `RemoteCache`: the remote reads and writes of a transfer *are* the calls of that module. |
| `Engine` | Construction of `LLMEngine`: configuration, sizes of the tiers, captured graphs, one process per rank; then the calls through shared memory, and exit. |
| `Ledger` | Invocations of `run_ablation.py` and `sweep_thresholds.py` on one ledger file. |
| `BlockManagerProofs`, `ContentProofs` | Theorems about `BlockManager!Spec`: who owns a block, and what is in it (among them that it implements `KVView!Spec`). |
| `SchedulerProofs`, `QueueProofs` | Theorems about `Scheduler!SchedSpec`: it implements `BlockManager!Spec`; its queues, batches and budget. |
| `BlockHotProofs` | Theorems about `BlockHot!HotSpec`: the same for the scheduler that moves single blocks, and that the blocks swapped requests keep on the GPU never shut all of them out. |
| `TransfersProofs`, `EngineProofs`, `LedgerProofs` | Theorems about `RemoteCache!RemoteSpec` and `Transfers!TransfersSpec`, `Engine!EngineSpec`, `Ledger!LedgerSpec`. |
| `MCBlockManager`, `MCScheduler`, `MCBlockHot`, `MCTransfers`, `MCEngine`, `MCLedger` | Constants of the instances TLC checks. |

The layering carries the argument: `KVView` is what attention needs,
`BlockManager` shows that *no policy* can break it as long as calls keep a simple
discipline (transfers are not interleaved with anything, only unscheduled requests are
moved, ...), and `Scheduler` is shown to keep that discipline. What is proved of
the manager then holds in the engine, and policies can be changed without
proving it again. `BlockHot` is such a change: it, too, moves blocks by conjoining the
manager's actions, and `HotKeepsDiscipline` is all that was needed to carry `CorrectView` and
`ViewRefinement` over to it.

Downwards, `BlockManager` takes for granted that a transfer copies its blocks or
raises, and that a block keeps its content until it is freed. `Transfers` models the
code that has to provide this, with `holds` as the manager's idea of each block, and
says how far it does (`Intact`). In the same way `Engine` says what startup establishes
of the sizes the manager and the scheduler are given (`StartEstablishes`).

A definition that ends in a word in capitals (`FreedSHARED`, `PutStatusALWAYS`) is a
mistaken variant of the definition after it, the way a plausible bug would write it.
No specification uses one; each shows that some property would notice that bug.

## 3. From code to model

### BlockManager

| Model | Code |
|---|---|
| `tokens`, `numCached`, `numSched`, `status`, `table`, `tiers`, `tableTier` | fields of `Sequence`; `status` is `"new"` before `add_request`, `tableTier = "none"` is `block_table_tier = None` |
| `refCount`, `blockHash` | `Block.ref_count`; `Block.hash` with `Block.token_ids` (always set together) |
| `free`, `used`, `hashToBlock` | the free deques and sets of all tiers, `used_block_ids`, `hash_to_block_id` |
| `plan` | the `SwapPlan` or `BlockMovePlan`s of the transfer in progress; `copied` once `transfer_blocks` returned |
| `kv` | the KV memory. `kv[b]` is the token prefix whose last entries lie in block `b`; `Garbage` where no one may look |
| `computed` | requests of the batch the model has run but `postprocess` has not seen |
| `PrefillNew`, `PrefillMore` | the prefill branch: `can_allocate`, `allocate`, one chunk |
| `Decode`, `Resume` | the decode branch and readmission: `can_append`, `may_append` |
| `Run` | what `prepare_prefill`/`prepare_decode` let the model read and write |
| `PostChunk`, `PostToken`, `PostFinish` | `postprocess` with `hash_blocks` and `deallocate` |
| `Recompute` | the end of `preempt` |
| `PrepareSwap`, `PrepareMove`, `CopyBlocks`, `CommitSwap`, `CommitMove`, `AbortTransfer(W)` | the transfer protocol; `W` are the blocks that were copied before the error |
| `ClearPrefixCache` | `clear_prefix_cache` |

Abstractions: the hash of a prefix *is* the prefix, so the 64-bit `blake2b` digest does not collide;
the free deques are one set, so any free block may be popped (the code pops the first
one: a subset of these behaviours); a block's content is a token prefix, so "right" means
"computed from exactly this request's tokens". `Run` computes garbage when the
request's view is wrong, so that one wrong block spreads as it would in the program.
`ignore_eos` is off: a request ends at the end-of-sequence token or at its limit, and
the sampled token is any member of `Token`. The SSD and the remote tier behave like
CPU blocks here: what their own protocols do is outside this module.

### Scheduler

A call of `schedule` is many steps, one per loop iteration and per transfer,
because a transfer may raise between any two. `phase` is the loop the call is in:

    idle -> demote <-> cool -> gpu -> swapin -> prefill -> decode -> run -> post -> idle

(`raised`: an exception left `schedule`.)

| Phase | Code | Actions |
|---|---|---|
| `demote`, `cool` | `_enforce_watermarks`, `_demote_swapped_tier` of the tiers between GPU and last | `VisitTier`, `DemoteNext`, `EndTier` |
| `gpu` | the same for running requests | `VisitGpu`, `PreemptForWatermark`, `EndWatermarks` |
| `swapin` | `_schedule_swapped` | `SkipSwapped`, `MoveUp`, `Readmit`, `EndSwapIn` |
| `prefill` | `schedule` 486-518 | `AdmitNew`, `AdmitMore`, `PrefillTooLarge`, `EndPrefill` |
| `decode` | `schedule` 521-563 | `TakeRunning`, `DecodeCur`, `PreemptOther`, `PreemptSelf`, `DecodeTooLarge`, `EndDecode` |
| `run`, `post` | `LLMEngine.step`, `postprocess` | `RunNext`, `EndRun`, `PostNext`, `EndStep` |

`preempt`, `_demote_swapped_tier` and `_ensure_free_blocks` call each other. Their
pending activations are the stack `calls` (innermost first): a `"down"` frame is the
loop over target tiers that all three contain, a `"free"` frame is
`_ensure_free_blocks` with the candidates it has left. `MakeRoom`, `NextTarget`,
`MoveDown`, `EvictNext`, `EndFree`, `StayThere`, `KeepRunning`, `RecomputeVictim` and
`CommitDown` are the steps of that stack; `FailTransfer` unwinds it, with the queues
as the `except` clauses leave them (`Requeued`).

`cur` is the request the decode loop popped, `victim` the one being preempted,
`batch` is `scheduled_seqs`, `room` what is left of `max_num_batched_tokens`, `moved` is
`step_transfer_count`. `older` is the order by `(last_used_step, seq_id)`; the step
number itself would grow without bound and only its order and its parity (`odd`) are read.

Abstractions: statistics are left out; the two `RuntimeError`s about swapped requests
that cannot come back are guards, and `SwapInNeverRaises` says they are not
reachable; a step after an exception is not modelled (`raised` is final, except that
`reset_stats` is judged there).

### BlockHot

The frame stack `calls` is used again, with other frames: `"demote"` is
`_demote_block`, which looks at the tiers below one after the other and, if one
is full, makes room there first; `"free"` is `_ensure_free_blocks`; `"cool"` the loop
of `_demote_swapped_tier`; `"gpu"` one pass of the `while` loop of
`_enforce_watermarks`, whose list of cold blocks is made anew after every
move; `"preempt"` the loop of `preempt` over the victim's own blocks, where
one moved block is enough to put the victim into `swapped`.

| Phase | Code | Actions |
|---|---|---|
| `demote` | `_demote_swapped_tier` of the lower tiers | `CoolTier`, `CoolGpu` |
| `gpu` | the `while` loop of `_enforce_watermarks` | `GpuPass`, `PreemptForGpu`, `GpuStuck` |
| `cooled` | `schedule` 466-469 | `EndCooling` |
| `swapin`, `restore` | `_schedule_swapped`, `_restore_blocks` | `LookAtSwapped`, `PassOver`, `RestoreBlocks`, `CommitRestore`, `RunAgain`, `EndHotSwapIn`, `Stuck` |
| `decode` | `schedule` 521-563, `preempt` | `TakeBlock`, `ThrowAway`, and those of `Scheduler` |
| any | the stack | `NextBlock`, `EndLoop`, `LookBelow`, `LookFurther`, `MoveBlock`, `NotMoved`, `CommitBlock` |

With the prefix cache a block may have several owners, and `_cold_blocks` moves shared ones last: the
owner that moves one gets a copy below, the others keep the block on the GPU, so that the move frees
nothing; `preempt` leaves shared blocks out (`OwnGpu`). Of the sort keys the model has the first two,
whether a block is shared and the age of its request, and without prefix cache the last two, `index` and `seq_id`:
the others are then 0 and the age of the request again. With the prefix cache `reuse_hits` and the age of the
block, which a request may inherit from another, decide between blocks that agree in the first two; there any
order may be taken (`Sorted`), a superset of what the code does. `rank` is
`last_used_step` of the unfinished requests, as a rank, because only its order is read. `shared` is a history
variable: some block has had two owners. The error of `_schedule_swapped` about one request that does not
fit (415) and the two of `schedule` are raised by `Stuck`.

### RemoteCache and Transfers

| Model | Code |
|---|---|
| `blocks`, `usedBytes` | `RemoteBlockStore.blocks`, `used_bytes`; a handler's change under the lock is one step |
| `conn`, `call` | `RemoteCacheClient.connection` and its operation in progress: `attempt` is the loop variable of the retry, `sent` that the request went out |
| `pending` | what is on each connection: a request not yet handled, an answer not yet read, or a break |
| `mem`, `staging`, `task` | contents of GPU, CPU and SSD blocks, the buffers of `SSDCache` and `RemoteCache`, and how far `swap_blocks` is with one block |
| `trusted`, `holds` (ghosts) | what the client was told of its blocks; what each place holds for the block manager |
| `disturbed` (ghost) | remote blocks whose last change was made by a request nobody waits for, or by a restart |

A client that gives up a call (timeout, reset, early end) may drop the connection, but a
request already sent stays in `pending`: its thread executes it at any later time, or never
(`Incomplete`, a body that did not arrive: status 400). `Retry` is the second pass of the loops in
`put_block`, `get_block` and `health`; `clear` has none and no handler, so that
`GiveUp` may leave its connection with the answer on it. `Restart` empties the server and
breaks every connection. A block is a value of `Data`; a short read or write leaves `Torn`. In
`Transfers` a step of `swap_blocks` is one read, one write or one side of a remote call;
`snapshot` and `check` are the reads of `kv_verify_transfers`. An error of the client or of
the file leaves `swap_blocks` (`Raised`): the manager aborts and `holds` stays.
A client's own block ids are used by one transfer at a time, and the copies between GPU and
CPU on device streams, ended by a synchronisation, are one step.

### Engine

| Model | Code |
|---|---|
| `cfg` | what `LLMEngine` is given; `ValidConfig` is `Config.__post_init__` |
| `at` | the statement each rank is at: `init`, `warmup`, `reduce`, `capture`, `create`/`open`, `barrier` of `ModelRunner.__init__`, then `idle` (rank 0) or `wait` (a worker), the steps of a call, `exit` |
| `entered`, `inside` | collectives: the n-th of one rank is the n-th of the others; `Leave` waits for all of them |
| `kvBlocks` | `num_gpu_blocks` of each rank, before and after the `all_reduce` |
| `shm`, `event`, `signal` | the buffer (length and body, written one after the other, the body in two steps), the event of each worker, the worker rank 0 signals next |
| `calls`, `mode`, `got`, `log` | what the main process called, what a worker read and what it executed |

A message is the number of its call. A worker that reads while the buffer is rewritten reads the
old call, the new one, or something that does not unpickle and ends it (`ReadBody`). `run`
stands for all collectives of a forward pass. `Local` are the calls without one: `reset_cache_stats`,
`get_cache_stats`, a run without sequences (`run_empty`, 483) and one that raises before its forward
pass (`run_raises`: 481, 489, or 465 when no graph is large enough). The last raises on every rank; rank 0 is free to go on,
as the caller of `generate()` may catch the error and call `exit`, but the loop of a worker has no handler and
the worker ends (`failed`). `Wanted` leaves how many blocks fit the memory
of a GPU open (`FreeBlocks`, zero among them).

Startup fails in two ways. `failed` is an error every rank computes alike, from the configuration or
from the shared minimum of the `all_reduce`; a worker is also there when it ended later. `raised` is an error of one rank alone: between two
collectives any rank may take it (`MayRaise`: `set_device`, `load_model`, memory, the stores of lower
tiers, the tokenizer), and `CreateShm` does so if the name `nanovllm` is there already, left by an engine that was
killed or used by another one (`EngineInit`). The other ranks then wait for it in their next collective.

### Ledger

A row keeps its configuration (`level`), `status`, the fingerprint of the source, the policy, the
command with the namespace, the output tokens of the result it points to, and whether they were compared
(`rate`). `Invoke` reads the file as `--resume` does and makes the checks that come
before the loop; `Differs`, `Skip`, `Bench`, `BenchWithoutResult` are the cases for one
configuration; `Written` is the file rewritten; `Crash` and `CrashWriting` end
the process anywhere, the latter with a prefix of the new file whose last row may be
cut. How a benchmark ends is any pair of a status and a result that `bench.py` can produce
(`Ended`); a result is what the tools look at in it: its validity, whether the tiers
were used as the configuration demands, its tokens. With the task-quality policy `Evidence` is which
check of the quality report fails first. An invocation that is refused before the loop
changes nothing and is no step.

## 4. Runs

| Run | Instance | States | Shows |
|---|---|---|---|
| `block` | three requests, two with the same prompt and all with a common first block; 3 GPU + 2 CPU + 1 SSD blocks; any policy; transfers fail after any part | 276,144 | `TypeOK`, `PoolPartition`, `TagsAgree`, `TableCoversTokens`, `PlanSound`, `RefCountsExact`, and that `BlockInv`, the invariant of the proofs, is one; `PrefixIndexSound` (the index never leads to a wrong prefix); `WriteExclusive` (a block about to be written is private and not indexed); `ViewCorrect`; `ImplementsKVView` (refinement of `KVView`) |
| `sched` | four requests, three with a common first block, one of which never fits; 4 GPU + 2 CPU + 1 SSD blocks; 2 tokens a step; transfers may raise | 385,819 | `SchedInv` (the invariant of the proofs), `OneHome`, `QueuesPlaceBlocks`, `BatchExact`, `SwapInNeverRaises`, `LostOnlyScheduled` |
| `sched_live` | three requests, 5 GPU + 2 CPU + 2 SSD blocks, prompts within the token budget, a transfer budget of 2 blocks | 47,323 | `Served` under fairness; `ActiveBounded`, `BudgetRespected`; no deadlock |
| `sched_reset` | a request that outgrows the GPU | | **violates** `ResetSafe` (finding 1) |
| `sched_chunked` | prompts longer than the token budget | | **violates** `Served` (finding 2) |
| `block_hot` | three requests, two of them with a common prefix, that grow to the size of the GPU and beyond, with prefix cache; 4 GPU + 1 CPU + 1 SSD blocks; transfers may raise | 257,081 | `HotIndInv` (the invariants of the proofs, which give `OneHome`), `HotPlaces` (nothing runs with a hole, nothing waits for nothing), `HotSwapInNeverRaises` |
| `block_hot_live` | 4 GPU + 2 CPU blocks, GPU watermarks 4/2, no transfer fails | | **violates** `Served` (finding 3) |
| `transfers` | one engine, one GPU, one SSD and two remote blocks, two contents, two connections, a server with room for one block, verification on | 2.3 million | `UsedExact`, `FreshUnlessLate` (what the server holds is what the client was told unless an abandoned request or a restart came between), `WedgedOnlyByClear`, `Intact`, `StagedRight`, and the invariant of the proofs, `TransferInv` |
| `transfers_late` | the same | | **violates** `NoMismatch` (finding 4) |
| `engine` | one to three ranks; 80 configurations, valid and invalid; a rank may raise alone, a run on all ranks | 154,382 | `StartEstablishes`, `StartEnds`, `GraphsCoverBatches`, `StaysInStep`, `CallReturns`, and the invariant of the proofs, `EngineInv` |
| `ledger` | both tools, three configurations, three settings, five results | 1.2 million | `OneSetting` (rows of different settings do not mix), `ExactWithBaseline`, `OkRowsKept`, `InvalidBaselineEnds`, and the invariant of the proofs, `CheckedInv` |
| `ledger_unchecked` | the sweep alone | | **violates** `OkMeansCompared` (finding 5) |

Blocks of a tier are symmetric model values except in the runs about liveness. Block
size is 2, the smallest that has full and partial blocks; prompts and outputs are chosen
so that prefixes are shared, blocks fill exactly, and requests outgrow a tier.
The vocabulary is `{1, 2}` and 2 ends a request, so every request may stop early or go to its
limit (in the two runs that show a livelock it is `{1}`).

**The bounds and why they are enough.** The hazards of the manager need two users of a block, a third
that takes it after eviction, and lower tiers to come back from, two of them for tables that are
spread over tiers: `block` has three requests and six blocks. The scheduler needs one request
that is executed, one that is swapped, one that waits, and one that arrives later: `sched`. Nesting
of the calls that make room needs a middle tier: with three tiers there is a `down` frame, a
`free` frame under it, and a `down` frame under that; in `block_hot` a `preempt`, a
`demote`, a `free` and a second `demote`. Every watermark is crossed in both directions. Token values only
matter through equality with other tokens and with the end-of-sequence token.

A late request needs one abandoned connection beside the one in use, and a newer content to
overwrite: two connections and two contents. A server with room for one block refuses the second
id, so the refusal, the overwrite of a stored block at the limit and the room won by a clear all
happen. The engine has one GPU block, because `swap_blocks` handles the blocks of
a call one after the other. CPU blocks behave as GPU blocks in `Transfers` (no staging buffer,
no error) and are left out of the instance.

Three bounds cut a behaviour off. `MaxCalls` of `Engine` limits the calls of the main process to 2, 4
and 2 for one, two and three ranks: rank 0 is ahead of a worker by calls without collectives, and
two of those in a row already lose or tear a message, so four calls have every such pair with a call before and one
after it, and a run that raises with calls before and after it; three ranks add that one worker is signalled before the other. `EngineInv` is proved for
any number of calls and ranks. `cut` of `Ledger` allows one crash during a
write per history. And in the liveness runs free blocks are popped in one order (section 5).

`CHECK_DEADLOCK FALSE` stands where the system may really stop: after an exception left
`schedule` (`sched`, `sched_reset`, `block_hot`, `block_hot_live`); after exit, a refused configuration or a hang the engine really has
(`engine`, see `StaysInStep` below); and for a ledger with which every invocation is refused
(`ledger`, `ledger_unchecked`).

`sched_chunked` differs from `sched_live` in the length of the prompts
against `MaxBatchedTokens`. The instance of `sched_chunked` with
`MaxBatchedTokens = 16` satisfies `Served`: chunking is what breaks it.
`TypeOK` and the block properties are not repeated for the scheduler's runs:
`KeepsDiscipline` (section 6) carries them over.

**What the properties of `Engine` say exactly.** A worker clears its event after it read the message, and
rank 0 waits for nothing before it writes the next one. Only the collectives inside a call keep
rank 0 from being too far ahead. `StaysInStep` and `CallReturns` therefore speak of a call
that has collectives and of a worker that was in step with every call before: then the call is
neither lost, repeated nor misread, and returns, because the worker leaves its collectives
before rank 0 can write the next message. That is the loop of `generate()`. It does not hold around `reset_cache_stats` and `get_cache_stats`, which
`reset_for_benchmark` and `cache_stats` broadcast without a collective, and around a run without sequences, as
`generate()` makes them one after the other when `schedule()` returns nothing (findings 2 and 3): two calls right behind each
other can lose the second one or let a worker read a half-written message, after which the
next collective hangs. Both properties also suppose that no earlier call raised. A run that
raises ends the workers, and rank 0 then waits in the barrier of `exit` (or in the next forward pass) for ever:
the model has these behaviours, and the properties promise nothing of them. `StartEnds` likewise says that startup ends alike
on all ranks *unless one raised on its own*; after that the others wait in a collective, in the model as in the
code. What `StartEstablishes` adds is that rank 0 never serves a call with such a rank missing. `GraphsCoverBatches` states which values of `max_num_seqs` are covered by a
captured graph for every batch: up to 8, multiples of 16, and 512 and more. With 9 or 20 a full
decode batch finds no graph and `run_model` raises.

## 5. Fairness

`Served` is checked under weak fairness of `Engine`, the disjunction of the steps
`generate()` takes by itself: its loop `while not self.is_finished(): self.step()`
(`llm_engine.py` 153-155) runs in one thread, and each `schedule`, model run and
`postprocess` returns. Nothing is assumed about *which* request a step serves, about
arrivals, about the token sampled, or about failures. In the liveness
runs transfers do not fail, because after an exception `generate` is left.

The liveness runs use `OrderedSpec` and `OrderedHotSpec`: the free blocks are popped in increasing
order instead of any order. Symmetry is unsound for liveness, and without prefix
cache the identity of a popped block has no effect on what the scheduler does, so one
order stands for all. `FairSpec` is the same fairness over the unrestricted module;
in `block_hot_live` the fairness is that of `HotEngine`.

`StartEnds` and `CallReturns` are checked under `EngineFairness`: weak fairness of each
process, since the operating system runs all of them: rank 0 through startup, through the steps of a
call it began and through the join of its exit; each worker through its loop. The main program
need not make another call. A collective returns when all ranks are in it (`Leave` is enabled); one
that never comes is not assumed away: the ranks then wait, and fairness does not help them (a time-out of
`torch.distributed`, which would end them later, is not modelled).

The remote server and the ledger have no liveness property: a timeout is always possible, and a
tool may be interrupted for good.

## 6. Theorems

Each theorem is about every value of the constants that satisfies the assumptions of its
module, not only the instance of a run:

* `ConstantsAssumption`: any set of requests, tokens and blocks, any prompts, any block size above 1 (256 and more
  in `config.py` 72-73), any tiers in any order after the GPU;
* `SchedulerAssumption`: what `config.py` validates, positive limits, watermarks with low not above
  high, a transfer budget of -1 or positive;
* `RemoteAssumption`, `TransfersAssumption`: any engines, connections and block ids, a block has a
  positive number of bytes; `DataAssumption` and `ContentAssumption` say that the markers of the model (nothing,
  unknown, free, torn) are not contents of blocks;
* `EngineAssumption`: any configurations with integer fields and a positive `max_num_seqs`, any number of ranks, and
  any bound on the number of calls;
* `LedgerAssumption`: any configurations 1 to 4, settings and results; the ablation's levels differ, as the
  constant list in `run_ablation.py` does.

TLC evaluates these assumptions in the runs of their modules.

| Theorem | Statement |
|---|---|
| `Invariance`, `BlockInvariance` | `Spec => []IndInv`, `Spec => []BlockInv` |
| `TypeCorrect`, `ReferenceCounting`, `Pools`, `Placement`, `Coverage`, `PlansSound` | `TypeOK`, `RefCountsExact`, `PoolPartition`, `TagsAgree`, `TableCoversTokens`, `PlanSound` are invariants of the manager |
| `IndexSound`, `ExclusiveWrites`, `CorrectView` | so are `PrefixIndexSound`, `WriteExclusive`, `ViewCorrect` |
| `ViewRefinement` | `Spec => ImplementsKVView`: the manager implements `KVView` |
| `KeepsDiscipline` | `SchedSpec => Spec`: the scheduler is a client the manager allows |
| `EngineReferenceCounting`, `ScheduledView`, `ScheduledViewRefinement` | hence the manager's properties in the scheduled engine |
| `SchedulerTypes`, `SchedInvariance` | `SchedSpec => []SchedTypeOK`, `SchedSpec => []SchedInv` |
| `QueuesExact`, `QueuesPlaced`, `BatchMatches`, `BatchFitsGraphs`, `ReadmissionNeverRaises`, `ExceptionsLoseOnlyScheduled` | `OneHome`, `QueuesPlaceBlocks`, `BatchExact`, `ActiveBounded`, `SwapInNeverRaises`, `LostOnlyScheduled` are invariants of the scheduler |
| `StepBudget` | so is `BudgetRespected` |
| `HotKeepsDiscipline` | `HotSpec => Spec`: so is the scheduler that moves single blocks |
| `HotView`, `HotViewRefinement` | hence `ViewCorrect`, `PrefixIndexSound`, `WriteExclusive` and `ImplementsKVView` with block-hot placement |
| `HotInvariance` | `HotSpec => []HotInv` |
| `HotQueuesExact`, `HotPlaced`, `HotBatchMatches`, `HotExceptions`, `HotStepBudget` | `OneHome`, `HotPlaces`, `BatchExact`, `LostOnlyScheduled` and `ActiveBounded`, `BudgetRespected` are invariants of `HotSpec` |
| `HotSpaceKept`, `HotNeverStarved` | with `GpuHeadroom`, `HotIndInv` is an invariant and swapped requests never lack space for good, until a block is shared |
| `HotSwapInSafe` | with `GpuHeadroom` and `BudgetCoversRequests`, `HotSwapInNeverRaises` is an invariant |
| `HotUnshared` | without prefix cache no block is ever shared, so that the three before hold throughout |
| `AccountingExact`, `AcknowledgedKept`, `OnlyClearWedges` | `UsedExact`, `FreshUnlessLate`, `WedgedOnlyByClear` are invariants of client and server, whatever the client asks |
| `TransfersUseRemote`, `TransfersRemote` | `TransfersSpec => RemoteSpec`, hence the same three for transfers |
| `TransferInvariance`, `ContentIntact`, `StagingRight` | `TransferInv`, `Intact`, `StagedRight` are invariants of `TransfersSpec` |
| `GraphsCovered`, `StartEstablished`, `StepsKept` | `GraphsCoverBatches`, `StartEstablishes`, `StaysInStep` are invariants of the engine |
| `EngineInvariance` | `EngineSpec => []EngineInv` |
| `AblationAlike`, `OkRowsStay`, `BadBaselineFinal` | `OneSetting`, and the action properties `OkRowsKept` and `InvalidBaselineEnds` of the ledgers |
| `LedgerChecked`, `ExactKept` | `CheckedInv` and `ExactWithBaseline`, if no sweep names the baseline twice |

**Ownership of blocks** (`BlockManagerProofs`). Exact reference counts are not
inductive alone. A commit drops one reference for each source block and hands the
target's to the request: that is exact only if the plan still describes the
request's table and nobody else holds the targets (`PlanSound`). A decode takes a block
only if the table really was one block short, which follows from the table
covering the cached tokens and the cached tokens being all but one
(`TableCoversTokens`, `ScheduleSound`). A lower-tier block is freed without looking at its
count, so it must have one owner (`PoolPartition`), and the tier tags must be true
(`TagsAgree`). Popping a GPU block deletes an index entry and prefix hits take blocks
from the index, which must therefore be GPU blocks (`IndexOnGpu`). `IndInv` is the
conjunction. The module first proves arithmetic of block counts (`SpanOfNext`: one more
token opens a block exactly when `may_append` asks for one), then five lemmas about
*ownership* that no longer mention operations - acquire, release, reserve,
unreserve, commit - then one lemma per action that shows which of these it is, and
that the other requests' shapes are framed.

**Contents of blocks** (`ContentProofs`). That the index is sound says nothing about a request whose
prefix was *not* taken from it, and the next request will be led to its blocks. `ContentInv`
therefore says what every block of every table has: the hash of its prefix if it is full, none if
not, and the entries of this request's tokens (`ContentOf`); only hashed blocks are shared (`SharedHashed`), so a
block that is appended to is private; the targets of a transfer have their sources' hashes and, once
copied, their contents, and are not in the index (`PlanContent`). `ViewRefinement` takes one step
of the manager to one step of one request's view: the view of a request is a prefix of its tokens
(`SeenIsContext`), so a step that writes elsewhere, moves blocks or shares them does not change it.

**The scheduler** (`SchedulerProofs`, `QueueProofs`). `KeepsDiscipline` needs little: every action of `Scheduler` conjoins
an action of the manager or leaves its variables alone. What it needs is that
arguments are in range (a work list holds requests, a target tier is a tier), so it is
proved together with `SchedTypeOK`. `StepBudget` needs the strengthening `BudgetKept`:
a transfer in flight was checked against the budget before it began and
nothing changes the size of its table until it is committed. The queues need the most: while calls
nest, a request is in a queue, in a local variable of the decode loop or the victim of the
outermost call, and an inner call must not move the outer one's victim. `CallsInv` says what
is on the stack (the outermost call moves the victim, those that make room move swapped requests only, nothing
moves down to the GPU), `TodoInv` that the candidates of a loop are still swapped when their turn comes,
`PlanInv` whose transfer is in flight, `HomeInv`, `BatchInv` and `PlaceInv` what statuses, tokens and
tags say of queues and batch. That swapped requests can always be readmitted is the fact that only
`Returnable` requests are swapped, together with counting: if nothing occupies the GPU, all its blocks are
free.

**Block-hot placement** (`BlockHotProofs`). Three arguments, each on top of the one before.

*Discipline and queues* (`HotInv`), with and without prefix cache. The calls on the stack alternate: a loop calls `_demote_block` for one of
its blocks, that calls the loop of `_ensure_free_blocks`, and the outermost loop is the one of the phase
(`HotCallsInv`). A loop remembers blocks it found earlier, so what it needs is that their owners do not
change: `preempt` moves only its victim's blocks, all others only those of swapped requests (`Owners`), and
nobody joins or leaves the swapped queue meanwhile. A move either takes the block of the call on top down or
brings all missing blocks of one request up (`HotPlanInv`). `HotPlaceInv` then gives `HotPlaces`: a
victim joins `swapped` only when one of its blocks was moved down, and leaves it only when all are back.
None of this depends on who else uses a block: a request that moves a block it shares gets a copy, and the
other owner's table and tags stay (`BlockManager`). The part of `HotInv` that counts blocks against the
GPU, a swapped request or a victim fits it (`TooLarge`, `TooManyBlocks`), is stated until a block is shared
(`shared`, a history variable that never becomes false again).

*Swapped requests never shut each other out* (`HotSpaceInv`), until a block is shared. With shared blocks the
argument fails at its first step: moving a block down may free none, and a request that fills the GPU can
be preempted while another one runs on blocks they share. If it then needs one block more than the GPU has,
`_schedule_swapped` raises (415): TLC reaches that in the instance of `block_hot`, where
`c` shares blocks with `a` and outgrows the GPU. It is the error the code has for a request too large for the GPU, so
`HotSwapInNeverRaises` claims nothing once blocks were shared. A swapped request keeps blocks on the
GPU, so that none of several may find the blocks it needs, and `schedule` raises (477). `Restorable`
is the condition of the banker's algorithm: of *any* set of swapped requests one fits beside the GPU
blocks that the others keep. It has to say "any set", because a request that was restored may be
gone when the next is looked at. A demotion only helps; what can break it is a new victim. All its
blocks are on the GPU, beside those the swapped requests keep, and to come back it needs one block
more (`HotVictimInv`). If another request was running, that block is one of the other's: so when the
victim makes room for a request, when the watermark loop preempts (it leaves one running), and when
something was scheduled in this step already. There remains a request that is alone and its own
victim, when `schedule` found the GPU full. It must not come to that unless no swapped request has a
block there, so `_enforce_watermarks` has to leave a free block behind, or no block of a swapped
request, unless nothing can move at all (`HotCooledInv`). That its loop gives up only then is the
hardest part: `_demote_block` tries the tiers below one after the other, and each attempt moves
further blocks down, which might use up what the attempts before it had looked for. `HotGpuInv` says
that the tiers a call has passed are full, and stay so because whatever is called below it works on
lower tiers only (`Further`), and that the blocks not yet tried are still in the work list.

*The budget* (`HotSwapInSafe`). The other error (472) is about a request with more blocks missing
than `kv_max_transfer_blocks`. A request is never longer than its prompt and `max_tokens`
(`HotLengths`), and the budget covers that many blocks.

Two hypotheses are not assumptions of a module but of the theorems that need them. `GpuHeadroom`:
the high watermark of the GPU is below its size, as with every `kv_high_watermarks["gpu"]` below 1
(the default is 0.90). `config.py` 99 also accepts 1. Then `_enforce_watermarks` need not leave a
free block, and the hypothesis is needed: with `HighGpu = 4` in `BlockHot.cfg` TLC finds the error
of line 477 raised with nothing waiting and two swapped requests that each fit the GPU, but not
beside the blocks the other keeps there. `BudgetCoversRequests`: `config.py` 137-146 demands it of
requests up to `max_model_len` ("kv_max_transfer_blocks must cover a whole maximum-length request");
`add_request` does not check that a request is that short (section 8). Both hold in the instance of
`block_hot`.

**Client, server and transfers** (`TransfersProofs`). `RemoteInv`: a call waits on a connection with its own
request (`CallOK`), an answer is true of the blocks unless they were disturbed (`AnswerOK`), and the client
knows nothing of a block its call may be changing (`DoubtOK`). `Transfers` uses this through
`TransfersUseRemote` and adds that the client's call is the one the step of `swap_blocks` makes
(`CallOf`), that a transfer goes from a held to a free block (`TaskOK`), and that what the manager counts on is
what the client vouches for (`HeldOk`).

**The engine** (`EngineProofs`). `GraphsCovered` is arithmetic over a fixed configuration:
a batch above 8 finds the next multiple of 16 if that is among the captured sizes
(`EnoughGraphs`), and where `max_num_seqs` is no such number a full batch finds none
(`FullBatchUncovered`). `StartEstablished` counts collectives: the n-th of one rank is the n-th of the others (`Met`),
so whoever is past the third knows that every rank has given its number of blocks (`StagesOK`, `SizesOK`).
`StepsKept` counts them again: for a worker in step, the collectives rank 0 announced are
those the worker entered or owes (`FollowsOK`). A rank that raises on its own leaves the collective it met the others in
and enters none after it, so both counts stay true of it; a worker can only do so before its barrier,
which is why rank 0 never gets past that barrier without it. Rank 0 can therefore not overwrite a message whose call has
collectives before the worker has executed it. A worker may lose step only at a call
that has none, and ends at one that raises (`LostStep`).

**The ledgers** (`LedgerProofs`). Rows of an ablation are added in the order of its levels (`InOrder`), so each
invocation has compared its setting with every row it leaves behind (`AblationRun`). `ExactKept` has the
hypothesis `BaselineOnce`: `sweep_thresholds.py` 72 takes a list of engines and does not drop
repetitions. With `--engines 1 2 1` a baseline that ends with a result but not `ok` is run
again, after configuration 2 was compared with the first result, and its second result takes the
place of the first. TLC shows it when `MCSweeps` has `<<1, 2, 1>>`. The repository only names
each engine once, so this is recorded here and not as a finding.

**Only model-checked:** `Served`, `StartEnds` and `CallReturns`. Liveness
under fairness, `ENABLED` and induction over data are outside the reach of the prover. Every other property of a
passing run is the statement of a theorem. `ResetSafe`, `NoMismatch`, `OkMeansCompared` and
`Served` in two runs are violated, as section 7 says.
No module declares a `RECURSIVE` operator, which would cost its proofs the SMT
backend.

## 7. What the checks found

1. **A reset that passes while requests are active** (`sched_reset`,
   `scheduler.py` 536). The decode loop pops a request and, when it can never fit,
   raises without putting it, or the requests already scheduled in that step, back.
   All queues may then be empty while the requests are `RUNNING` and hold every block;
   `reset_stats`, which refuses to run "while requests are active" (661), looks only
   at the queues. The next `generate()` on that engine begins with no free block.
2. **A livelock with chunked prompts** (`sched_chunked`, `scheduler.py` 615). A
   recomputed request goes to the *head* of `waiting`, in front of a prompt whose first
   chunks are computed and hold blocks. If the head needs more blocks than are free,
   prefill stops at it, nothing is running, and `schedule()` returns no request for ever,
   without an error. It takes two requests in execution,
   a prompt that is cut and a decode that runs out of blocks.
3. **A livelock with block-hot placement** (`block_hot_live`, `scheduler.py` 472, 477).
   A request preempted by one block keeps its other blocks on the GPU. When every running
   request was preempted in this way and a prompt waits that does not fit next to those
   blocks, `_schedule_swapped` passes over every swapped request, prefill
   stops at the prompt, and both checks that are meant to raise are skipped because
   `waiting` is not empty. `schedule()` returns no request for ever.
4. **A late PUT** (`transfers_late`, `remote_cache.py` 34). `put_block` gives up after a
   timeout and sends its block again on a new connection. The server's thread may still hold the first
   request and store it after a *newer* content of the same block was stored and acknowledged: the
   block then has old bytes. With `kv_verify_transfers` the next transfer
   raises "KV block mismatch after" (`model_runner.py` 338), without it attention reads the old entries.
   `FreshUnlessLate` and `Intact` say that this, and a restart of the server, are the only ways.
5. **Rows that are `ok` and were never compared** (`ledger_unchecked`, `sweep_thresholds.py`
   332, `run_ablation.py` 221). The sweep refuses to start without a baseline ("Sweep
   requires engine 1 or a valid resumed GPU-only baseline", 203), but goes on when the baseline's own
   benchmark ends in an error or a timeout without a result. The configurations after it are recorded as `ok`,
   and resuming with a good baseline skips them as completed. `ExactWithBaseline`
   holds because it speaks only of rows that were compared.

`LostOnlyScheduled` states what holds instead of "an exception loses no request": the
victim and the request it makes room for are always put back; the requests the
step had already scheduled are not.

## 8. Not modelled

* **The order `reuse_hits` and the age of a block give** to the candidates of block-hot placement when the prefix
  cache is on (`touch`): any order of the blocks they decide between is allowed, so no property may depend on it.
* **A rank that fails inside a run** (memory in the middle of a forward pass) or is ended by a time-out of
  `torch.distributed`; and *when* a run raises: `run_raises` is allowed for every configuration, a superset
  of the cases in the code (`GraphsCoverBatches` says for which sizes 465 is one).
* **A step after an exception**: what a caller that catches the error and goes on
  would compute from requests that were lost.
* **Requests longer than `max_model_len`**: `add_request` does not refuse them
  (`llm_engine.py` 59); the modelled requests fit the captured tables.
* **Several blocks in one call of `swap_blocks`**: they go through the staging buffers one after the
  other; `Transfers` has the order within one block.
* **Two engines with one namespace**: the name depends only on workload, configuration and
  source (`remote_namespace.py` 6), so a benchmark that survives its killed parent shares it with the
  next one. The ledger model has no process that survives.
* **Logit traces, replay and margins** of the model runner: recording and comparing numbers.
* **Experiment runner, comparison, quality and table scripts**: straight sequences of calls and
  file formats. What the runner does to an engine are the calls of `Engine`; what it leaves
  behind is the input of `Ledger`.
* **Kernels, sampling, HTTP syntax, checks of names and paths, statistics, timings, plots**: pure
  computation or I/O without state the properties depend on.
* **Hash collisions**: `blake2b` digests of 8 bytes; the code compares token ids before it
  trusts a hit but not the chain before it.

## 9. Plan

Modules in the order of what mattered most. All are written.

| Step | Module | For |
|---|---|---|
| 1 | `BlockManager`, `KVView`, proofs | ownership, truthful placement, correct views |
| 2 | `Scheduler`, proofs | queues, batches, budget, progress with whole requests |
| 3 | `BlockHot` | progress and placement with single blocks |
| 4 | `RemoteCache` | late requests, retries, the byte budget |
| 5 | `Transfers` | staging buffers, partial failures: how far a copy is what `BlockManager` takes it for |
| 6 | `Engine`, a first proof | startup and sizes, the shared-memory calls, graph sizes |
| 7 | `Ledger` | resumption after crashes and with other arguments |

Of the proofs that can be given, none of those planned is left. What could be added: a condition under which
block-hot placement raises no error about swapped requests that share blocks, where the counting behind `Restorable`
would have to be replaced by one of physical blocks; and a driver that goes on after an exception.
