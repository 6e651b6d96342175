------------------------------- MODULE Engine --------------------------------
(***************************************************************************)
(* LLMEngine and its ModelRunner processes: startup and the sizing of the  *)
(* tiers (config.py, ModelRunner.__init__ and allocate_kv_cache), the      *)
(* calls rank 0 sends the other ranks through shared memory, and exit.     *)
(*                                                                         *)
(* The ranks meet in the collectives of torch.distributed: the n-th        *)
(* collective of one rank is the n-th of every other, and a rank waits in  *)
(* one for as long as another does not come, even if it never will.  "run" *)
(* is a run with a forward pass and stands for all its collectives; rank 0 *)
(* reads the tokens at its end and cannot return before the others are in  *)
(* it.  reset_cache_stats, get_cache_stats and a run without sequences     *)
(* ("run_empty") have no collective, and one that raises before the        *)
(* forward pass ("run_raises") has none either: it raises on every rank,   *)
(* which the caller of rank 0 may survive and the loop of a worker does    *)
(* not.  A message is the number of the call it carries, 0 while it is     *)
(* being copied.                                                           *)
(***************************************************************************)
EXTENDS Integers, Sequences, FiniteSetsExt

CONSTANTS
  Configs,       \* what LLMEngine may be given
  MaxPositions,  \* max_position_embeddings of the model
  TokensPerBlock, BytesPerBlock,
  FreeBlocks,    \* how many KV blocks may fit the free memory of a GPU
  MaxCalls       \* bound on the calls of the main process, by number of ranks

ASSUME EngineAssumption ==
  /\ MaxPositions \in Nat \ {0} /\ TokensPerBlock \in Nat \ {0} /\ BytesPerBlock \in Nat \ {0}
  /\ FreeBlocks \subseteq Int
  /\ \A c \in Configs :
       /\ c.seqs \in Nat \ {0} /\ c.eager \in BOOLEAN
       /\ c.engine \in Int /\ c.tp \in Int /\ c.gpu \in Int /\ c.transfer \in Int /\ c.len \in Int
       /\ \A t \in {"cpu", "ssd", "remote"} : c.bytes[t] \in Int /\ c.blocks[t] \in Int
  /\ MaxCalls \in [1 .. 8 -> Nat]

VARIABLES
  cfg,      \* the configuration
  at,       \* where each rank is
  inside,   \* the rank is in the collective of its place
  entered,  \* collectives each rank has entered
  kvBlocks, \* num_gpu_blocks of each rank
  shm,      \* the shared memory: length and content written last, and whether it exists
  event,    \* the event of each worker
  signal,   \* the worker whose event rank 0 sets next
  got,      \* what a worker read
  log,      \* the calls each worker executed
  calls,    \* the calls of the main process
  mode      \* "generating" in the loop of generate()

place == <<at, inside, entered>>
wire == <<shm, event, signal, got, log>>
program == <<calls, mode>>
engineVars == <<cfg, place, kvBlocks, wire, program>>

Ranks == {0} \cup UNION {0 .. c.tp - 1 : c \in Configs}
World == 0 .. cfg.tp - 1
Workers == World \ {0}

-----------------------------------------------------------------------------
(* Configuration and sizes.                                                *)

TierOrder == <<"gpu", "cpu", "ssd", "remote">>
EngineTiers(c) == SubSeq(TierOrder, 1, c.engine)
Lower(c) == {TierOrder[i] : i \in 2 .. c.engine}

ModelLen(c) == Min({c.len, MaxPositions})
BlocksFor(n) == (n + TokensPerBlock - 1) \div TokensPerBlock

(* Config.__post_init__ *)
CoversRequest(c) ==
  c.engine > 1 /\ c.transfer # -1 => c.transfer >= BlocksFor(ModelLen(c))
ValidConfig(c) ==
  /\ c.engine \in 1 .. 4 /\ c.tp \in 1 .. 8
  /\ c.engine > 1 => c.tp = 1
  /\ c.transfer = -1 \/ c.transfer > 0
  /\ \A t \in {"cpu", "ssd", "remote"} : c.bytes[t] >= 0 /\ c.blocks[t] >= -1
  /\ \A i \in 1 .. c.engine : 0 <= c.low[TierOrder[i]] /\ c.low[TierOrder[i]] < c.high[TierOrder[i]]
                              /\ c.high[TierOrder[i]] <= 100
  /\ CoversRequest(c)

(* allocate_kv_cache: blocks of a lower tier; those of a disabled tier     *)
(* were set to zero by the configuration.                                  *)
Bytes(c, t) == IF t \in Lower(c) THEN c.bytes[t] ELSE 0
TierBlocks(c, t) ==
  IF t \notin Lower(c) THEN 0
  ELSE IF c.blocks[t] >= 0 THEN c.blocks[t] ELSE c.bytes[t] \div (c.tp * BytesPerBlock)
TooSmallNEVER(c) == FALSE
TooSmall(c) ==
  \E t \in {"cpu", "ssd", "remote"} :
    \/ Bytes(c, t) > 0 /\ TierBlocks(c, t) = 0
    \/ t \in Lower(c) /\ TierBlocks(c, t) <= 0

(* capture_cudagraph: rows of the static inputs, sizes of the graphs.      *)
Rows(c) == IF c.seqs < 512 THEN c.seqs ELSE 512
GraphSizesSHORT(c) == {1, 2, 4, 8} \cup {g \in 16 .. Rows(c) - 1 : g % 16 = 0}
GraphSizes(c) == {1, 2, 4, 8} \cup {g \in 16 .. Rows(c) : g % 16 = 0}
(* run_model: when a graph is replayed, and the captured ones that would   *)
(* do for a decode batch. *)
UsesGraph(c, bs) == ~ c.eager /\ bs <= 512
GraphsFor(c, bs) == {g \in GraphSizes(c) : g >= bs}

-----------------------------------------------------------------------------
EngineInit ==
  /\ cfg \in Configs
  /\ at = [r \in Ranks |-> IF r = 0 THEN "config" ELSE "off"]
  /\ inside = [r \in Ranks |-> FALSE] /\ entered = [r \in Ranks |-> 0]
  /\ kvBlocks = [r \in Ranks |-> 0]
  \* another engine, or one that was killed, may have left the name behind
  /\ shm \in [there : BOOLEAN, len : {0}, body : {0}]
  /\ event = [r \in Ranks |-> FALSE] /\ signal = 1
  /\ got = [r \in Ranks |-> 0] /\ log = [r \in Ranks |-> << >>]
  /\ calls = << >> /\ mode = "rest"

(* LLMEngine.__init__: the configuration is checked, then the processes    *)
(* start.  *)
Configure ==
  /\ at[0] = "config"
  /\ IF ValidConfig(cfg)
     THEN at' = [r \in Ranks |-> IF r \in World THEN "init" ELSE "off"]
     ELSE at' = [at EXCEPT ![0] = "failed"]
  /\ UNCHANGED <<cfg, inside, entered, kvBlocks, wire, program>>

(* The collectives: init_process_group, the forward pass of warmup_model,  *)
(* all_reduce in allocate_kv_cache, the forward passes of                  *)
(* capture_cudagraph, barrier, the forward pass of run, barrier in exit.   *)
Gone == {"failed", "raised"}
Collective == {"init", "warmup", "reduce", "capture", "barrier", "run", "exit"}

(* The profiled number and the number asked for, before the all_reduce *)
Wanted(free) == IF cfg.gpu > 0 THEN Min({cfg.gpu, free}) ELSE free
Enter(r) ==
  /\ at[r] \in Collective /\ ~ inside[r]
  /\ inside' = [inside EXCEPT ![r] = TRUE] /\ entered' = [entered EXCEPT ![r] = @ + 1]
  /\ IF at[r] = "reduce"
     THEN \E free \in FreeBlocks : kvBlocks' = [kvBlocks EXCEPT ![r] = Wanted(free)]
     ELSE UNCHANGED kvBlocks
  /\ UNCHANGED <<cfg, at, wire, program>>

AgreedOWN(r) == kvBlocks[r]
Agreed(r) == Min({kvBlocks[q] : q \in World})
AfterStartOPENS(r) == IF cfg.tp = 1 THEN "idle" ELSE IF r = 0 THEN "create" ELSE "open"
AfterStart(r) == IF cfg.tp = 1 THEN "idle" ELSE IF r = 0 THEN "create" ELSE "barrier"
NextPlace(r) ==
  CASE at[r] = "init" -> "warmup"
    [] at[r] = "warmup" -> "reduce"
    [] at[r] = "reduce" -> (IF Agreed(r) <= 0 \/ TooSmall(cfg) THEN "failed"
                            ELSE IF cfg.eager THEN AfterStart(r) ELSE "capture")
    [] at[r] = "capture" -> AfterStart(r)
    [] at[r] = "barrier" -> (IF r = 0 THEN "idle" ELSE "open")
    [] at[r] = "run" -> (IF r = 0 THEN "idle" ELSE "wait")
    [] at[r] = "exit" -> (IF r = 0 THEN "join" ELSE "done")

LeaveTo(r, p) ==
  /\ inside[r] /\ \A q \in World : entered[q] >= entered[r]
  /\ inside' = [inside EXCEPT ![r] = FALSE]
  /\ at' = [at EXCEPT ![r] = p]
  /\ kvBlocks' = IF at[r] = "reduce" THEN [kvBlocks EXCEPT ![r] = Agreed(r)] ELSE kvBlocks
  /\ shm' = IF r = 0 /\ at[r] = "exit" THEN [shm EXCEPT !.there = FALSE] ELSE shm
  /\ UNCHANGED <<cfg, entered, event, signal, got, log, program>>

(* What a rank does next can raise on this rank alone: set_device and      *)
(* load_model, allocations and the stores of allocate_kv_cache, the graphs *)
(* and on rank 0 the tokenizer.                                            *)
MayRaise(r) == at[r] \in {"init", "warmup", "reduce", "capture"} \/ (r = 0 /\ at[r] = "barrier")
Leave(r) == LeaveTo(r, NextPlace(r)) \/ (MayRaise(r) /\ LeaveTo(r, "raised"))

(* FileExistsError if the name exists, while the workers are in the barrier *)
CreateShm ==
  /\ at[0] = "create"
  /\ shm' = [shm EXCEPT !.there = TRUE]
  /\ at' = [at EXCEPT ![0] = IF shm.there THEN "raised" ELSE "barrier"]
  /\ UNCHANGED <<cfg, inside, entered, kvBlocks, event, signal, got, log, program>>

OpenShm(w) ==
  /\ at[w] = "open"
  /\ at' = [at EXCEPT ![w] = IF shm.there THEN "wait" ELSE "failed"]
  /\ UNCHANGED <<cfg, inside, entered, kvBlocks, wire, program>>

-----------------------------------------------------------------------------
(* The main process: generate() resets, then runs until no request is      *)
(* left; reset_for_benchmark, cache_stats and exit come between, exit also *)
(* after an exception.  A run raises for a block that is not on the GPU    *)
(* and for a batch without a graph (GraphsCoverBatches).                   *)

Stats == {"reset_cache_stats", "get_cache_stats"}
Runs == {"run", "run_empty", "run_raises"}
Local == Stats \cup {"run_empty", "run_raises"}
Methods == Local \cup {"run", "exit"}
Offered == IF mode = "rest" THEN Stats \cup {"exit"} ELSE Runs \cup {"exit"}
ModesAfter(m) == CASE m \in {"reset_cache_stats", "run"} -> {"rest", "generating"}
                   [] m = "run_empty" -> {"generating"}
                   [] OTHER -> {"rest"}
PlaceOfLEAVES(r, m) ==
  IF m \notin Local THEN (IF r > 0 /\ m = "exit" THEN "done" ELSE m)
  ELSE IF r = 0 THEN "idle" ELSE IF m = "run_raises" THEN "failed" ELSE "wait"
PlaceOf(r, m) ==
  IF m \notin Local THEN m
  ELSE IF r = 0 THEN "idle" ELSE IF m = "run_raises" THEN "failed" ELSE "wait"

(* ModelRunner.call on rank 0, write_shm first if there are others *)
Call(m) ==
  /\ at[0] = "idle" /\ Len(calls) < MaxCalls[cfg.tp] /\ m \in Offered
  /\ calls' = Append(calls, m) /\ mode' \in ModesAfter(m)
  /\ at' = [at EXCEPT ![0] = IF cfg.tp > 1 THEN "length" ELSE PlaceOf(0, m)]
  /\ UNCHANGED <<cfg, inside, entered, kvBlocks, wire>>

Writes(from, to, message) ==
  /\ at[0] = from /\ at' = [at EXCEPT ![0] = to] /\ shm' = message
  /\ UNCHANGED <<cfg, inside, entered, kvBlocks, event, signal, got, log, program>>
WriteLength == Writes("length", "copy", [shm EXCEPT !.len = Len(calls)])
StartCopy == Writes("copy", "copying", [shm EXCEPT !.body = 0])
EndCopy == Writes("copying", "signal", [shm EXCEPT !.body = Len(calls)])

SetEvent ==
  /\ at[0] = "signal"
  /\ event' = [event EXCEPT ![signal] = TRUE]
  /\ IF signal = cfg.tp - 1
     THEN signal' = 1 /\ at' = [at EXCEPT ![0] = PlaceOf(0, calls[Len(calls)])]
     ELSE signal' = signal + 1 /\ UNCHANGED at
  /\ UNCHANGED <<cfg, inside, entered, kvBlocks, shm, got, log, program>>

(* LLMEngine.exit joins the processes. *)
Join ==
  /\ at[0] = "join" /\ \A w \in Workers : at[w] \in {"done"} \cup Gone
  /\ at' = [at EXCEPT ![0] = "done"]
  /\ UNCHANGED <<cfg, inside, entered, kvBlocks, wire, program>>

-----------------------------------------------------------------------------
(* A worker: loop and read_shm.                                            *)

ReadLength(w) ==
  /\ at[w] = "wait" /\ event[w]
  /\ got' = [got EXCEPT ![w] = shm.len] /\ at' = [at EXCEPT ![w] = "read"]
  /\ UNCHANGED <<cfg, inside, entered, kvBlocks, shm, event, signal, log, program>>

(* pickle.loads of that many bytes: what follows a pickle is ignored, a    *)
(* shortened or half-copied one raises and ends the process. *)
ReadBody(w) ==
  /\ at[w] = "read"
  /\ \/ shm.body # 0 /\ got' = [got EXCEPT ![w] = shm.body] /\ at' = [at EXCEPT ![w] = "clear"]
     \/ shm.body # got[w] /\ at' = [at EXCEPT ![w] = "failed"] /\ UNCHANGED got
  /\ UNCHANGED <<cfg, inside, entered, kvBlocks, shm, event, signal, log, program>>

(* The event is cleared and the call made. *)
StillSetALWAYS(w) == event[w]
StillSet(w) == FALSE
ClearEvent(w) ==
  /\ at[w] = "clear"
  /\ event' = [event EXCEPT ![w] = StillSet(w)]
  /\ at' = [at EXCEPT ![w] = PlaceOf(w, calls[got[w]])]
  /\ log' = [log EXCEPT ![w] = Append(@, got[w])]
  /\ UNCHANGED <<cfg, inside, entered, kvBlocks, shm, signal, got, program>>

Starting == Configure \/ CreateShm \/ \E w \in Workers : OpenShm(w)
Meeting(r) == Enter(r) \/ Leave(r)
Sending == WriteLength \/ StartCopy \/ EndCopy \/ SetEvent \/ Join
Working(w) == ReadLength(w) \/ ReadBody(w) \/ ClearEvent(w)
EngineNext ==
  \/ Starting \/ Sending
  \/ \E r \in World : Meeting(r)
  \/ \E w \in Workers : Working(w)
  \/ \E m \in Methods : Call(m)

(* Every process runs; the main program need not make another call. *)
EngineFairness ==
  /\ WF_engineVars(Starting) /\ WF_engineVars(Sending)
  /\ \A r \in Ranks : WF_engineVars(r \in World /\ Meeting(r))
  /\ \A w \in Ranks \ {0} : WF_engineVars(w \in Workers /\ (OpenShm(w) \/ Working(w)))
EngineSpec == EngineInit /\ [][EngineNext]_engineVars /\ EngineFairness

-----------------------------------------------------------------------------
StartPlaces == {"config", "off", "init", "warmup", "reduce", "capture", "create", "barrier", "open"}
Places == StartPlaces \cup {"idle", "length", "copy", "copying", "signal", "wait", "read", "clear",
                            "run", "exit", "join", "done"} \cup Gone

(* Ranks are where ranks can be, a worker reads and executes calls that    *)
(* were made, and it maps the shared memory only while it exists.          *)
EngineTypeOK ==
  /\ cfg \in Configs /\ at \in [Ranks -> Places] /\ inside \in [Ranks -> BOOLEAN]
  /\ entered \in [Ranks -> Nat] /\ kvBlocks \in [Ranks -> Int]
  /\ \A r \in Ranks : inside[r] => at[r] \in Collective
  /\ calls \in Seq(Methods) /\ mode \in {"rest", "generating"}
  /\ shm \in [there : BOOLEAN, len : 0 .. Len(calls), body : 0 .. Len(calls)]
  /\ event \in [Ranks -> BOOLEAN] /\ signal \in Nat \ {0}
  /\ got \in [Ranks -> 0 .. Len(calls)] /\ log \in [Ranks -> Seq(1 .. Len(calls))]
  /\ \A w \in Workers : at[w] \in {"open", "wait", "read", "clear", "run"} =>
       shm.there \/ (calls # << >> /\ calls[Len(calls)] = "exit")

(* What the modules BlockManager and Scheduler take for granted is what    *)
(* startup has established when the first request can come: every rank     *)
(* has the GPU blocks rank 0 hands out, every enabled tier has blocks and  *)
(* a disabled one none, and a transfer budget covers a whole request of    *)
(* max_model_len tokens; and no rank is missing that raised on its own.    *)
StartEstablishes ==
  at[0] \notin StartPlaces \cup Gone =>
    /\ \A r \in World : at[r] # "raised"
    /\ kvBlocks[0] > 0 /\ \A r \in World : kvBlocks[0] <= kvBlocks[r]
    /\ \A t \in {"cpu", "ssd", "remote"} : (TierBlocks(cfg, t) > 0) <=> (t \in Lower(cfg))
    /\ (cfg.engine > 1 /\ cfg.transfer > 0) =>
         \A n \in 1 .. ModelLen(cfg) : BlocksFor(n) <= cfg.transfer

(* Every decode batch the scheduler can make finds a captured graph with   *)
(* enough rows, in eager mode aside, exactly when max_num_seqs (up to 512) *)
(* is at most 8 or a multiple of 16; for 9 or 20 a full batch finds none   *)
(* and run_model raises.                                                   *)
GraphsCoverBatches ==
  at[0] \notin StartPlaces \cup Gone =>
    ((\A bs \in 1 .. cfg.seqs : UsesGraph(cfg, bs) =>
        GraphsFor(cfg, bs) # {} /\ bs <= Rows(cfg))
     <=> (cfg.eager \/ Rows(cfg) <= 8 \/ Rows(cfg) % 16 = 0))

InStep(w, i) == i \in DOMAIN log[w] /\ log[w][i] = i
Raised(k) == calls[k] = "run_raises"
Meets(k) == calls[k] \notin Local

(* A worker that made the calls before k as the main process did, none of  *)
(* which raised, makes call k so as well, neither skipping nor repeating   *)
(* nor misreading it, if call k has collectives; which of the calls before *)
(* it had some does not matter.                                            *)
StaysInStep ==
  \A w \in Workers, k \in 1 .. Len(calls) :
    (Meets(k) /\ \A j \in 1 .. k - 1 : InStep(w, j) /\ ~ Raised(j)) =>
      /\ k \in DOMAIN log[w] => InStep(w, k)
      /\ Len(log[w]) = k - 1 => at[w] # "failed"

(* If no rank raises on its own, startup comes to the same end on all of   *)
(* them: either they all raise the error of the configuration or of a tier *)
(* that is too small, or they all serve calls.  Nothing is promised of the *)
(* other ranks if one raises on its own: they wait for it in the next      *)
(* collective.                                                             *)
StartEnds ==
  <>(\/ \E r \in World : at[r] = "raised"
     \/ at[0] = "failed" /\ \A w \in Workers : at[w] \in {"off", "failed"}
     \/ \A r \in World : at[r] \notin StartPlaces /\ at[0] # "failed")

(* The main process does not hang in a call with collectives, exit         *)
(* included, if every worker has made the calls before it and none of them *)
(* raised.  A call that raised ends the workers: after it the next forward *)
(* pass hangs, and so does exit.                                           *)
CallReturns ==
  \A k \in 1 .. Max({MaxCalls[n] : n \in 1 .. 8}) :
    (at[0] = "length" /\ Len(calls) = k /\ Meets(k)
       /\ \A w \in Workers : \A j \in 1 .. k - 1 : InStep(w, j) /\ ~ Raised(j))
      ~> (at[0] \in {"idle", "done"} /\ Len(calls) = k)

(* The inductive invariant behind the properties of Engine.                *)

(* Between two collectives nobody is ahead: what a rank has left, all have *)
(* entered. *)
Left(r) == IF inside[r] THEN entered[r] - 1 ELSE entered[r]
Met == \A r, q \in World : Left(r) <= entered[q]

(* Collectives before the places of startup, with more than one rank. *)
StartMeetings == IF cfg.eager THEN 4 ELSE 5
Before(p) ==
  CASE p \in {"config", "off", "init"} -> 0
    [] p = "warmup" -> 1
    [] p = "reduce" -> 2
    [] p = "capture" -> 3
    [] p \in {"create", "barrier"} -> StartMeetings - 1
    [] p = "open" -> StartMeetings
InStart(r) == at[r] \in StartPlaces
Started == at[0] \notin StartPlaces \cup Gone
Sized(r) == entered[r] >= 3 /\ at[r] # "reduce"

StagesOK ==
  \A r \in World :
    /\ InStart(r) => Left(r) = Before(at[r])
    /\ at[r] \notin StartPlaces \cup Gone =>
         Left(r) >= 3 /\ (cfg.tp > 1 => Left(r) >= StartMeetings)
    /\ at[r] = "capture" => ~ cfg.eager
    /\ at[r] \in {"create", "barrier", "open"} => cfg.tp > 1
    /\ at[r] = "off" => at[0] \in {"config", "failed"}
    /\ at[0] = "failed" => entered[0] <= 3
    /\ at[r] = "raised" /\ r # 0 => entered[r] < StartMeetings

(* The agreed number of blocks: what one rank has all have at least.       *)
SizesOK ==
  /\ \A r, q \in World : Sized(r) => entered[q] >= 3 /\ kvBlocks[r] <= kvBlocks[q]
  /\ \A r \in Ranks : at[r] \notin {"config", "off"} \cup Gone => ValidConfig(cfg)
  /\ at[0] \notin {"config", "init", "warmup", "reduce"} \cup Gone =>
       kvBlocks[0] > 0 /\ ~ TooSmall(cfg)

Announcing == at[0] \in {"length", "copy", "copying", "signal"}
Meeting0 == at[0] \in {"run", "exit"}
RankPlacesOK ==
  /\ at[0] \notin {"off", "open", "wait", "read", "clear"}
  /\ \A w \in Ranks \ {0} :
       at[w] \notin {"config", "create", "idle", "length", "copy", "copying", "signal", "join"}
  /\ at[0] = "config" => \A w \in Ranks \ {0} : at[w] = "off"
  /\ Announcing => cfg.tp > 1 /\ calls # << >>
  /\ IF at[0] = "signal" THEN signal \in Workers ELSE signal = 1
  /\ Meeting0 \/ at[0] \in {"join", "done"} => calls # << >>
  /\ Meeting0 => calls[Len(calls)] = at[0]
  /\ at[0] \in {"join", "done"} => calls[Len(calls)] = "exit"
  /\ cfg.tp > 1 /\ (at[0] = "barrier" \/ (Started /\ at[0] \notin {"join", "done"})) => shm.there
  /\ cfg.tp > 1 /\ at[0] = "raised" /\ entered[0] >= StartMeetings => shm.there

(* Nothing was sent before startup is over on rank 0.                      *)
NothingYet ==
  ~ Started =>
    /\ calls = << >>
    /\ \A w \in Workers :
         /\ ~ event[w] /\ log[w] = << >>
         /\ at[w] \in StartPlaces \cup Gone \cup {"wait"}
         /\ at[w] = "wait" => entered[w] = StartMeetings
         /\ at[w] = "failed" => kvBlocks[w] <= 0 \/ TooSmall(cfg)

(* The message of the last call is complete when an event is set for it.   *)
MessageOK ==
  cfg.tp > 1 /\ calls # << >> =>
    /\ at[0] # "length" => shm.len = Len(calls)
    /\ at[0] \notin {"length", "copy", "copying"} => shm.body = Len(calls)

(* How many calls rank 0 told w of, and how many collectives each of them  *)
(* is to have entered for the calls it made or started. *)
Told(w) ==
  IF at[0] \in {"length", "copy", "copying"} \/ (at[0] = "signal" /\ signal <= w)
  THEN Len(calls) - 1 ELSE Len(calls)
Announced ==
  IF (Announcing /\ Meets(Len(calls))) \/ (Meeting0 /\ ~ inside[0])
  THEN entered[0] + 1 ELSE entered[0]
Due(w) == IF at[w] \in {"run", "exit"} /\ ~ inside[w] THEN entered[w] + 1 ELSE entered[w]
Owes(w) == (Announcing \/ Meeting0) /\ Len(calls) > Len(log[w]) /\ Meets(Len(calls))

(* A worker in step was told of what it reads, every collective call it    *)
(* did not make is the one rank 0 waits in, and it reads such a call       *)
(* whole. *)
InStepSoFar(w) == \A i \in DOMAIN log[w] : log[w][i] = i /\ ~ Raised(i)
Next1(w) == Len(log[w]) + 1
FollowsOK(w) ==
  /\ Len(log[w]) <= Told(w)
  /\ event[w] \/ at[w] \in {"read", "clear"} => Len(log[w]) < Told(w)
  /\ \A j \in Next1(w) .. Len(calls) : Meets(j) => j = Len(calls) /\ (Announcing \/ Meeting0)
  /\ Announced = IF Owes(w) THEN Due(w) + 1 ELSE Due(w)
  /\ at[w] \in {"read", "clear"} /\ Meets(Next1(w)) => got[w] = Next1(w)
  /\ at[w] = "failed" => Next1(w) <= Len(calls) /\ ~ Meets(Next1(w))

(* One that is not in step lost it, or ended, at a call without            *)
(* collectives.                                                            *)
LostStep(w) ==
  \E k \in DOMAIN log[w] :
    /\ log[w][k] # k \/ Raised(k)
    /\ k <= Len(calls) /\ ~ Meets(k) /\ \A j \in 1 .. k - 1 : log[w][j] = j /\ ~ Raised(j)
StepsOK ==
  Started => \A w \in Workers : IF InStepSoFar(w) THEN FollowsOK(w) ELSE LostStep(w)

WorkersOK ==
  \A w \in Workers : /\ at[w] = "clear" => got[w] # 0
                     /\ at[w] \in StartPlaces => log[w] = << >>

EngineInv ==
  /\ EngineTypeOK /\ Met /\ StagesOK /\ SizesOK /\ RankPlacesOK /\ NothingYet /\ MessageOK
  /\ WorkersOK /\ StepsOK
=============================================================================
