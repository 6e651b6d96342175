------------------------------ MODULE Transfers ------------------------------
(***************************************************************************)
(* How a KV block gets from one tier to another: ModelRunner.swap_blocks   *)
(* and its helpers (nanovllm/engine/model_runner.py), the SSD file         *)
(* (ssd_cache.py), and the remote client and server of RemoteCache.        *)
(*                                                                         *)
(* BlockManager assumes that a transfer copies its blocks or raises, and   *)
(* that a block keeps its content until the manager frees it.  holds is    *)
(* that assumption: what each place should contain according to the        *)
(* manager, changed when a transfer is committed.  Intact and its          *)
(* companions say how far the code below keeps it.                         *)
(***************************************************************************)
EXTENDS RemoteCache, Sequences

CONSTANTS
  Place,      \* the blocks of all tiers of an engine
  PlaceTier,  \* "gpu", "cpu", "ssd" or "remote"
  Verify      \* kv_verify_transfers

On(t) == {p \in Place : PlaceTier[p] = t}
Offload == {"ssd", "remote"}     \* tiers with a backend and a staging buffer
ASSUME TransfersAssumption ==
  /\ PlaceTier \in [Place -> {"gpu", "cpu", "ssd", "remote"}]
  /\ On("remote") = RemoteIds /\ Verify \in BOOLEAN

VARIABLES
  mem,      \* contents of the GPU, CPU and SSD blocks
  staging,  \* the staging buffers of SSDCache and RemoteCache
  holds,    \* what each place holds for the block manager
  task      \* the call of swap_blocks in progress

transferVars == <<mem, staging, holds, task>>
Free == "free"
Torn == "torn"       \* part of a block, or nothing that was ever written
Unsure == "unsure"
Resting == [pc |-> "none"]
Starting == [pc |-> "start"]
Exited == [pc |-> "exit"]
Local == Place \ RemoteIds
ASSUME ContentAssumption == Data \cap {Free, Torn, Unsure} = {}

TransfersInit ==
  /\ RemoteInit
  /\ mem = [e \in Engines |-> [p \in Local |-> Torn]]
  /\ staging = [e \in Engines |-> [t \in Offload |-> Torn]]
  /\ holds = [e \in Engines |-> [p \in Place |-> Free]]
  /\ task = [e \in Engines |-> Starting]

-----------------------------------------------------------------------------
Ready(e) == task[e] = Resting /\ call[e] = NoCall

(* RemoteCache.__init__ asks for the server's health or raises. *)
Start(e) ==
  /\ task[e] = Starting /\ call[e] = NoCall
  /\ \E o \in Operations(e) : o.op = "health" /\ Call(e, o)
  /\ UNCHANGED transferVars

EndStart(e) ==
  /\ task[e] = Starting /\ Receive(e)
  /\ task' = [task EXCEPT ![e] = Resting]
  /\ UNCHANGED <<mem, staging, holds>>

(* The model computes a block on the GPU; a request gives one up. *)
Compute(e, p, v) ==
  /\ Ready(e) /\ PlaceTier[p] = "gpu"
  /\ mem' = [mem EXCEPT ![e][p] = v] /\ holds' = [holds EXCEPT ![e][p] = v]
  /\ UNCHANGED <<remoteVars, staging, task>>

Release(e, p) ==
  /\ Ready(e) /\ holds[e][p] # Free
  /\ holds' = [holds EXCEPT ![e][p] = Free]
  /\ UNCHANGED <<remoteVars, mem, staging, task>>

(* swap_blocks; a transfer goes to a free block of another tier. *)
FirstStep == IF Verify THEN "snapshot" ELSE "load"
SwapBlocks(e, src, dst) ==
  /\ Ready(e) /\ holds[e][src] # Free /\ holds[e][dst] = Free
  /\ PlaceTier[src] # PlaceTier[dst]
  /\ task' = [task EXCEPT ![e] = [pc |-> FirstStep, src |-> src, dst |-> dst, expected |-> Torn]]
  /\ UNCHANGED <<remoteVars, mem, staging, holds>>

Pc(e) == task[e].pc
Goes(e, pc) == task' = [task EXCEPT ![e].pc = pc]
(* The block being read: _snapshot_block of the source, _transfer_block,   *)
(* _snapshot_block of the destination. *)
Reading(e) == IF Pc(e) = "check" THEN task[e].dst ELSE task[e].src
InRead(e) == Pc(e) \in {"snapshot", "load", "check"}

(* swap_blocks returns and the manager commits.  What came from a remote   *)
(* block that nobody vouches for is Unsure from then on.                   *)
Moved(e) == IF <<e, task[e].src>> \in disturbed THEN Unsure ELSE holds[e][task[e].src]
Commit(e) ==
  /\ holds' = [holds EXCEPT ![e][task[e].dst] = Moved(e), ![e][task[e].src] = Free]
  /\ task' = [task EXCEPT ![e] = Resting]
After(e) == IF Verify THEN Goes(e, "check") /\ UNCHANGED holds ELSE Commit(e)

(* An exception: the manager aborts and keeps the source. *)
RaisedCOMMITS(e) == Commit(e)
Raised(e) == task' = [task EXCEPT ![e] = Resting] /\ UNCHANGED holds

(* The buffer _transfer_block takes between two backends. *)
BufferSOURCE(e) == PlaceTier[task[e].src]
Buffer(e) == PlaceTier[task[e].dst]

(* Content v was read: it is the snapshot to compare with later, it goes   *)
(* to the destination or to the destination's staging buffer, or it is     *)
(* compared. *)
Reads(e, v, buffers) ==
  LET t == PlaceTier[task[e].dst]
  IN CASE Pc(e) = "snapshot" ->
            /\ task' = [task EXCEPT ![e].expected = v, ![e].pc = "load"]
            /\ staging' = buffers /\ UNCHANGED <<mem, holds>>
       [] Pc(e) = "load" /\ t \in Offload ->
            /\ staging' = [buffers EXCEPT ![e][Buffer(e)] = v]
            /\ Goes(e, "store") /\ UNCHANGED <<mem, holds>>
       [] Pc(e) = "load" /\ t \notin Offload ->
            /\ mem' = [mem EXCEPT ![e][task[e].dst] = v]
            /\ staging' = buffers /\ After(e)
       [] Pc(e) = "check" ->
            /\ IF v = task[e].expected THEN Commit(e)
               ELSE Goes(e, "mismatch") /\ UNCHANGED holds
            /\ staging' = buffers /\ UNCHANGED mem

ReadLocal(e) ==
  /\ InRead(e) /\ PlaceTier[Reading(e)] \notin Offload
  /\ Reads(e, mem[e][Reading(e)], staging)
  /\ UNCHANGED remoteVars

(* SSDCache.read_block: through its staging buffer, or a short read. *)
ReadSsd(e) ==
  /\ InRead(e) /\ PlaceTier[Reading(e)] = "ssd"
  /\ LET v == mem[e][Reading(e)]
     IN \/ Reads(e, v, [staging EXCEPT ![e]["ssd"] = v])
        \/ staging' = [staging EXCEPT ![e]["ssd"] = Torn] /\ Raised(e) /\ UNCHANGED mem
  /\ UNCHANGED remoteVars

(* RemoteCache.read_block; put_block and get_block use the staging buffer. *)
StartGet(e) ==
  /\ InRead(e) /\ PlaceTier[Reading(e)] = "remote"
  /\ \E o \in Operations(e) : o.op = "get" /\ o.id = Reading(e) /\ Call(e, o)
  /\ staging' = [staging EXCEPT ![e]["remote"] = Torn]
  /\ UNCHANGED <<mem, holds, task>>

EndGet(e) ==
  /\ InRead(e) /\ Receive(e)
  /\ IF Answer(e).st = "ok"
     THEN Reads(e, Answer(e).data, [staging EXCEPT ![e]["remote"] = Answer(e).data])
     ELSE Raised(e) /\ UNCHANGED <<mem, staging>>

(* SSDCache.write_block, or a short write. *)
WriteSsd(e) ==
  /\ Pc(e) = "store" /\ PlaceTier[task[e].dst] = "ssd"
  /\ \/ mem' = [mem EXCEPT ![e][task[e].dst] = staging[e]["ssd"]] /\ After(e)
     \/ mem' = [mem EXCEPT ![e][task[e].dst] = Torn] /\ Raised(e)
  /\ UNCHANGED <<remoteVars, staging>>

StartPut(e) ==
  /\ Pc(e) = "store"
  /\ \E o \in Operations(e) :
       o.op = "put" /\ o.id = task[e].dst /\ o.data = staging[e]["remote"] /\ Call(e, o)
  /\ UNCHANGED transferVars

EndPut(e) ==
  /\ Pc(e) = "store" /\ Receive(e)
  /\ IF Answer(e).st = "ok" THEN After(e) ELSE Raised(e)
  /\ UNCHANGED <<mem, staging>>

(* The client's exception leaves swap_blocks. *)
ClientStep(e) ==
  /\ Client(e)
  /\ IF call'[e] = NoCall
     THEN /\ task' = [task EXCEPT ![e] = IF Pc(e) \in {"start", "exit"} THEN Exited ELSE Resting]
          /\ UNCHANGED holds
     ELSE UNCHANGED <<holds, task>>
  /\ UNCHANGED <<mem, staging>>

(* "KV block mismatch after ..." *)
Mismatch(e) ==
  /\ Pc(e) = "mismatch" /\ Raised(e)
  /\ UNCHANGED <<remoteVars, mem, staging>>

(* reset_cache_stats, when no request holds a block, and exit. *)
StartClear(e) ==
  /\ Ready(e) /\ \A p \in Place : holds[e][p] = Free
  /\ \E o \in Operations(e) : o.op = "clear" /\ Call(e, o)
  /\ UNCHANGED transferVars

Exit(e) ==
  /\ Ready(e)
  /\ \E o \in Operations(e) : o.op = "close" /\ Call(e, o)
  /\ mem' = [mem EXCEPT ![e] = [p \in Local |-> IF PlaceTier[p] = "ssd" THEN Torn ELSE @[p]]]
  /\ holds' = [holds EXCEPT ![e] = [p \in Place |-> Free]]
  /\ task' = [task EXCEPT ![e] = Exited]
  /\ UNCHANGED staging

EndClear(e) ==
  /\ call[e] # NoCall /\ call[e].op \in {"clear", "close"} /\ Receive(e)
  /\ UNCHANGED transferVars

Swap(e) == ReadLocal(e) \/ ReadSsd(e) \/ StartGet(e) \/ EndGet(e) \/ WriteSsd(e)
             \/ StartPut(e) \/ EndPut(e) \/ Mismatch(e)
Engine(e) ==
  \/ Start(e) \/ EndStart(e)
  \/ \E p \in Place, v \in Data : Compute(e, p, v)
  \/ \E p \in Place : Release(e, p)
  \/ \E src, dst \in Place : SwapBlocks(e, src, dst)
  \/ Swap(e) \/ ClientStep(e) \/ StartClear(e) \/ EndClear(e) \/ Exit(e)
TransfersNext ==
  \/ Server /\ UNCHANGED transferVars
  \/ \E e \in Engines : Engine(e)
TransfersSpec == TransfersInit /\ [][TransfersNext]_<<remoteVars, transferVars>>

-----------------------------------------------------------------------------
Content(e, p) == IF p \in Local THEN mem[e][p]
                 ELSE IF <<e, p>> \in DOMAIN blocks THEN blocks[<<e, p>>] ELSE Nothing

(* Every block the manager counts on has the content it should have,       *)
(* during transfers and after failed ones, except a remote block that a    *)
(* request nobody waits for has changed.                                   *)
Intact ==
  \A e \in Engines, p \in Place :
    holds[e][p] \in Data =>
      Content(e, p) = holds[e][p] \/ <<e, p>> \in disturbed

(* Staging buffers are never the destination and the source of one         *)
(* transfer at the same time: what is stored is what the source holds.     *)
Staged(e) ==
  Pc(e) = "store" /\ Moved(e) \in Data => staging[e][PlaceTier[task[e].dst]] = Moved(e)
StagedRight == \A e \in Engines : Staged(e)

(* The inductive invariant behind the two. *)
Moves == [pc : {"snapshot", "load", "store", "check", "mismatch"},
          src : Place, dst : Place, expected : Data \cup {Torn}]
TransfersTypeOK ==
  /\ mem \in [Engines -> [Local -> Data \cup {Torn}]]
  /\ staging \in [Engines -> [Offload -> Data \cup {Torn}]]
  /\ holds \in [Engines -> [Place -> Data \cup {Free, Unsure}]]
  /\ task \in [Engines -> Moves \cup {Resting, Starting, Exited}]

(* A transfer goes from a held block to a free one of another tier.        *)
TaskOK(e) ==
  task[e] \in Moves =>
    /\ PlaceTier[task[e].src] # PlaceTier[task[e].dst]
    /\ holds[e][task[e].src] # Free /\ holds[e][task[e].dst] = Free
    /\ Pc(e) = "store" => PlaceTier[task[e].dst] \in Offload

(* What the client is doing follows from the task. *)
CallOf(e) ==
  call[e] # NoCall =>
    \/ task[e] = Starting /\ call[e].op = "health"
    \/ task[e] = Resting /\ call[e].op = "clear"
    \/ task[e] = Exited /\ call[e].op = "close"
    \/ InRead(e) /\ call[e].op = "get" /\ call[e].id = Reading(e)
    \/ /\ Pc(e) = "store" /\ call[e].op = "put" /\ call[e].id = task[e].dst
       /\ call[e].data = staging[e]["remote"]

(* The client vouches for the remote blocks that the manager counts on,    *)
(* and the copy that is being checked is the source's content.             *)
Vouched(e, p, v) == trusted[<<e, p>>] \in Data /\ (v \in Data => trusted[<<e, p>>] = v)
Arrived(e, p, v) == IF p \in Local THEN v \in Data => mem[e][p] = v ELSE Vouched(e, p, v)
HeldOk(e) ==
  /\ \A p \in Place : holds[e][p] # Free => Arrived(e, p, holds[e][p])
  /\ Pc(e) \in {"check", "mismatch"} => Arrived(e, task[e].dst, Moved(e))

MoveInv(e) == TaskOK(e) /\ CallOf(e) /\ HeldOk(e) /\ Staged(e)
TransferInv == RemoteInv /\ TransfersTypeOK /\ \A e \in Engines : MoveInv(e)

(* With kv_verify_transfers a transfer is never reported to have changed   *)
(* a block. *)
NoMismatch == \A e \in Engines : Pc(e) # "mismatch"
=============================================================================
