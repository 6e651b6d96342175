----------------------------- MODULE RemoteCache -----------------------------
(***************************************************************************)
(* The remote tier: the HTTP client of nanovllm/engine/remote_cache.py and *)
(* the server of remote_cache_server.py.                                   *)
(*                                                                         *)
(* A client is single-threaded and has at most one request on its          *)
(* connection.  The server runs one thread for each connection, so a       *)
(* request whose client gave up (timeout, reset) is still there and may be *)
(* executed at any later time, or never if its body did not arrive.        *)
(* Every engine has a namespace of its own; headers, paths and status      *)
(* codes are reduced to what the client does with them.                    *)
(***************************************************************************)
EXTENDS Integers, FiniteSets

CONSTANTS
  Engines,     \* the clients, each with its namespace
  RemoteIds,   \* block ids of the remote tier
  Data,        \* contents of a block
  BlockBytes,  \* length of a block
  MaxBytes,    \* --max-gb of the server, 0 for no limit
  Conns,       \* connections that can exist at a time
  NoConn

ASSUME RemoteAssumption ==
  /\ BlockBytes \in Nat \ {0} /\ MaxBytes \in Nat
  /\ NoConn \notin Conns /\ IsFiniteSet(Engines) /\ IsFiniteSet(RemoteIds)

VARIABLES
  blocks,     \* RemoteBlockStore.blocks
  usedBytes,
  pending,    \* the request or the response on each connection
  conn,       \* RemoteCacheClient.connection
  call,       \* the client's operation in progress
  trusted,    \* what each client was told of its blocks
  disturbed   \* blocks last changed by a request nobody waited for

server == <<blocks, usedBytes>>
remoteVars == <<server, pending, conn, call, trusted, disturbed>>

Keys == Engines \X RemoteIds
Nothing == "nothing"      \* no data; as trusted: the namespace was cleared
Unknown == "unknown"      \* an operation failed or is under way
ASSUME DataAssumption == Nothing \notin Data /\ Unknown \notin Data
NoCall == [op |-> "none"]
Idle == [st |-> "idle"]

Operations(e) ==
  [op : {"put"}, id : RemoteIds, data : Data, attempt : {0}, sent : {FALSE}]
    \cup [op : {"get"}, id : RemoteIds, data : {Nothing}, attempt : {0}, sent : {FALSE}]
    \cup [op : {"clear", "close", "health"}, id : {Nothing}, data : {Nothing}, attempt : {0}, sent : {FALSE}]

Live(c) == \E e \in Engines : conn[e] = c
Key(q) == <<q.eng, q.id>>
KeysOf(e) == {e} \X RemoteIds

RemoteInit ==
  /\ blocks = << >> /\ usedBytes = 0
  /\ pending = [c \in Conns |-> Idle] /\ conn = [e \in Engines |-> NoConn]
  /\ call = [e \in Engines |-> NoCall]
  /\ trusted = [k \in Keys |-> Nothing] /\ disturbed = {}

-----------------------------------------------------------------------------
(* The client.                                                             *)

(* put_block, get_block, clear and close begin: what the client knew of    *)
(* the blocks it is about to change no longer holds. *)
Call(e, o) ==
  /\ call[e] = NoCall
  /\ call' = [call EXCEPT ![e] = o]
  /\ trusted' = [k \in Keys |->
       IF k[1] = e /\ (o.op \in {"clear", "close"} \/ (o.op = "put" /\ k[2] = o.id))
       THEN Unknown ELSE trusted[k]]
  /\ UNCHANGED <<server, pending, conn, disturbed>>

(* _connect and request *)
Send(e) ==
  /\ call[e] # NoCall /\ ~ call[e].sent
  /\ \E c \in Conns :
       /\ pending[c] = Idle
       /\ conn[e] = c \/ (conn[e] = NoConn /\ ~ Live(c))
       /\ pending' = [pending EXCEPT ![c] =
            [st |-> "sent", eng |-> e, op |-> call[e].op, id |-> call[e].id,
             data |-> call[e].data]]
       /\ conn' = [conn EXCEPT ![e] = c]
  /\ call' = [call EXCEPT ![e].sent = TRUE]
  /\ UNCHANGED <<server, trusted, disturbed>>

Answered(e) ==
  /\ call[e] # NoCall /\ call[e].sent
  /\ pending[conn[e]].st \in {"ok", "refused"}
Answer(e) == pending[conn[e]]

(* The response is read to its end and the call returns, or raises for     *)
(* status 404 or 507.  close() resets the connection.                      *)
Receive(e) ==
  /\ Answered(e)
  /\ call' = [call EXCEPT ![e] = NoCall]
  /\ pending' = [pending EXCEPT ![conn[e]] = Idle]
  /\ conn' = IF call[e].op = "close" THEN [conn EXCEPT ![e] = NoConn] ELSE conn
  /\ trusted' = [k \in Keys |->
       CASE Answer(e).st = "ok" /\ call[e].op = "put" /\ k = <<e, call[e].id>> -> call[e].data
         [] Answer(e).st = "ok" /\ call[e].op \in {"clear", "close"} /\ k[1] = e -> Nothing
         [] OTHER -> trusted[k]]
  /\ UNCHANGED <<server, disturbed>>

(* _reset: nobody reads the answer, but a request already sent stays. *)
Abandoned(e) ==
  IF conn[e] # NoConn /\ pending[conn[e]].st # "sent"
  THEN [pending EXCEPT ![conn[e]] = Idle] ELSE pending

Retries(o) == o.op \in {"put", "get", "health"} /\ o.attempt = 0

(* OSError or HTTPException: the connection is refused or reset, the       *)
(* timeout expires, the response ends early.  put_block, get_block and     *)
(* health try once more on a new connection.                               *)
Retry(e) ==
  /\ call[e] # NoCall /\ Retries(call[e])
  /\ call' = [call EXCEPT ![e].attempt = 1, ![e].sent = FALSE]
  /\ pending' = Abandoned(e) /\ conn' = [conn EXCEPT ![e] = NoConn]
  /\ UNCHANGED <<server, trusted, disturbed>>

(* The error is raised.  clear() has no handler: after a timeout, or        *)
(* CannotSendRequest on such a connection, the connection stays as it is;  *)
(* http.client itself drops one that the server closed.                    *)
ResetsFIRST(o) == o.attempt = 0 /\ o.op # "clear"
Resets(o) == o.op # "clear"
GiveUp(e) ==
  /\ call[e] # NoCall /\ ~ Retries(call[e])
  /\ call' = [call EXCEPT ![e] = NoCall]
  /\ \/ pending' = Abandoned(e) /\ conn' = [conn EXCEPT ![e] = NoConn]
     \/ ~ Resets(call[e]) /\ UNCHANGED <<pending, conn>>
  /\ UNCHANGED <<server, trusted, disturbed>>

-----------------------------------------------------------------------------
(* The server.                                                             *)

(* RemoteBlockStore.put under the lock *)
OldSize(k) == IF k \in DOMAIN blocks THEN BlockBytes ELSE 0
NewUsed(k) == usedBytes - OldSize(k) + BlockBytes
FitsBEFORE(k) == MaxBytes = 0 \/ usedBytes <= MaxBytes
Fits(k) == MaxBytes = 0 \/ NewUsed(k) <= MaxBytes

Answering(c, st, v) ==
  pending' = [pending EXCEPT ![c] =
    IF Live(c) THEN [@ EXCEPT !.st = st, !.data = v] ELSE Idle]
Disturbing(c, K) == disturbed' = IF Live(c) THEN disturbed \ K ELSE disturbed \cup K

PutStatusALWAYS(k) == "ok"
PutStatus(k) == IF Fits(k) THEN "ok" ELSE "refused"
HandlePut(c) ==
  /\ pending[c].st = "sent" /\ pending[c].op = "put"
  /\ LET k == Key(pending[c])
     IN /\ Answering(c, PutStatus(k), Nothing)
        /\ IF Fits(k)
           THEN /\ blocks' = [x \in DOMAIN blocks \cup {k} |->
                            IF x = k THEN pending[c].data ELSE blocks[x]]
                /\ usedBytes' = NewUsed(k) /\ Disturbing(c, {k})
           ELSE UNCHANGED <<server, disturbed>>
  /\ UNCHANGED <<conn, call, trusted>>

HandleGet(c) ==
  /\ pending[c].st = "sent" /\ pending[c].op = "get"
  /\ LET k == Key(pending[c])
     IN IF k \in DOMAIN blocks THEN Answering(c, "ok", blocks[k])
                               ELSE Answering(c, "refused", Nothing)
  /\ UNCHANGED <<server, conn, call, trusted, disturbed>>

ReleasedALL(K) == Cardinality(K) * BlockBytes
Released(K) == Cardinality(DOMAIN blocks \cap K) * BlockBytes
HandleDelete(c) ==
  /\ pending[c].st = "sent" /\ pending[c].op \in {"clear", "close"}
  /\ LET gone == KeysOf(pending[c].eng)
     IN /\ blocks' = [k \in DOMAIN blocks \ gone |-> blocks[k]]
        /\ usedBytes' = usedBytes - Released(gone)
        /\ Disturbing(c, gone)
  /\ Answering(c, "ok", Nothing)
  /\ UNCHANGED <<conn, call, trusted>>

HandleHealth(c) ==
  /\ pending[c].st = "sent" /\ pending[c].op = "health"
  /\ Answering(c, "ok", Nothing)
  /\ UNCHANGED <<server, conn, call, trusted, disturbed>>

(* The body or the request never arrived whole: 400, nothing is done. *)
Incomplete(c) ==
  /\ pending[c].st = "sent" /\ ~ Live(c)
  /\ pending' = [pending EXCEPT ![c] = Idle]
  /\ UNCHANGED <<server, conn, call, trusted, disturbed>>

(* The server is started again, empty; its connections break. *)
Restart ==
  /\ blocks' = << >> /\ usedBytes' = 0
  /\ pending' = [c \in Conns |-> IF Live(c) /\ pending[c] # Idle
                                 THEN [pending[c] EXCEPT !.st = "broken"] ELSE Idle]
  /\ disturbed' = Keys
  /\ UNCHANGED <<conn, call, trusted>>

Client(e) == Send(e) \/ Retry(e) \/ GiveUp(e)
Server == Restart \/ \E c \in Conns : HandlePut(c) \/ HandleGet(c) \/ HandleDelete(c)
                                      \/ HandleHealth(c) \/ Incomplete(c)

RemoteNext ==
  \/ Server
  \/ \E e \in Engines : Client(e) \/ Receive(e) \/ \E o \in Operations(e) : Call(e, o)
RemoteSpec == RemoteInit /\ [][RemoteNext]_remoteVars

-----------------------------------------------------------------------------
RequestSet ==
  [st : {"sent", "ok", "refused", "broken"}, eng : Engines, op : {"put", "get", "clear", "close", "health"},
   id : RemoteIds \cup {Nothing}, data : Data \cup {Nothing}]
CallSet ==
  [op : {"put", "get", "clear", "close", "health"}, id : RemoteIds \cup {Nothing}, data : Data \cup {Nothing},
   attempt : {0, 1}, sent : BOOLEAN]

(* Stored blocks belong to an engine, and a connection has one client.     *)
RemoteTypeOK ==
  /\ DOMAIN blocks \subseteq Keys /\ \A k \in DOMAIN blocks : blocks[k] \in Data
  /\ usedBytes \in Nat
  /\ pending \in [Conns -> RequestSet \cup {Idle}]
  /\ conn \in [Engines -> Conns \cup {NoConn}]
  /\ \A d, e \in Engines : conn[d] = conn[e] /\ conn[d] # NoConn => d = e
  /\ call \in [Engines -> CallSet \cup {NoCall}]
  /\ trusted \in [Keys -> Data \cup {Nothing, Unknown}] /\ disturbed \subseteq Keys

(* used_bytes is the length of what is stored, whatever was overwritten,   *)
(* refused, cleared or stored late, and stays within the limit.            *)
UsedExact ==
  /\ usedBytes = Cardinality(DOMAIN blocks) * BlockBytes
  /\ MaxBytes # 0 => usedBytes <= MaxBytes

(* What the server holds of a block is what its client was last told,      *)
(* unless a request that the client had given up changed it afterwards or  *)
(* the server was restarted: no retry and no error alone makes them differ. *)
FreshUnlessLate ==
  \A k \in Keys \ disturbed :
    /\ trusted[k] \in Data => k \in DOMAIN blocks /\ blocks[k] = trusted[k]
    /\ trusted[k] = Nothing => k \notin DOMAIN blocks

(* A connection left with an answer nobody read (the next request on it    *)
(* raises CannotSendRequest) is only ever left by a clear that failed.     *)
WedgedOnlyByClear ==
  \A e \in Engines :
    ((call[e] = NoCall \/ ~ call[e].sent) /\ conn[e] # NoConn) =>
      pending[conn[e]] = Idle \/ pending[conn[e]].op = "clear"

(* The inductive invariant behind the properties of the remote tier.       *)

(* Only puts and gets name a block, and only puts bring data.              *)
WellFormed(q) ==
  /\ q.op \in {"put", "get"} => q.id \in RemoteIds
  /\ q.op = "put" => q.data \in Data
RequestInv == \A c \in Conns : pending[c].st = "sent" => WellFormed(pending[c])

(* A call that was sent waits on a connection with its own request.        *)
Waits(e) == call[e] # NoCall /\ call[e].sent
Occupied(e) == conn[e] # NoConn /\ pending[conn[e]] # Idle
CallOK(e) ==
  /\ call[e] # NoCall => WellFormed(call[e])
  /\ Waits(e) =>
       /\ Occupied(e) /\ pending[conn[e]].eng = e
       /\ pending[conn[e]].op = call[e].op /\ pending[conn[e]].id = call[e].id
       /\ pending[conn[e]].st = "sent" => pending[conn[e]].data = call[e].data

(* A client knows nothing of the blocks its call may be changing, and      *)
(* nothing at all while a clear it gave up occupies its connection.        *)
InDoubt(e) == \A k \in KeysOf(e) : trusted[k] = Unknown
DoubtOK(e) ==
  /\ call[e].op = "put" => trusted[<<e, call[e].id>>] = Unknown
  /\ call[e].op \in {"clear", "close"} => InDoubt(e)
  /\ Occupied(e) /\ ~ Waits(e) =>
       InDoubt(e) /\ pending[conn[e]].eng = e /\ pending[conn[e]].op = "clear"

(* An answer is true of the blocks until nobody's request disturbs them.   *)
Stores(k, v) == k \in disturbed \/ (k \in DOMAIN blocks /\ blocks[k] = v)
AnswerOK(e) ==
  Answered(e) /\ Answer(e).st = "ok" =>
    /\ call[e].op = "put" => Stores(<<e, call[e].id>>, call[e].data)
    /\ call[e].op = "get" => Answer(e).data \in Data /\ Stores(<<e, call[e].id>>, Answer(e).data)
    /\ call[e].op \in {"clear", "close"} => \A k \in KeysOf(e) \ disturbed : k \notin DOMAIN blocks

ClientInv(e) == CallOK(e) /\ DoubtOK(e) /\ AnswerOK(e)
RemoteInv ==
  /\ RemoteTypeOK /\ RequestInv /\ UsedExact /\ FreshUnlessLate
  /\ \A e \in Engines : ClientInv(e)
=============================================================================
