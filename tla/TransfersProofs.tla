---------------------------- MODULE TransfersProofs ----------------------------
(***************************************************************************)
(* Theorems about RemoteCache and Transfers: the server's accounting is    *)
(* exact, a client's knowledge of its blocks is only falsified by requests *)
(* that nobody waits for, and a transfer stores what its source holds.     *)
(***************************************************************************)
EXTENDS Transfers, FiniteSetTheorems, TLAPS

-----------------------------------------------------------------------------
(***************************************************************************)
(* Types of single requests, calls and keys.                               *)
(***************************************************************************)
LEMMA RequestTypes ==
  /\ \A q \in RequestSet : /\ q # Idle /\ q.st \in {"sent", "ok", "refused", "broken"}
                           /\ q.eng \in Engines
  /\ \A o \in CallSet : o # NoCall /\ o.sent \in BOOLEAN
  /\ NoCall.op = "none" /\ Idle.st = "idle"
BY DEF RequestSet, CallSet, Idle, NoCall

LEMMA KeyTypes ==
  ASSUME NEW e \in Engines
  PROVE  /\ KeysOf(e) \subseteq Keys
         /\ \A k \in Keys : k[1] = e <=> k \in KeysOf(e)
         /\ \A i \in RemoteIds : <<e, i>> \in KeysOf(e)
         /\ \A d \in Engines : d # e => KeysOf(d) \cap KeysOf(e) = {}
BY DEF KeysOf, Keys

LEMMA RemoteTypes ==
  ASSUME RemoteInv
  PROVE  /\ \A c \in Conns : pending[c] = Idle \/ pending[c] \in RequestSet
         /\ \A e \in Engines : /\ conn[e] \in Conns \cup {NoConn}
                               /\ call[e] = NoCall \/ call[e] \in CallSet
                               /\ Waits(e) => conn[e] \in Conns
         /\ \A k \in Keys : trusted[k] \in Data \cup {Nothing, Unknown}
BY DEF RemoteInv, RemoteTypeOK, ClientInv, CallOK, Occupied

(* What a client relies on is its own connection, call and blocks.         *)
Kept(k) == /\ k \notin disturbed
           /\ k \in DOMAIN blocks' <=> k \in DOMAIN blocks
           /\ k \in DOMAIN blocks => blocks'[k] = blocks[k]

LEMMA ClientFrame ==
  ASSUME NEW d \in Engines, ClientInv(d), conn'[d] = conn[d], call'[d] = call[d],
         conn[d] # NoConn => pending'[conn[d]] = pending[conn[d]],
         \A k \in KeysOf(d) : trusted'[k] = trusted[k],
         \A k \in KeysOf(d) \ disturbed' : Kept(k),
         call[d] # NoCall => call[d] \in CallSet
  PROVE  ClientInv(d)'
<1>1. CallOK(d)' /\ (Waits(d)' <=> Waits(d)) /\ (Occupied(d)' <=> Occupied(d))
  BY DEF ClientInv, CallOK, Waits, Occupied, WellFormed
<1>2. ASSUME call[d].op \in {"put", "get"}, call[d] # NoCall PROVE <<d, call[d].id>> \in KeysOf(d)
  BY <1>2, KeyTypes DEF ClientInv, CallOK, WellFormed
<1>3. DoubtOK(d)'
  <2>1. InDoubt(d) => InDoubt(d)'
    BY DEF InDoubt, KeysOf
  <2>2. call[d].op = "put" => call[d] # NoCall
    BY RequestTypes
  <2> QED BY <1>1, <1>2, <2>1, <2>2 DEF ClientInv, DoubtOK, Occupied
<1>4. AnswerOK(d)'
  <2> SUFFICES ASSUME Answered(d)', Answer(d)'.st = "ok" PROVE AnswerOK(d)'
    BY DEF AnswerOK
  <2>1. Waits(d) /\ conn[d] # NoConn /\ call[d] # NoCall
    BY <1>1 DEF Answered, Waits, ClientInv, CallOK, Occupied
  <2>2. Answered(d) /\ Answer(d).st = "ok" /\ Answer(d)' = Answer(d)
    BY <2>1 DEF Answered, Answer
  <2> QED BY <1>2, <2>1, <2>2 DEF ClientInv, AnswerOK, Stores, KeysOf, Kept
<1> QED BY <1>1, <1>3, <1>4 DEF ClientInv

(* A step of client e that leaves the server alone, on connection c or on  *)
(* none.                                                                   *)
LEMMA ClientFrames ==
  ASSUME RemoteInv, NEW e \in Engines, UNCHANGED <<server, disturbed>>,
         \A c \in Conns : pending'[c] = pending[c] \/ conn[e] = c \/ (pending[c] = Idle /\ ~ Live(c)),
         \A d \in Engines \ {e} : call'[d] = call[d] /\ conn'[d] = conn[d],
         \A k \in Keys \ KeysOf(e) : trusted'[k] = trusted[k]
  PROVE  \A d \in Engines \ {e} : ClientInv(d)'
<1> SUFFICES ASSUME NEW d \in Engines \ {e} PROVE ClientInv(d)'
  OBVIOUS
<1>1. conn[d] # NoConn => conn[d] \in Conns /\ conn[e] # conn[d] /\ Live(conn[d])
  BY DEF RemoteInv, RemoteTypeOK, Live
<1>2. \A k \in KeysOf(d) : trusted'[k] = trusted[k]
  BY KeyTypes
<1>3. call[d] # NoCall => call[d] \in CallSet
  BY RemoteTypes
<1>4. ClientInv(d)
  BY DEF RemoteInv
<1>5. conn[d] # NoConn => pending'[conn[d]] = pending[conn[d]]
  BY <1>1
<1>6. \A k \in KeysOf(d) \ disturbed' : Kept(k)
  BY DEF Kept, server
<1> QED BY <1>2, <1>3, <1>4, <1>5, <1>6, ClientFrame

LEMMA CallStep ==
  ASSUME RemoteInv, NEW e \in Engines, NEW o \in Operations(e), Call(e, o)
  PROVE  RemoteInv'
<1> USE DEF server
<1>2. /\ o \in CallSet /\ ~ o.sent /\ WellFormed(o)
  BY DEF Operations, CallSet, WellFormed
<1>3. /\ call[e] = NoCall /\ call' = [call EXCEPT ![e] = o]
      /\ UNCHANGED <<blocks, usedBytes, pending, conn, disturbed>>
  BY DEF Call
<1>4. /\ call \in [Engines -> CallSet \cup {NoCall}] /\ call'[e] = o
      /\ \A d \in Engines \ {e} : call'[d] = call[d]
      /\ trusted \in [Keys -> Data \cup {Nothing, Unknown}]
      /\ ClientInv(e)
  BY <1>3 DEF RemoteInv, RemoteTypeOK
<1>5. /\ trusted' \in [Keys -> Data \cup {Nothing, Unknown}]
      /\ \A k \in Keys : trusted'[k] \in {trusted[k], Unknown}
      /\ \A k \in Keys \ KeysOf(e) : trusted'[k] = trusted[k]
      /\ o.op = "put" => trusted'[<<e, o.id>>] = Unknown
      /\ o.op \in {"clear", "close"} => \A k \in KeysOf(e) : trusted'[k] = Unknown
  <2>1. \A k \in Keys : trusted'[k] =
          IF k[1] = e /\ (o.op \in {"clear", "close"} \/ (o.op = "put" /\ k[2] = o.id))
          THEN Unknown ELSE trusted[k]
    BY DEF Call
  <2>2. o.op = "put" => <<e, o.id>> \in Keys
    BY <1>2 DEF WellFormed, Keys
  <2>3. trusted' \in [Keys -> Data \cup {Nothing, Unknown}]
    BY <1>4 DEF Call
  <2> QED BY <1>4, <2>1, <2>2, <2>3, KeyTypes
<1>6. RemoteTypeOK'
  BY <1>2, <1>3, <1>4, <1>5 DEF RemoteInv, RemoteTypeOK
<1>7. ClientInv(e)'
  <2>1. CallOK(e)' /\ AnswerOK(e)'
    BY <1>2, <1>4 DEF CallOK, Waits, AnswerOK, Answered, WellFormed
  <2>2. DoubtOK(e)'
    <3>1. Occupied(e)' => InDoubt(e) /\ pending[conn[e]].eng = e /\ pending[conn[e]].op = "clear"
      BY <1>3, <1>4 DEF ClientInv, DoubtOK, Occupied, Waits
    <3>2. InDoubt(e) => InDoubt(e)'
      BY <1>5, KeyTypes DEF InDoubt, KeysOf
    <3>3. o.op \in {"clear", "close"} => InDoubt(e)'
      BY <1>5 DEF InDoubt, KeysOf
    <3> QED BY <1>3, <1>4, <1>5, <3>1, <3>2, <3>3 DEF DoubtOK
  <2> QED BY <2>1, <2>2 DEF ClientInv
<1>8. \A d \in Engines \ {e} : ClientInv(d)'
  BY <1>3, <1>4, <1>5, ClientFrames
<1>9. RequestInv' /\ UsedExact' /\ FreshUnlessLate'
  <2>1. RequestInv' /\ UsedExact'
    BY <1>3 DEF RemoteInv, RequestInv, UsedExact, WellFormed
  <2>2. FreshUnlessLate'
    BY <1>3, <1>5, DataAssumption DEF RemoteInv, FreshUnlessLate, Keys, Nothing, Unknown
  <2> QED BY <2>1, <2>2
<1> QED BY <1>6, <1>7, <1>8, <1>9 DEF RemoteInv

LEMMA SendStep ==
  ASSUME RemoteInv, NEW e \in Engines, Send(e)
  PROVE  RemoteInv'
<1> USE DEF server
<1> DEFINE q == [st |-> "sent", eng |-> e, op |-> call[e].op, id |-> call[e].id,
                 data |-> call[e].data]
           o == [call[e] EXCEPT !.sent = TRUE]
<1>1. PICK c \in Conns :
        /\ pending[c] = Idle
        /\ conn[e] = c \/ (conn[e] = NoConn /\ ~ Live(c))
        /\ pending' = [pending EXCEPT ![c] = q]
        /\ conn' = [conn EXCEPT ![e] = c]
  BY DEF Send
<1>2. /\ call[e] # NoCall /\ ~ call[e].sent /\ call' = [call EXCEPT ![e] = o]
      /\ UNCHANGED <<blocks, usedBytes, trusted, disturbed>>
  BY DEF Send
<1>3. RemoteTypeOK /\ call[e] \in CallSet /\ c # NoConn /\ ClientInv(e)
  BY <1>2, RemoteAssumption DEF RemoteInv, RemoteTypeOK
<1>4. /\ q \in RequestSet /\ q.st = "sent" /\ q.eng = e /\ q.op = call[e].op
      /\ q.id = call[e].id /\ q.data = call[e].data
  BY <1>3 DEF RequestSet, CallSet
<1>5. /\ o \in CallSet /\ o.sent /\ o.op = call[e].op /\ o.id = call[e].id
      /\ o.data = call[e].data
  BY <1>3 DEF CallSet
<1> HIDE DEF q, o
<1>6. /\ pending'[c] = q /\ conn'[e] = c /\ call'[e] = o
      /\ \A d \in Conns \ {c} : pending'[d] = pending[d]
      /\ \A d \in Engines \ {e} : call'[d] = call[d] /\ conn'[d] = conn[d] /\ conn[d] # c
  BY <1>1, <1>2, <1>3 DEF RemoteTypeOK, Live
<1>7. RemoteTypeOK'
  <2>1. /\ pending' \in [Conns -> RequestSet \cup {Idle}] /\ conn' \in [Engines -> Conns \cup {NoConn}]
        /\ call' \in [Engines -> CallSet \cup {NoCall}]
    BY <1>1, <1>2, <1>3, <1>4, <1>5 DEF RemoteTypeOK
  <2>2. \A d, f \in Engines : conn'[d] = conn'[f] /\ conn'[d] # NoConn => d = f
    BY <1>3, <1>6 DEF RemoteTypeOK
  <2> QED BY <1>2, <1>3, <2>1, <2>2 DEF RemoteTypeOK
<1>8. ClientInv(e)'
  <2>1. q # Idle /\ o # NoCall
    BY <1>4, <1>5, RequestTypes
  <2>2. WellFormed(call[e])
    BY <1>2, <1>3 DEF ClientInv, CallOK
  <2>3. CallOK(e)'
    BY <1>3, <1>4, <1>5, <1>6, <2>1, <2>2 DEF CallOK, Waits, Occupied, WellFormed
  <2>4. DoubtOK(e)'
    <3>1. Waits(e)'
      BY <1>5, <1>6, <2>1 DEF Waits
    <3> QED BY <1>2, <1>3, <1>5, <1>6, <3>1 DEF ClientInv, DoubtOK, InDoubt
  <2>5. AnswerOK(e)'
    BY <1>4, <1>6 DEF AnswerOK, Answered
  <2> QED BY <2>3, <2>4, <2>5 DEF ClientInv
<1>9. \A d \in Engines \ {e} : ClientInv(d)'
  BY <1>1, <1>2, <1>6, ClientFrames
<1>10. RequestInv'
  <2>1. WellFormed(q)
    BY <1>2, <1>3, <1>4 DEF ClientInv, CallOK, WellFormed
  <2> QED BY <1>6, <2>1 DEF RemoteInv, RequestInv, WellFormed
<1>11. UsedExact' /\ FreshUnlessLate'
  BY <1>2 DEF RemoteInv, UsedExact, FreshUnlessLate
<1> QED BY <1>7, <1>8, <1>9, <1>10, <1>11 DEF RemoteInv

(* An answer tells the client the truth about its blocks. *)
LEMMA ReceiveStep ==
  ASSUME RemoteInv, NEW e \in Engines, Receive(e)
  PROVE  RemoteInv'
<1> USE DEF server
<1>1. /\ Answered(e) /\ call' = [call EXCEPT ![e] = NoCall]
      /\ pending' = [pending EXCEPT ![conn[e]] = Idle]
      /\ conn' = IF call[e].op = "close" THEN [conn EXCEPT ![e] = NoConn] ELSE conn
      /\ UNCHANGED <<blocks, usedBytes, disturbed>>
  BY DEF Receive
<1>2. RemoteTypeOK /\ ClientInv(e) /\ FreshUnlessLate
  BY DEF RemoteInv
<1>3. /\ Waits(e) /\ call[e] # NoCall /\ conn[e] \in Conns /\ WellFormed(call[e])
      /\ call[e] \in CallSet
  BY <1>1, <1>2, RemoteTypes DEF Answered, Waits, ClientInv, CallOK
<1>4. ASSUME NEW k \in Keys
      PROVE  trusted'[k] =
               IF Answer(e).st = "ok" /\ call[e].op = "put" /\ k = <<e, call[e].id>> THEN call[e].data
               ELSE IF Answer(e).st = "ok" /\ call[e].op \in {"clear", "close"} /\ k[1] = e
                    THEN Nothing ELSE trusted[k]
  BY DEF Receive
<1>5. /\ call' \in [Engines -> CallSet \cup {NoCall}] /\ call'[e] = NoCall
      /\ pending' \in [Conns -> RequestSet \cup {Idle}] /\ pending'[conn[e]] = Idle
      /\ conn' \in [Engines -> Conns \cup {NoConn}] /\ conn'[e] \in {conn[e], NoConn}
      /\ \A d \in Engines \ {e} : call'[d] = call[d] /\ conn'[d] = conn[d]
      /\ \A c \in Conns \ {conn[e]} : pending'[c] = pending[c]
  BY <1>1, <1>2, <1>3 DEF RemoteTypeOK
<1>6. trusted' \in [Keys -> Data \cup {Nothing, Unknown}]
  <2>1. \A k \in Keys : trusted'[k] \in Data \cup {Nothing, Unknown}
    BY <1>2, <1>3, <1>4 DEF WellFormed, RemoteTypeOK
  <2>2. trusted' = [k \in Keys |-> trusted'[k]]
    BY DEF Receive
  <2> QED BY <2>1, <2>2
<1>7. RemoteTypeOK'
  BY <1>1, <1>2, <1>5, <1>6 DEF RemoteTypeOK
<1>8. ClientInv(e)'
  <2>1. ~ Occupied(e)'
    BY <1>5 DEF Occupied
  <2> QED BY <1>5, <2>1, RequestTypes DEF ClientInv, CallOK, Waits, DoubtOK, AnswerOK, Answered
<1>9. \A d \in Engines \ {e} : ClientInv(d)'
  <2>1. \A k \in Keys \ KeysOf(e) : trusted'[k] = trusted[k]
    <3>1. <<e, call[e].id>> \in KeysOf(e) \/ call[e].op # "put"
      BY <1>3, KeyTypes DEF WellFormed
    <3> QED BY <1>4, <3>1, KeyTypes
  <2> QED BY <1>1, <1>5, <2>1, ClientFrames
<1>10. RequestInv' /\ UsedExact'
  BY <1>1, <1>5, RequestTypes DEF RemoteInv, RequestInv, UsedExact, WellFormed
<1>11. FreshUnlessLate'
  <2> SUFFICES ASSUME NEW k \in Keys \ disturbed
               PROVE  /\ trusted'[k] \in Data => k \in DOMAIN blocks /\ blocks[k] = trusted'[k]
                      /\ trusted'[k] = Nothing => k \notin DOMAIN blocks
    BY <1>1 DEF FreshUnlessLate
  <2>1. CASE Answer(e).st = "ok" /\ call[e].op = "put" /\ k = <<e, call[e].id>>
    <3>1. k \in DOMAIN blocks /\ blocks[k] = call[e].data /\ call[e].data \in Data
      BY <1>1, <1>2, <1>3, <2>1 DEF ClientInv, AnswerOK, Stores, WellFormed
    <3> QED BY <1>4, <2>1, <3>1, DataAssumption
  <2>2. CASE Answer(e).st = "ok" /\ call[e].op \in {"clear", "close"} /\ k[1] = e
    <3>1. k \notin DOMAIN blocks
      BY <1>1, <1>2, <2>2, KeyTypes DEF ClientInv, AnswerOK
    <3>2. trusted'[k] = Nothing
      BY <1>4, <2>2
    <3> QED BY <3>1, <3>2, DataAssumption
  <2>3. CASE trusted'[k] = trusted[k]
    BY <1>2, <2>3 DEF FreshUnlessLate
  <2> QED BY <1>4, <2>1, <2>2, <2>3
<1> QED BY <1>7, <1>8, <1>9, <1>10, <1>11 DEF RemoteInv

(* A connection given up is nobody's, and only a clear leaves one as it is.*)
LEMMA Abandoning ==
  ASSUME RemoteInv, NEW e \in Engines, pending' = Abandoned(e)
  PROVE  /\ pending' \in [Conns -> RequestSet \cup {Idle}]
         /\ \A c \in Conns : pending'[c] = pending[c] \/ conn[e] = c
         /\ \A c \in Conns : pending'[c] = pending[c] \/ pending'[c] = Idle
BY DEF Abandoned, RemoteInv, RemoteTypeOK

LEMMA GivingUpStep ==
  ASSUME RemoteInv, NEW e \in Engines, Retry(e) \/ GiveUp(e)
  PROVE  RemoteInv'
<1> USE DEF server
<1>1. RemoteTypeOK /\ ClientInv(e) /\ UNCHANGED <<blocks, usedBytes, trusted, disturbed>>
  BY DEF RemoteInv, Retry, GiveUp
<1>2. PICK o \in CallSet \cup {NoCall} :
        /\ call' = [call EXCEPT ![e] = o]
        /\ o # NoCall => /\ o \in CallSet /\ ~ o.sent /\ call[e] # NoCall
                         /\ o.op = call[e].op /\ o.id = call[e].id /\ o.data = call[e].data
  <2>1. CASE Retry(e)
    <3> DEFINE r == [call[e] EXCEPT !.attempt = 1, !.sent = FALSE]
    <3>1. call[e] # NoCall /\ call[e] \in CallSet /\ call' = [call EXCEPT ![e] = r]
      BY <1>1, <2>1 DEF Retry, RemoteTypeOK
    <3>2. r \in CallSet /\ ~ r.sent /\ r.op = call[e].op /\ r.id = call[e].id /\ r.data = call[e].data
      BY <3>1 DEF CallSet
    <3> HIDE DEF r
    <3> QED BY <3>1, <3>2
  <2>2. CASE GiveUp(e)
    BY <2>2 DEF GiveUp
  <2> QED BY <2>1, <2>2
<1>3. /\ call' \in [Engines -> CallSet \cup {NoCall}] /\ call'[e] = o
      /\ \A d \in Engines \ {e} : call'[d] = call[d]
  BY <1>1, <1>2 DEF RemoteTypeOK
<1>4. \/ pending' = Abandoned(e) /\ conn' = [conn EXCEPT ![e] = NoConn]
      \/ call[e].op = "clear" /\ UNCHANGED <<pending, conn>> /\ o = NoCall
  BY <1>1, <1>3 DEF Retry, GiveUp, Resets, RemoteTypeOK
<1>5. /\ pending' \in [Conns -> RequestSet \cup {Idle}]
      /\ \A c \in Conns : pending'[c] = pending[c] \/ conn[e] = c
      /\ \A c \in Conns : pending'[c] = pending[c] \/ pending'[c] = Idle
  BY <1>1, <1>4, Abandoning DEF RemoteTypeOK
<1>6. /\ conn' \in [Engines -> Conns \cup {NoConn}] /\ conn'[e] \in {conn[e], NoConn}
      /\ \A d \in Engines \ {e} : conn'[d] = conn[d]
  BY <1>1, <1>4 DEF RemoteTypeOK
<1>7. RemoteTypeOK'
  BY <1>1, <1>3, <1>5, <1>6 DEF RemoteTypeOK
<1>8. ClientInv(e)'
  <2>1. ~ Waits(e)'
    BY <1>3, <1>2 DEF Waits
  <2>2. CallOK(e)' /\ AnswerOK(e)'
    BY <1>1, <1>2, <1>3, <2>1 DEF ClientInv, CallOK, AnswerOK, Answered, Waits, WellFormed
  <2>3. InDoubt(e)' <=> InDoubt(e)
    BY <1>1 DEF InDoubt
  <2>4. /\ o.op = "put" => trusted[<<e, o.id>>] = Unknown
        /\ o.op \in {"clear", "close"} => InDoubt(e)
    BY <1>1, <1>2, RequestTypes DEF ClientInv, DoubtOK
  <2>5. Occupied(e)' => InDoubt(e) /\ pending'[conn'[e]].eng = e /\ pending'[conn'[e]].op = "clear"
    <3>1. CASE conn'[e] = NoConn
      BY <3>1 DEF Occupied
    <3>2. CASE call[e].op = "clear" /\ UNCHANGED <<pending, conn>>
      BY <1>1, <3>2 DEF ClientInv, DoubtOK, CallOK, Occupied
    <3> QED BY <1>1, <1>4, <3>1, <3>2 DEF RemoteTypeOK
  <2>6. DoubtOK(e)'
    BY <1>1, <1>3, <2>3, <2>4, <2>5 DEF DoubtOK
  <2> QED BY <2>2, <2>6 DEF ClientInv
<1>9. \A d \in Engines \ {e} : ClientInv(d)'
  BY <1>1, <1>3, <1>5, <1>6, ClientFrames
<1>10. RequestInv' /\ UsedExact' /\ FreshUnlessLate'
  BY <1>1, <1>5, RequestTypes DEF RemoteInv, RequestInv, UsedExact, FreshUnlessLate, WellFormed
<1> QED BY <1>7, <1>8, <1>9, <1>10 DEF RemoteInv


-----------------------------------------------------------------------------
(***************************************************************************)
(* The server's steps.                                                     *)
(***************************************************************************)

(* The client of a live connection waits for the request on it, or gave up *)
(* a clear there. *)
LEMMA LiveOwner ==
  ASSUME RemoteInv, NEW c \in Conns, pending[c] # Idle, Live(c)
  PROVE  LET e == pending[c].eng
         IN /\ e \in Engines /\ conn[e] = c
            /\ \/ Waits(e) /\ pending[c].op = call[e].op /\ pending[c].id = call[e].id
               \/ ~ Waits(e) /\ pending[c].op = "clear" /\ InDoubt(e)
<1>1. PICK e \in Engines : conn[e] = c
  BY DEF Live
<1>2. c # NoConn /\ ClientInv(e)
  BY RemoteAssumption DEF RemoteInv
<1>3. Occupied(e)
  BY <1>1, <1>2 DEF Occupied
<1> QED BY <1>1, <1>2, <1>3 DEF ClientInv, CallOK, DoubtOK

Storing(k, v) == k \in disturbed' \/ (k \in DOMAIN blocks' /\ blocks'[k] = v)

(* The owner of the request that is executed trusts nothing it may change. *)
LEMMA ChangedUnknown ==
  ASSUME RemoteInv, NEW c \in Conns, pending[c].st = "sent", Live(c)
  PROVE  /\ pending[c].op = "put" => trusted[Key(pending[c])] = Unknown
         /\ pending[c].op \in {"clear", "close"} =>
              \A k \in KeysOf(pending[c].eng) : trusted[k] = Unknown
<1>1. pending[c] # Idle
  BY RequestTypes
<1>2. PICK e \in Engines : e = pending[c].eng
  BY <1>1, LiveOwner
<1>3. /\ \/ Waits(e) /\ pending[c].op = call[e].op /\ pending[c].id = call[e].id
         \/ ~ Waits(e) /\ pending[c].op = "clear" /\ InDoubt(e)
      /\ DoubtOK(e)
  BY <1>1, <1>2, LiveOwner DEF RemoteInv, ClientInv
<1> QED BY <1>2, <1>3 DEF DoubtOK, Key, InDoubt

(* What a handler has to see to. *)
LEMMA HandlerStep ==
  ASSUME RemoteInv, NEW c \in Conns, pending[c].st = "sent",
         NEW st \in {"ok", "refused"}, NEW v \in Data \cup {Nothing}, Answering(c, st, v),
         conn' = conn, call' = call, trusted' = trusted,
         DOMAIN blocks' \subseteq Keys, \A k \in DOMAIN blocks' : blocks'[k] \in Data,
         usedBytes' \in Nat, UsedExact', disturbed' \subseteq Keys,
         \A k \in Keys \ disturbed' :
           Kept(k) \/ (Live(c) /\ k \in KeysOf(pending[c].eng) /\ trusted[k] = Unknown),
         Live(c) /\ st = "ok" =>
           /\ pending[c].op = "put" => Storing(Key(pending[c]), pending[c].data)
           /\ pending[c].op = "get" => v \in Data /\ Storing(Key(pending[c]), v)
           /\ pending[c].op \in {"clear", "close"} =>
                \A k \in KeysOf(pending[c].eng) \ disturbed' : k \notin DOMAIN blocks'
  PROVE  RemoteInv'
<1>1. RemoteTypeOK /\ pending[c] \in RequestSet /\ pending[c] # Idle /\ c # NoConn
  BY RequestTypes, RemoteAssumption DEF RemoteInv, RemoteTypeOK
<1>a. PICK e \in Engines : e = pending[c].eng
  BY <1>1, RequestTypes
<1>b. PICK q \in RequestSet : q = pending[c]
  BY <1>1
<1> DEFINE r == [q EXCEPT !.st = st, !.data = v]
<1>2. /\ r \in RequestSet /\ r.st = st /\ r.data = v /\ r.op = q.op
      /\ r.id = q.id /\ r.eng = e /\ r # Idle
  <2>1. /\ r \in RequestSet /\ r.st = st /\ r.data = v /\ r.op = q.op
        /\ r.id = q.id /\ r.eng = e
    BY <1>a, <1>b DEF RequestSet
  <2> QED BY <2>1, RequestTypes
<1>3. /\ pending' \in [Conns -> RequestSet \cup {Idle}]
      /\ pending'[c] = IF Live(c) THEN r ELSE Idle
      /\ \A d \in Conns \ {c} : pending'[d] = pending[d]
  BY <1>1, <1>2, <1>b DEF Answering, RemoteTypeOK
<1> HIDE DEF r
<1>4. RemoteTypeOK'
  BY <1>1, <1>3 DEF RemoteTypeOK
<1>5. RequestInv'
  BY <1>2, <1>3, RequestTypes DEF RemoteInv, RequestInv, WellFormed
<1>6. FreshUnlessLate'
  BY DataAssumption DEF RemoteInv, FreshUnlessLate, Kept, Nothing, Unknown
<1>c. /\ \A k \in Keys \ disturbed' : Kept(k) \/ (Live(c) /\ k \in KeysOf(e) /\ trusted[k] = Unknown)
      /\ Live(c) => conn[e] = c
  BY <1>1, <1>a, LiveOwner
<1>7. ASSUME NEW d \in Engines, d # e \/ ~ Live(c) PROVE ClientInv(d)'
  <2>1. conn[d] # c
    <3>1. conn[d] = c => Live(c)
      BY DEF Live
    <3> QED BY <1>1, <1>7, <1>c, <3>1 DEF RemoteTypeOK
  <2>2. conn[d] # NoConn => pending'[conn[d]] = pending[conn[d]]
    BY <1>3, <2>1, RemoteTypes
  <2>3. \A k \in KeysOf(d) \ disturbed' : Kept(k)
    BY <1>c, <1>7, KeyTypes
  <2>4. call[d] # NoCall => call[d] \in CallSet
    BY RemoteTypes
  <2>5. ClientInv(d)
    BY DEF RemoteInv
  <2> QED BY <2>2, <2>3, <2>4, <2>5, ClientFrame
<1>8. ASSUME Live(c) PROVE ClientInv(e)'
  <2>1. /\ conn[e] = c /\ ClientInv(e) /\ pending'[c] = r
        /\ \/ Waits(e) /\ q.op = call[e].op /\ q.id = call[e].id
           \/ ~ Waits(e) /\ q.op = "clear" /\ InDoubt(e)
    BY <1>1, <1>3, <1>8, <1>a, <1>b, LiveOwner DEF RemoteInv
  <2>2. /\ Waits(e)' <=> Waits(e)
        /\ InDoubt(e)' <=> InDoubt(e)
        /\ conn'[e] = c /\ call'[e] = call[e] /\ Answer(e)' = r /\ Occupied(e) /\ Occupied(e)'
    BY <1>1, <1>2, <2>1 DEF Waits, InDoubt, Answer, Occupied
  <2>3. CallOK(e)'
    <3>1. WellFormed(call[e]) => WellFormed(call[e])'
      BY DEF WellFormed
    <3>2. call[e] # NoCall => WellFormed(call[e])
      BY <2>1 DEF ClientInv, CallOK
    <3>3. Waits(e) => pending'[conn'[e]].eng = e /\ pending'[conn'[e]].op = call'[e].op
                      /\ pending'[conn'[e]].id = call'[e].id /\ pending'[conn'[e]].st # "sent"
      BY <1>2, <2>1, <2>2
    <3> QED BY <2>2, <3>1, <3>2, <3>3 DEF CallOK
  <2>4. DoubtOK(e)'
    <3>1. ~ Waits(e) => InDoubt(e) /\ pending'[conn'[e]].eng = e /\ pending'[conn'[e]].op = "clear"
      BY <1>2, <2>1, <2>2
    <3>2. /\ call[e].op = "put" => trusted[<<e, call[e].id>>] = Unknown
          /\ call[e].op \in {"clear", "close"} => InDoubt(e)
      BY <2>1 DEF ClientInv, DoubtOK
    <3> QED BY <2>2, <3>1, <3>2 DEF DoubtOK
  <2>5. ASSUME Answered(e)', r.st = "ok" PROVE AnswerOK(e)'
    <3>1. Waits(e)
      BY <2>2, <2>5 DEF Answered, Waits
    <3>2. /\ st = "ok" /\ q.op = call[e].op /\ Key(q) = <<e, call[e].id>>
          /\ call[e].op = "put" => q.data = call[e].data
      BY <1>2, <1>a, <1>b, <2>1, <2>5, <3>1 DEF Key, ClientInv, CallOK
    <3>3. /\ call[e].op = "put" => Storing(<<e, call[e].id>>, call[e].data)
          /\ call[e].op = "get" => v \in Data /\ Storing(<<e, call[e].id>>, v)
          /\ call[e].op \in {"clear", "close"} =>
               \A k \in KeysOf(e) \ disturbed' : k \notin DOMAIN blocks'
      BY <1>a, <1>b, <1>8, <3>2
    <3> QED BY <1>2, <2>2, <3>3 DEF AnswerOK, Stores, Storing
  <2> QED BY <2>2, <2>3, <2>4, <2>5 DEF ClientInv, AnswerOK
<1>9. \A d \in Engines : ClientInv(d)'
  BY <1>7, <1>8
<1> QED BY <1>4, <1>5, <1>6, <1>9 DEF RemoteInv

LEMMA Sizes ==
  ASSUME NEW n \in Nat, NEW m \in Nat, NEW b \in Nat
  PROVE  /\ n * b \in Nat /\ (n + 1) * b = n * b + b
         /\ m <= n => (n - m) * b = n * b - m * b /\ m * b <= n * b
BY Z3

LEMMA KeysFinite == IsFiniteSet(Keys) /\ BlockBytes \in Nat /\ MaxBytes \in Nat
BY RemoteAssumption, FS_Product DEF Keys

(* used_bytes after a block was put, and after a namespace was cleared.    *)
LEMMA PutSize ==
  ASSUME RemoteInv, NEW k \in Keys
  PROVE  /\ NewUsed(k) = Cardinality(DOMAIN blocks \cup {k}) * BlockBytes
         /\ NewUsed(k) \in Nat
<1>1. /\ IsFiniteSet(DOMAIN blocks) /\ Cardinality(DOMAIN blocks) \in Nat
      /\ usedBytes = Cardinality(DOMAIN blocks) * BlockBytes
  BY KeysFinite, FS_Subset, FS_CardinalityType DEF RemoteInv, RemoteTypeOK, UsedExact
<1>2. /\ Cardinality(DOMAIN blocks \cup {k}) =
           IF k \in DOMAIN blocks THEN Cardinality(DOMAIN blocks) ELSE Cardinality(DOMAIN blocks) + 1
  <2>1. CASE k \in DOMAIN blocks
    <3>1. DOMAIN blocks \cup {k} = DOMAIN blocks
      BY <2>1
    <3> QED BY <2>1, <3>1
  <2>2. CASE k \notin DOMAIN blocks
    BY <1>1, <2>2, FS_AddElement
  <2> QED BY <2>1, <2>2
<1>3. PICK n \in Nat, b \in Nat : n = Cardinality(DOMAIN blocks) /\ b = BlockBytes
  BY <1>1, KeysFinite
<1>4. n * b \in Nat /\ (n + 1) * b = n * b + b
  BY Sizes
<1>5. PICK u \in Nat, w \in Nat : u = n * b /\ w = (n + 1) * b
  BY <1>4
<1>6. usedBytes = u /\ w = u + b
  BY <1>1, <1>3, <1>4, <1>5
<1>7. NewUsed(k) = IF k \in DOMAIN blocks THEN u ELSE w
  BY <1>3, <1>6 DEF NewUsed, OldSize
<1> QED BY <1>2, <1>3, <1>5, <1>7

LEMMA DeleteSize ==
  ASSUME RemoteInv, NEW K \in SUBSET Keys
  PROVE  /\ usedBytes - Released(K) = Cardinality(DOMAIN blocks \ K) * BlockBytes
         /\ usedBytes - Released(K) \in Nat /\ usedBytes - Released(K) <= usedBytes
<1>1. /\ IsFiniteSet(DOMAIN blocks) /\ Cardinality(DOMAIN blocks) \in Nat
      /\ usedBytes = Cardinality(DOMAIN blocks) * BlockBytes
  BY KeysFinite, FS_Subset, FS_CardinalityType DEF RemoteInv, RemoteTypeOK, UsedExact
<1>2. IsFiniteSet(DOMAIN blocks \cap K) /\ Cardinality(DOMAIN blocks \cap K) \in Nat
  BY <1>1, FS_Subset, FS_CardinalityType
<1>3. /\ Cardinality(DOMAIN blocks \ K) = Cardinality(DOMAIN blocks) - Cardinality(DOMAIN blocks \cap K)
      /\ Cardinality(DOMAIN blocks \ K) \in Nat
  BY <1>1, FS_Difference, FS_CardinalityType
<1>4. PICK n \in Nat, m \in Nat, b \in Nat :
        /\ n = Cardinality(DOMAIN blocks) /\ m = Cardinality(DOMAIN blocks \cap K) /\ b = BlockBytes
        /\ n - m = Cardinality(DOMAIN blocks \ K) /\ m <= n
  BY <1>1, <1>2, <1>3, KeysFinite
<1>5. (n - m) * b = n * b - m * b /\ n * b \in Nat /\ m * b \in Nat /\ m * b <= n * b
  BY <1>4, Sizes
<1>6. PICK u \in Nat, w \in Nat : u = n * b /\ w = m * b
  BY <1>5
<1>7. usedBytes = u /\ Released(K) = w /\ (n - m) * b = u - w /\ w <= u
  BY <1>1, <1>4, <1>5, <1>6 DEF Released
<1> QED BY <1>4, <1>7

LEMMA HandleQuietStep ==
  ASSUME RemoteInv, NEW c \in Conns, HandleGet(c) \/ HandleHealth(c)
  PROVE  RemoteInv'
<1> USE DEF server
<1>1. /\ pending[c].st = "sent" /\ conn' = conn /\ call' = call /\ trusted' = trusted
      /\ blocks' = blocks /\ usedBytes' = usedBytes /\ disturbed' = disturbed
      /\ pending[c].op \in {"get", "health"}
  BY DEF HandleGet, HandleHealth
<1>2. PICK k : k = Key(pending[c])
  OBVIOUS
<1>3. PICK st \in {"ok", "refused"}, v \in Data \cup {Nothing} :
        /\ Answering(c, st, v)
        /\ pending[c].op = "get" /\ st = "ok" => k \in DOMAIN blocks /\ v = blocks[k]
  <2>1. CASE HandleHealth(c)
    BY <2>1 DEF HandleHealth
  <2>2. CASE HandleGet(c)
    BY <1>2, <2>2 DEF HandleGet, RemoteInv, RemoteTypeOK
  <2> QED BY <2>1, <2>2
<1>4. /\ \A x \in Keys \ disturbed' : Kept(x)
      /\ \A x \in DOMAIN blocks : blocks[x] \in Data
  BY <1>1 DEF Kept, RemoteInv, RemoteTypeOK
<1>5. UsedExact' /\ DOMAIN blocks' \subseteq Keys /\ usedBytes' \in Nat /\ disturbed' \subseteq Keys
  BY <1>1 DEF RemoteInv, RemoteTypeOK, UsedExact
<1>6. pending[c].op = "get" /\ st = "ok" => v \in Data /\ Storing(k, v)
  BY <1>1, <1>3, <1>4 DEF Storing
<1> QED BY <1>1, <1>2, <1>3, <1>4, <1>5, <1>6, HandlerStep

LEMMA HandlePutStep ==
  ASSUME RemoteInv, NEW c \in Conns, HandlePut(c)
  PROVE  RemoteInv'
<1> USE DEF server
<1>1. PICK q \in RequestSet : q = pending[c] /\ q.st = "sent" /\ q.op = "put" /\ WellFormed(q)
  BY RequestTypes DEF HandlePut, RemoteInv, RemoteTypeOK, RequestInv
<1>2. PICK k \in Keys : k = Key(q) /\ k = Key(pending[c]) /\ k \in KeysOf(pending[c].eng)
  <2>1. PICK e \in Engines : e = q.eng
    BY <1>1, RequestTypes
  <2>2. Key(q) = <<e, q.id>> /\ Key(pending[c]) = <<e, q.id>> /\ q.id \in RemoteIds
    BY <1>1, <2>1 DEF WellFormed, Key
  <2>3. <<e, q.id>> \in KeysOf(e) /\ <<e, q.id>> \in Keys
    BY <2>2, KeyTypes
  <2> QED BY <1>1, <2>1, <2>2, <2>3
<1>3. /\ conn' = conn /\ call' = call /\ trusted' = trusted /\ Answering(c, PutStatus(k), Nothing)
      /\ IF Fits(k)
         THEN blocks' = [x \in DOMAIN blocks \cup {k} |-> IF x = k THEN q.data ELSE blocks[x]] /\ usedBytes' = NewUsed(k) /\ Disturbing(c, {k})
         ELSE blocks' = blocks /\ usedBytes' = usedBytes /\ disturbed' = disturbed
  BY <1>1, <1>2 DEF HandlePut
<1>4. RemoteTypeOK /\ UsedExact /\ pending[c] # Idle /\ q.data \in Data
  BY <1>1, RequestTypes DEF RemoteInv, WellFormed
<1>5. Live(c) => trusted[k] = Unknown
  BY <1>1, <1>2, ChangedUnknown
<1>6. CASE ~ Fits(k)
  <2>1. PutStatus(k) = "refused" /\ blocks' = blocks /\ usedBytes' = usedBytes /\ disturbed' = disturbed
    BY <1>3, <1>6 DEF PutStatus
  <2>2. \A x \in Keys \ disturbed' : Kept(x)
    BY <2>1 DEF Kept
  <2>3. /\ UsedExact' /\ DOMAIN blocks' \subseteq Keys /\ usedBytes' \in Nat /\ disturbed' \subseteq Keys
        /\ \A x \in DOMAIN blocks' : blocks'[x] \in Data
    BY <1>4, <2>1 DEF RemoteTypeOK, UsedExact
  <2> QED BY <1>1, <1>3, <2>1, <2>2, <2>3, HandlerStep
<1>7. CASE Fits(k)
  <2>1. /\ DOMAIN blocks' = DOMAIN blocks \cup {k} /\ blocks'[k] = q.data
        /\ \A x \in DOMAIN blocks \ {k} : blocks'[x] = blocks[x]
        /\ usedBytes' = NewUsed(k) /\ PutStatus(k) = "ok"
        /\ disturbed' = IF Live(c) THEN disturbed \ {k} ELSE disturbed \cup {k}
    BY <1>3, <1>7 DEF PutStatus, Disturbing
  <2>2. /\ DOMAIN blocks' \subseteq Keys /\ disturbed' \subseteq Keys
        /\ \A x \in DOMAIN blocks' : blocks'[x] \in Data
    BY <1>4, <2>1 DEF RemoteTypeOK
  <2>3. UsedExact' /\ usedBytes' \in Nat
    BY <1>7, <2>1, PutSize DEF UsedExact, Fits
  <2>4. \A x \in Keys \ disturbed' : Kept(x) \/ (Live(c) /\ x = k)
    BY <2>1 DEF Kept
  <2>5. Storing(k, q.data)
    BY <2>1 DEF Storing
  <2> QED BY <1>1, <1>2, <1>3, <1>5, <2>1, <2>2, <2>3, <2>4, <2>5, HandlerStep
<1> QED BY <1>6, <1>7

LEMMA HandleDeleteStep ==
  ASSUME RemoteInv, NEW c \in Conns, HandleDelete(c)
  PROVE  RemoteInv'
<1> USE DEF server
<1>1. PICK q \in RequestSet : q = pending[c] /\ q.st = "sent" /\ q.op \in {"clear", "close"}
  BY RequestTypes DEF HandleDelete, RemoteInv, RemoteTypeOK
<1>2. PICK e \in Engines, K \in SUBSET Keys : e = q.eng /\ K = KeysOf(e)
  BY <1>1, RequestTypes, KeyTypes
<1>3. /\ conn' = conn /\ call' = call /\ trusted' = trusted /\ Answering(c, "ok", Nothing)
      /\ blocks' = [x \in DOMAIN blocks \ K |-> blocks[x]]
      /\ usedBytes' = usedBytes - Released(K)
      /\ disturbed' = IF Live(c) THEN disturbed \ K ELSE disturbed \cup K
  BY <1>1, <1>2 DEF HandleDelete, Disturbing
<1>4. RemoteTypeOK /\ UsedExact /\ pending[c] # Idle
  BY <1>1, RequestTypes DEF RemoteInv
<1>5. Live(c) => \A k \in K : trusted[k] = Unknown
  BY <1>1, <1>2, ChangedUnknown
<1>6. /\ DOMAIN blocks' \subseteq Keys /\ disturbed' \subseteq Keys
      /\ \A x \in DOMAIN blocks' : blocks'[x] \in Data
  BY <1>3, <1>4 DEF RemoteTypeOK
<1>7. UsedExact' /\ usedBytes' \in Nat
  <2>1. PICK u \in Nat : u = usedBytes - Released(K) /\ u <= usedBytes
    BY DeleteSize
  <2>2. usedBytes' = Cardinality(DOMAIN blocks \ K) * BlockBytes
    BY <1>3, DeleteSize
  <2>3. DOMAIN blocks' = DOMAIN blocks \ K
    BY <1>3
  <2>4. MaxBytes # 0 => usedBytes' <= MaxBytes
    BY <1>3, <1>4, <2>1, KeysFinite DEF UsedExact, RemoteTypeOK
  <2> QED BY <1>3, <2>1, <2>2, <2>3, <2>4 DEF UsedExact
<1>8. \A x \in Keys \ disturbed' : Kept(x) \/ (Live(c) /\ x \in K)
  BY <1>3 DEF Kept
<1>9. \A x \in K : x \notin DOMAIN blocks'
  BY <1>3
<1> QED BY <1>1, <1>2, <1>3, <1>5, <1>6, <1>7, <1>8, <1>9, HandlerStep

(* An undelivered request does nothing, and a restart disturbs every block.*)
LEMMA IncompleteStep ==
  ASSUME RemoteInv, NEW c \in Conns, Incomplete(c)
  PROVE  RemoteInv'
<1> USE DEF server
<1>1. /\ ~ Live(c) /\ pending' = [pending EXCEPT ![c] = Idle] /\ conn' = conn /\ call' = call
      /\ trusted' = trusted /\ blocks' = blocks /\ usedBytes' = usedBytes /\ disturbed' = disturbed
  BY DEF Incomplete
<1>2. RemoteTypeOK /\ c # NoConn
  BY RemoteAssumption DEF RemoteInv
<1>3. pending'[c] = Idle /\ \A d \in Conns \ {c} : pending'[d] = pending[d]
  BY <1>1, <1>2 DEF RemoteTypeOK
<1>4. RemoteTypeOK'
  BY <1>1, <1>2 DEF RemoteTypeOK
<1>5. \A d \in Engines : ClientInv(d)'
  <2> TAKE d \in Engines
  <2>1. conn[d] # NoConn => pending'[conn[d]] = pending[conn[d]]
    BY <1>1, <1>3, RemoteTypes DEF Live
  <2>2. \A k \in KeysOf(d) \ disturbed' : Kept(k)
    BY <1>1 DEF Kept
  <2> QED BY <1>1, <2>1, <2>2, ClientFrame, RemoteTypes DEF RemoteInv
<1>6. RequestInv' /\ UsedExact' /\ FreshUnlessLate'
  BY <1>1, <1>3, RequestTypes DEF RemoteInv, RequestInv, UsedExact, FreshUnlessLate, WellFormed
<1> QED BY <1>4, <1>5, <1>6 DEF RemoteInv

LEMMA RestartStep ==
  ASSUME RemoteInv, Restart
  PROVE  RemoteInv'
<1>1. /\ blocks' = << >> /\ usedBytes' = 0 /\ disturbed' = Keys
      /\ conn' = conn /\ call' = call /\ trusted' = trusted
      /\ pending' = [c \in Conns |-> IF Live(c) /\ pending[c] # Idle
                                     THEN [pending[c] EXCEPT !.st = "broken"] ELSE Idle]
  BY DEF Restart
<1>2. RemoteTypeOK
  BY DEF RemoteInv
<1>3. ASSUME NEW c \in Conns
      PROVE  \/ pending'[c] = Idle /\ (pending[c] = Idle \/ ~ Live(c))
             \/ /\ pending'[c] \in RequestSet /\ pending'[c].st = "broken" /\ pending[c] # Idle
                /\ pending'[c].eng = pending[c].eng /\ pending'[c].op = pending[c].op
                /\ pending'[c].id = pending[c].id
  <2>1. CASE Live(c) /\ pending[c] # Idle
    <3>1. PICK q \in RequestSet : q = pending[c]
      BY <1>2, <2>1 DEF RemoteTypeOK
    <3>2. pending'[c] = [q EXCEPT !.st = "broken"]
      BY <1>1, <2>1, <3>1
    <3> QED BY <2>1, <3>1, <3>2 DEF RequestSet
  <2>2. CASE ~ (Live(c) /\ pending[c] # Idle)
    BY <1>1, <2>2
  <2> QED BY <2>1, <2>2
<1>4. RemoteTypeOK'
  <2>1. pending' \in [Conns -> RequestSet \cup {Idle}]
    BY <1>1, <1>3
  <2> QED BY <1>1, <1>2, <2>1 DEF RemoteTypeOK
<1>5. UsedExact'
  BY <1>1, FS_EmptySet, KeysFinite DEF UsedExact
<1>6. RequestInv' /\ FreshUnlessLate'
  BY <1>1, <1>3, RequestTypes DEF RequestInv, FreshUnlessLate
<1>7. ASSUME NEW e \in Engines PROVE ClientInv(e)'
  <2>1. ClientInv(e) /\ (conn[e] \in Conns \/ conn[e] = NoConn) /\ (call[e] = NoCall \/ call[e] \in CallSet)
    BY RemoteTypes DEF RemoteInv
  <2>2. conn[e] \in Conns => Live(conn[e])
    BY DEF Live
  <2>3. /\ Waits(e)' <=> Waits(e)
        /\ InDoubt(e)' <=> InDoubt(e)
        /\ Occupied(e)' <=> Occupied(e)
    BY <1>1, <1>3, <2>1, <2>2, RequestTypes DEF Waits, InDoubt, Occupied
  <2>4. Occupied(e) => /\ pending'[conn'[e]].st = "broken"
                       /\ pending'[conn'[e]].eng = pending[conn[e]].eng
                       /\ pending'[conn'[e]].op = pending[conn[e]].op
                       /\ pending'[conn'[e]].id = pending[conn[e]].id
    BY <1>1, <1>3, <2>1, <2>2 DEF Occupied
  <2>5. CallOK(e)'
    BY <1>1, <2>1, <2>3, <2>4 DEF ClientInv, CallOK, WellFormed
  <2>6. DoubtOK(e)'
    BY <1>1, <2>1, <2>3, <2>4 DEF ClientInv, DoubtOK
  <2>7. AnswerOK(e)'
    BY <1>1, <2>1, <2>3, <2>4 DEF AnswerOK, Answered, Answer, Waits, ClientInv, CallOK
  <2> QED BY <2>5, <2>6, <2>7 DEF ClientInv
<1> QED BY <1>4, <1>5, <1>6, <1>7 DEF RemoteInv

LEMMA RemoteInit_Inv == RemoteInit => RemoteInv
<1> SUFFICES ASSUME RemoteInit PROVE RemoteInv
  OBVIOUS
<1>1. /\ blocks = << >> /\ usedBytes = 0 /\ disturbed = {}
      /\ \A c \in Conns : pending[c] = Idle
      /\ \A e \in Engines : conn[e] = NoConn /\ call[e] = NoCall
      /\ \A k \in Keys : trusted[k] = Nothing
  BY DEF RemoteInit
<1>2. RemoteTypeOK
  BY DEF RemoteInit, RemoteTypeOK
<1>3. RequestInv /\ FreshUnlessLate
  BY <1>1, RequestTypes, DataAssumption DEF RequestInv, FreshUnlessLate
<1>4. UsedExact
  BY <1>1, FS_EmptySet, KeysFinite DEF UsedExact
<1>5. \A e \in Engines : ClientInv(e)
  BY <1>1, RequestTypes DEF ClientInv, CallOK, DoubtOK, AnswerOK, Answered, Waits, Occupied
<1> QED BY <1>2, <1>3, <1>4, <1>5 DEF RemoteInv

LEMMA RemoteStep ==
  ASSUME RemoteInv, [RemoteNext]_remoteVars
  PROVE  RemoteInv'
<1>1. CASE Server
  BY <1>1, RestartStep, HandlePutStep, HandleQuietStep, HandleDeleteStep, IncompleteStep DEF Server
<1>2. CASE \E e \in Engines : Client(e) \/ Receive(e) \/ \E o \in Operations(e) : Call(e, o)
  BY <1>2, SendStep, GivingUpStep, ReceiveStep, CallStep DEF Client
<1>3. CASE UNCHANGED remoteVars
  <2>1. /\ blocks' = blocks /\ usedBytes' = usedBytes /\ disturbed' = disturbed /\ trusted' = trusted
        /\ pending' = pending /\ conn' = conn /\ call' = call
    BY <1>3 DEF remoteVars, server
  <2>2. RemoteTypeOK' /\ RequestInv' /\ UsedExact' /\ FreshUnlessLate'
    BY <2>1 DEF RemoteInv, RemoteTypeOK, RequestInv, UsedExact, FreshUnlessLate, WellFormed
  <2>3. ASSUME NEW e \in Engines PROVE ClientInv(e)'
    BY <2>1, ClientFrame, RemoteTypes DEF RemoteInv, Kept
  <2> QED BY <2>2, <2>3 DEF RemoteInv
<1> QED BY <1>1, <1>2, <1>3 DEF RemoteNext

(* The inductive invariant of the remote tier. *)
THEOREM RemoteInvariance == RemoteSpec => []RemoteInv
BY RemoteInit_Inv, RemoteStep, PTL DEF RemoteSpec

LEMMA RemoteConsequences ==
  ASSUME RemoteInv
  PROVE  UsedExact /\ FreshUnlessLate /\ WedgedOnlyByClear
<1>1. WedgedOnlyByClear
  BY DEF RemoteInv, ClientInv, DoubtOK, Occupied, Waits, WedgedOnlyByClear
<1> QED BY <1>1 DEF RemoteInv

(* used_bytes of RemoteBlockStore is the length of what it stores and      *)
(* stays within --max-gb, for any number of clients and abandoned requests.*)
THEOREM AccountingExact == RemoteSpec => []UsedExact
BY RemoteInvariance, RemoteConsequences, PTL

(* What a client was told of a block (put acknowledged, namespace cleared) *)
(* stays true until a request that nobody waits for, or a restart of the   *)
(* server, changes the block.                                              *)
THEOREM AcknowledgedKept == RemoteSpec => []FreshUnlessLate
BY RemoteInvariance, RemoteConsequences, PTL

(* Only a failed clear leaves RemoteCacheClient with a connection on which *)
(* the next request raises CannotSendRequest.                              *)
THEOREM OnlyClearWedges == RemoteSpec => []WedgedOnlyByClear
BY RemoteInvariance, RemoteConsequences, PTL

-----------------------------------------------------------------------------
(***************************************************************************)
(* Transfers: every step of an engine is one of its client.                *)
(***************************************************************************)
LEMMA EngineIsClient ==
  ASSUME NEW e \in Engines, Engine(e)
  PROVE  [RemoteNext]_remoteVars
<1>1. CASE Start(e) \/ StartGet(e) \/ StartPut(e) \/ StartClear(e) \/ Exit(e)
  BY <1>1 DEF Start, StartGet, StartPut, StartClear, Exit, RemoteNext
<1>2. CASE EndStart(e) \/ EndGet(e) \/ EndPut(e) \/ EndClear(e)
  BY <1>2 DEF EndStart, EndGet, EndPut, EndClear, RemoteNext
<1>3. CASE ClientStep(e)
  BY <1>3 DEF ClientStep, RemoteNext
<1>4. CASE ReadLocal(e) \/ ReadSsd(e) \/ WriteSsd(e) \/ Mismatch(e)
  BY <1>4 DEF ReadLocal, ReadSsd, WriteSsd, Mismatch
<1>5. CASE \/ \E p \in Place, v \in Data : Compute(e, p, v)
           \/ \E p \in Place : Release(e, p)
           \/ \E src, dst \in Place : SwapBlocks(e, src, dst)
  BY <1>5 DEF Compute, Release, SwapBlocks
<1> QED BY <1>1, <1>2, <1>3, <1>4, <1>5 DEF Engine, Swap

LEMMA TransfersIsRemote ==
  ASSUME [TransfersNext]_<<remoteVars, transferVars>>
  PROVE  [RemoteNext]_remoteVars
BY EngineIsClient DEF TransfersNext, RemoteNext

(* The transfers of all engines use the remote tier as RemoteCache says.   *)
THEOREM TransfersUseRemote == TransfersSpec => RemoteSpec
<1>1. TransfersInit => RemoteInit
  BY DEF TransfersInit
<1> QED BY <1>1, TransfersIsRemote, PTL DEF TransfersSpec, RemoteSpec

-----------------------------------------------------------------------------
(***************************************************************************)
(* The invariant of the transfers.                                         *)
(***************************************************************************)
LEMMA MoveTypes ==
  /\ Resting \notin Moves /\ Starting \notin Moves /\ Exited \notin Moves
  /\ Resting.pc = "none" /\ Starting.pc = "start" /\ Exited.pc = "exit"
  /\ \A m \in Moves : /\ m.pc \in {"snapshot", "load", "store", "check", "mismatch"}
                      /\ m.src \in Place /\ m.dst \in Place
BY DEF Moves, Resting, Starting, Exited

LEMMA PlaceTypes ==
  /\ \A p \in Place : /\ p \in RemoteIds <=> PlaceTier[p] = "remote"
                      /\ p \in Local <=> PlaceTier[p] # "remote"
                      /\ PlaceTier[p] \in {"gpu", "cpu", "ssd", "remote"}
  /\ RemoteIds \subseteq Place
BY TransfersAssumption DEF On, Local

LEMMA TransferTypes ==
  ASSUME TransferInv, NEW e \in Engines
  PROVE  /\ RemoteInv /\ TransfersTypeOK /\ MoveInv(e) /\ ClientInv(e)
         /\ mem[e] \in [Local -> Data \cup {Torn}] /\ staging[e] \in [Offload -> Data \cup {Torn}]
         /\ holds[e] \in [Place -> Data \cup {Free, Unsure}]
         /\ task[e] \in Moves \cup {Resting, Starting, Exited}
         /\ InRead(e) \/ Pc(e) \in {"store", "mismatch"} => task[e] \in Moves
         /\ call[e] = NoCall \/ call[e] \in CallSet
BY MoveTypes, RemoteTypes DEF TransferInv, TransfersTypeOK, RemoteInv, InRead, Pc

(* What changes nothing of an engine keeps its part of the invariant.      *)
LEMMA MoveFrame ==
  ASSUME NEW d \in Engines, MoveInv(d), task[d] \in Moves \cup {Resting, Starting, Exited},
         disturbed \subseteq Keys,
         task'[d] = task[d], holds'[d] = holds[d], mem'[d] = mem[d], staging'[d] = staging[d],
         call'[d] # NoCall => /\ call[d] # NoCall /\ call'[d].op = call[d].op
                              /\ call'[d].id = call[d].id /\ call'[d].data = call[d].data,
         \A k \in KeysOf(d) : trusted[k] \in Data => trusted'[k] = trusted[k] /\ (k \in disturbed => k \in disturbed')
  PROVE  MoveInv(d)'
<1>1. TaskOK(d)'
  BY DEF MoveInv, TaskOK, Pc
<1>2. CallOf(d)'
  BY DEF MoveInv, CallOf, InRead, Pc, Reading
<1>3. ASSUME NEW p \in Place, NEW v, Arrived(d, p, v) PROVE Arrived(d, p, v)'
  BY <1>3, PlaceTypes DEF Arrived, Vouched, KeysOf, Local
<1>4. task[d] \in Moves => Moved(d)' = Moved(d) \/ Moved(d)' = Unsure
  <2> SUFFICES ASSUME task[d] \in Moves, <<d, task[d].src>> \in disturbed
               PROVE  <<d, task[d].src>> \in disturbed'
    BY DEF Moved
  <2>1. holds[d][task[d].src] # Free /\ task[d].src \in RemoteIds
    BY DEF MoveInv, TaskOK, Keys
  <2>2. trusted[<<d, task[d].src>>] \in Data
    BY <2>1, PlaceTypes DEF MoveInv, HeldOk, Arrived, Vouched
  <2> QED BY <2>1, <2>2, KeyTypes
<1>5. Pc(d) \in {"check", "mismatch", "store"} => task[d] \in Moves
  BY MoveTypes DEF Pc
<1>6. HeldOk(d)'
  <2>1. ASSUME NEW p \in Place, holds'[d][p] # Free PROVE Arrived(d, p, holds[d][p])'
    BY <1>3, <2>1 DEF MoveInv, HeldOk, Arrived, Vouched
  <2>2. ASSUME Pc(d)' \in {"check", "mismatch"} PROVE Arrived(d, task[d].dst, Moved(d))'
    <3>1. /\ task[d] \in Moves /\ task[d].dst \in Place /\ Arrived(d, task[d].dst, Moved(d))
          /\ Moved(d)' = Moved(d) \/ Moved(d)' = Unsure
      BY <1>4, <1>5, <2>2, MoveTypes DEF Pc, MoveInv, HeldOk
    <3>2. Unsure \notin Data
      BY ContentAssumption
    <3> QED BY <1>3, <3>1, <3>2 DEF Arrived, Vouched
  <2> QED BY <2>1, <2>2 DEF HeldOk
<1>7. Staged(d)'
  <2> SUFFICES ASSUME Pc(d)' = "store", Moved(d)' \in Data
               PROVE  staging'[d][PlaceTier[task'[d].dst]] = Moved(d)'
    BY DEF Staged
  <2>1. Moved(d)' = Moved(d) /\ Pc(d) = "store"
    BY <1>4, <1>5, ContentAssumption DEF Pc
  <2> QED BY <2>1 DEF MoveInv, Staged
<1> QED BY <1>1, <1>2, <1>6, <1>7 DEF MoveInv

LEMMA ServerKeeps ==
  ASSUME RemoteInv, Server
  PROVE  /\ call' = call /\ trusted' = trusted
         /\ \A k \in Keys : trusted[k] \in Data /\ k \in disturbed => k \in disturbed'
<1>1. call' = call /\ trusted' = trusted
  BY DEF Server, Restart, HandlePut, HandleGet, HandleDelete, HandleHealth, Incomplete
<1>2. CASE Restart
  BY <1>1, <1>2 DEF Restart
<1>3. ASSUME NEW c \in Conns, HandlePut(c) PROVE \A k \in disturbed : k \in disturbed' \/ trusted[k] = Unknown
  BY <1>3, ChangedUnknown DEF HandlePut, Disturbing
<1>4. ASSUME NEW c \in Conns, HandleDelete(c) PROVE \A k \in disturbed : k \in disturbed' \/ trusted[k] = Unknown
  BY <1>4, ChangedUnknown DEF HandleDelete, Disturbing
<1>5. ASSUME NEW c \in Conns, HandleGet(c) \/ HandleHealth(c) \/ Incomplete(c) PROVE disturbed' = disturbed
  BY <1>5 DEF HandleGet, HandleHealth, Incomplete
<1> QED BY <1>1, <1>2, <1>3, <1>4, <1>5, DataAssumption DEF Server

LEMMA ServerStep ==
  ASSUME TransferInv, Server, UNCHANGED transferVars
  PROVE  TransferInv'
<1>1. /\ task' = task /\ holds' = holds /\ mem' = mem /\ staging' = staging
      /\ call' = call /\ trusted' = trusted
      /\ \A k \in Keys : trusted[k] \in Data /\ k \in disturbed => k \in disturbed'
  BY ServerKeeps DEF transferVars, TransferInv
<1>2. RemoteInv'
  BY RemoteStep DEF TransferInv, RemoteNext
<1>3. \A d \in Engines : MoveInv(d)'
  <2> TAKE d \in Engines
  <2>1. disturbed \subseteq Keys /\ KeysOf(d) \subseteq Keys
    BY KeyTypes DEF TransferInv, RemoteInv, RemoteTypeOK
  <2> QED BY <1>1, <2>1, TransferTypes, MoveFrame
<1> QED BY <1>1, <1>2, <1>3 DEF TransferInv, TransfersTypeOK

(* An engine's client changes nothing of another engine.                   *)
LEMMA ClientKeeps ==
  ASSUME RemoteInv, NEW e \in Engines,
         Client(e) \/ Receive(e) \/ \E o \in Operations(e) : Call(e, o)
  PROVE  /\ disturbed' = disturbed
         /\ \A d \in Engines \ {e} : call'[d] = call[d] /\ \A k \in KeysOf(d) : trusted'[k] = trusted[k]
<1> USE DEF server
<1>1. RemoteTypeOK
  BY DEF RemoteInv
<1>2. CASE Client(e)
  BY <1>1, <1>2 DEF Client, Send, Retry, GiveUp, RemoteTypeOK
<1>3. CASE Receive(e)
  BY <1>1, <1>3 DEF Receive, RemoteTypeOK, KeysOf, Keys
<1>4. ASSUME NEW o \in Operations(e), Call(e, o)
      PROVE  /\ disturbed' = disturbed
             /\ \A d \in Engines \ {e} : call'[d] = call[d] /\ \A k \in KeysOf(d) : trusted'[k] = trusted[k]
  BY <1>1, <1>4 DEF Call, RemoteTypeOK, KeysOf, Keys
<1> QED BY <1>2, <1>3, <1>4

(* Nor does its swap_blocks. *)
LEMMA ReadsKeeps ==
  ASSUME TransfersTypeOK, NEW e \in Engines, NEW v, NEW b, InRead(e), Reads(e, v, b),
         \A d \in Engines \ {e} : b[d] = staging[d], DOMAIN b = Engines
  PROVE  \A d \in Engines \ {e} : /\ task'[d] = task[d] /\ holds'[d] = holds[d]
                                  /\ mem'[d] = mem[d] /\ staging'[d] = staging[d]
<1>1. After(e) \/ Commit(e) => \A d \in Engines \ {e} : task'[d] = task[d] /\ holds'[d] = holds[d]
  BY DEF After, Commit, Goes, TransfersTypeOK
<1>2. CASE Pc(e) = "snapshot"
  BY <1>2 DEF Reads, TransfersTypeOK
<1>3. CASE Pc(e) = "load" /\ PlaceTier[task[e].dst] \in Offload
  BY <1>3 DEF Reads, Goes, TransfersTypeOK
<1>4. CASE Pc(e) = "load" /\ PlaceTier[task[e].dst] \notin Offload
  BY <1>1, <1>4 DEF Reads, TransfersTypeOK
<1>5. CASE Pc(e) = "check"
  BY <1>1, <1>5 DEF Reads, Goes, TransfersTypeOK
<1> QED BY <1>2, <1>3, <1>4, <1>5 DEF InRead

LEMMA EngineKeeps ==
  ASSUME TransferInv, NEW e \in Engines, Engine(e)
  PROVE  /\ disturbed' = disturbed
         /\ \A d \in Engines \ {e} :
              /\ task'[d] = task[d] /\ holds'[d] = holds[d] /\ mem'[d] = mem[d]
              /\ staging'[d] = staging[d] /\ call'[d] = call[d]
              /\ \A k \in KeysOf(d) : trusted'[k] = trusted[k]
<1> USE DEF transferVars, server, remoteVars
<1>1. TransfersTypeOK /\ RemoteInv
  BY DEF TransferInv
<1>2. CASE Start(e) \/ StartGet(e) \/ StartPut(e) \/ StartClear(e) \/ Exit(e)
  <2>1. \E o \in Operations(e) : Call(e, o)
    BY <1>2 DEF Start, StartGet, StartPut, StartClear, Exit
  <2>2. \A d \in Engines \ {e} : /\ task'[d] = task[d] /\ holds'[d] = holds[d]
                                 /\ mem'[d] = mem[d] /\ staging'[d] = staging[d]
    BY <1>1, <1>2 DEF Start, StartGet, StartPut, StartClear, Exit, TransfersTypeOK
  <2> QED BY <1>1, <2>1, <2>2, ClientKeeps
<1>3. ASSUME Receive(e) PROVE /\ disturbed' = disturbed
                              /\ \A d \in Engines \ {e} : call'[d] = call[d] /\ \A k \in KeysOf(d) : trusted'[k] = trusted[k]
  BY <1>1, <1>3, ClientKeeps
<1>4. CASE EndStart(e) \/ EndClear(e)
  BY <1>1, <1>3, <1>4 DEF EndStart, EndClear, TransfersTypeOK
<1>5. CASE EndPut(e)
  <2>1. \A d \in Engines \ {e} : task'[d] = task[d] /\ holds'[d] = holds[d]
    BY <1>1, <1>5 DEF EndPut, After, Commit, Goes, Raised, TransfersTypeOK
  <2> QED BY <1>3, <1>5, <2>1 DEF EndPut
<1>6. CASE EndGet(e)
  <2>1. CASE Answer(e).st = "ok"
    <3>1. PICK b : b = [staging EXCEPT ![e]["remote"] = Answer(e).data]
      OBVIOUS
    <3>2. PICK v : v = Answer(e).data
      OBVIOUS
    <3>3. InRead(e) /\ Reads(e, v, b) /\ Receive(e)
      BY <1>6, <2>1, <3>1, <3>2 DEF EndGet
    <3>4. DOMAIN b = Engines /\ \A d \in Engines \ {e} : b[d] = staging[d]
      BY <1>1, <3>1 DEF TransfersTypeOK
    <3> QED BY <1>1, <1>3, <3>3, <3>4, ReadsKeeps
  <2>2. CASE Answer(e).st # "ok"
    BY <1>1, <1>3, <1>6, <2>2 DEF EndGet, Raised, TransfersTypeOK
  <2> QED BY <2>1, <2>2
<1>7. CASE ClientStep(e)
  <2>1. \A d \in Engines \ {e} : task'[d] = task[d]
    BY <1>1, <1>7 DEF ClientStep, TransfersTypeOK
  <2> QED BY <1>1, <1>7, <2>1, ClientKeeps DEF ClientStep
<1>8. CASE ReadLocal(e)
  <2>1. PICK v : Reads(e, v, staging)
    BY <1>8 DEF ReadLocal
  <2> QED BY <1>1, <1>8, <2>1, ReadsKeeps DEF ReadLocal, TransfersTypeOK
<1>9. CASE ReadSsd(e)
  <2>1. PICK v : \/ Reads(e, v, [staging EXCEPT ![e]["ssd"] = v])
                 \/ staging' = [staging EXCEPT ![e]["ssd"] = Torn] /\ Raised(e) /\ UNCHANGED mem
    BY <1>9 DEF ReadSsd
  <2>2. PICK b : b = [staging EXCEPT ![e]["ssd"] = v]
    OBVIOUS
  <2>3. DOMAIN b = Engines /\ \A d \in Engines \ {e} : b[d] = staging[d]
    BY <1>1, <2>2 DEF TransfersTypeOK
  <2>4. CASE Reads(e, v, b)
    BY <1>1, <1>9, <2>3, <2>4, ReadsKeeps DEF ReadSsd
  <2>5. CASE staging' = [staging EXCEPT ![e]["ssd"] = Torn] /\ Raised(e) /\ UNCHANGED mem
    BY <1>1, <1>9, <2>5 DEF ReadSsd, Raised, TransfersTypeOK
  <2> QED BY <2>1, <2>2, <2>4, <2>5
<1>10. CASE WriteSsd(e)
  <2>1. \A d \in Engines \ {e} : task'[d] = task[d] /\ holds'[d] = holds[d]
    BY <1>1, <1>10 DEF WriteSsd, After, Commit, Goes, Raised, TransfersTypeOK
  <2>2. \A d \in Engines \ {e} : mem'[d] = mem[d]
    BY <1>1, <1>10 DEF WriteSsd, TransfersTypeOK
  <2> QED BY <1>10, <2>1, <2>2 DEF WriteSsd
<1>11. CASE Mismatch(e)
  BY <1>1, <1>11 DEF Mismatch, Raised, TransfersTypeOK
<1>12. CASE \/ \E p \in Place, v \in Data : Compute(e, p, v)
            \/ \E p \in Place : Release(e, p)
            \/ \E src, dst \in Place : SwapBlocks(e, src, dst)
  BY <1>1, <1>12 DEF Compute, Release, SwapBlocks, TransfersTypeOK
<1> QED BY <1>2, <1>4, <1>5, <1>6, <1>7, <1>8, <1>9, <1>10, <1>11, <1>12 DEF Engine, Swap

(* What a call and an answer change of what the client trusts.             *)
LEMMA CallTrusts ==
  ASSUME RemoteInv, NEW e \in Engines, NEW o \in Operations(e), Call(e, o)
  PROVE  /\ call[e] = NoCall /\ call'[e] = o /\ disturbed' = disturbed
         /\ \A i \in RemoteIds :
              trusted'[<<e, i>>] = IF o.op \in {"clear", "close"} \/ (o.op = "put" /\ i = o.id)
                                   THEN Unknown ELSE trusted[<<e, i>>]
BY DEF Call, RemoteInv, RemoteTypeOK, Keys

LEMMA ReceiveTrusts ==
  ASSUME RemoteInv, NEW e \in Engines, Receive(e)
  PROVE  /\ call[e] # NoCall /\ call'[e] = NoCall /\ disturbed' = disturbed
         /\ \A i \in RemoteIds :
              trusted'[<<e, i>>] =
                IF Answer(e).st = "ok" /\ call[e].op = "put" /\ i = call[e].id THEN call[e].data
                ELSE IF Answer(e).st = "ok" /\ call[e].op \in {"clear", "close"} THEN Nothing
                ELSE trusted[<<e, i>>]
<1>1. /\ call[e] # NoCall /\ call'[e] = NoCall /\ disturbed' = disturbed
  BY DEF Receive, Answered, RemoteInv, RemoteTypeOK
<1>2. ASSUME NEW i \in RemoteIds
      PROVE  trusted'[<<e, i>>] =
                IF Answer(e).st = "ok" /\ call[e].op = "put" /\ i = call[e].id THEN call[e].data
                ELSE IF Answer(e).st = "ok" /\ call[e].op \in {"clear", "close"} THEN Nothing
                ELSE trusted[<<e, i>>]
  <2>1. <<e, i>> \in Keys /\ <<e, i>>[1] = e /\ (<<e, i>> = <<e, call[e].id>> <=> i = call[e].id)
    BY DEF Keys
  <2> QED BY <2>1 DEF Receive
<1> QED BY <1>1, <1>2

(* When no transfer is under way, only what is held matters. *)
LEMMA RestStep ==
  ASSUME NEW e \in Engines, task'[e] \in {Resting, Starting, Exited}, CallOf(e)',
         \A p \in Place : holds'[e][p] # Free => Arrived(e, p, holds[e][p])'
  PROVE  MoveInv(e)'
BY MoveTypes DEF MoveInv, TaskOK, HeldOk, Staged, Pc

LEMMA HeldSame ==
  ASSUME NEW e \in Engines, HeldOk(e), holds'[e] = holds[e],
         \A p \in Local : holds[e][p] # Free => mem'[e][p] = mem[e][p],
         \A i \in RemoteIds : holds[e][i] # Free => trusted'[<<e, i>>] = trusted[<<e, i>>]
  PROVE  \A p \in Place : holds'[e][p] # Free => Arrived(e, p, holds[e][p])'
BY PlaceTypes DEF HeldOk, Arrived, Vouched

(* The content has arrived: it is compared, or the manager commits.        *)
LEMMA ArrivedStep ==
  ASSUME TransferInv, NEW e \in Engines, task[e] \in Moves,
         \/ Commit(e)
         \/ holds' = holds /\ (Goes(e, "check") \/ Goes(e, "mismatch")),
         call'[e] = NoCall, disturbed' = disturbed,
         \A p \in Local : p # task[e].dst => mem'[e][p] = mem[e][p],
         \A i \in RemoteIds : i # task[e].dst => trusted'[<<e, i>>] = trusted[<<e, i>>],
         IF task[e].dst \in Local
         THEN Moved(e) \in Data => mem'[e][task[e].dst] = Moved(e)
         ELSE /\ trusted'[<<e, task[e].dst>>] \in Data
              /\ Moved(e) \in Data => trusted'[<<e, task[e].dst>>] = Moved(e)
  PROVE  /\ MoveInv(e)'
         /\ holds' \in [Engines -> [Place -> Data \cup {Free, Unsure}]]
         /\ task' \in [Engines -> Moves \cup {Resting, Starting, Exited}]
<1>1. PICK m \in Moves : m = task[e] /\ m.src \in Place /\ m.dst \in Place
  BY MoveTypes
<1>2. /\ holds[e][m.src] # Free /\ holds[e][m.dst] = Free /\ m.src # m.dst
      /\ PlaceTier[m.src] # PlaceTier[m.dst]
  BY <1>1 DEF TransferInv, MoveInv, TaskOK
<1>3. PICK w \in Data \cup {Free, Unsure} : w = Moved(e) /\ w # Free
  BY <1>1, <1>2, TransferTypes, ContentAssumption DEF Moved, Free, Unsure
<1>4. /\ TransfersTypeOK /\ HeldOk(e)
  BY DEF TransferInv, MoveInv
<1>5. ASSUME NEW p \in Place, p # m.dst, holds[e][p] # Free
      PROVE  IF p \in Local THEN holds[e][p] \in Data => mem'[e][p] = holds[e][p]
             ELSE /\ trusted'[<<e, p>>] \in Data
                  /\ holds[e][p] \in Data => trusted'[<<e, p>>] = holds[e][p]
  <2>1. Arrived(e, p, holds[e][p])
    BY <1>4, <1>5 DEF HeldOk
  <2>2. p \in Local \/ p \in RemoteIds
    BY PlaceTypes
  <2> QED BY <1>1, <1>5, <2>1, <2>2 DEF Arrived, Vouched
<1>6. CASE Commit(e)
  <2>1. /\ task' = [task EXCEPT ![e] = Resting]
        /\ holds' = [holds EXCEPT ![e][m.dst] = w, ![e][m.src] = Free]
    BY <1>1, <1>3, <1>6 DEF Commit
  <2>2. /\ holds' \in [Engines -> [Place -> Data \cup {Free, Unsure}]]
        /\ task' \in [Engines -> Moves \cup {Resting, Starting, Exited}]
        /\ task'[e] = Resting /\ holds'[e][m.dst] = w /\ holds'[e][m.src] = Free
        /\ \A p \in Place \ {m.dst, m.src} : holds'[e][p] = holds[e][p]
    BY <1>1, <1>2, <1>4, <2>1 DEF TransfersTypeOK
  <2>3. ASSUME NEW p \in Place, holds'[e][p] # Free PROVE Arrived(e, p, holds[e][p])'
    <3>1. p # m.src
      BY <2>2, <2>3
    <3>2. CASE p = m.dst
      BY <1>1, <1>3, <2>2, <3>2 DEF Arrived, Vouched
    <3>3. CASE p # m.dst
      <4>1. holds'[e][p] = holds[e][p]
        BY <2>2, <3>1, <3>3
      <4> QED BY <1>5, <2>3, <3>3, <4>1 DEF Arrived, Vouched
    <3> QED BY <3>2, <3>3
  <2>4. CallOf(e)'
    BY DEF CallOf
  <2> QED BY <2>2, <2>3, <2>4, RestStep
<1>7. ASSUME NEW pc \in {"check", "mismatch"}, holds' = holds, Goes(e, pc)
      PROVE  /\ MoveInv(e)'
             /\ holds' \in [Engines -> [Place -> Data \cup {Free, Unsure}]]
             /\ task' \in [Engines -> Moves \cup {Resting, Starting, Exited}]
  <2> DEFINE n == [m EXCEPT !.pc = pc]
  <2>1. n \in Moves /\ n.src = m.src /\ n.dst = m.dst /\ n.pc = pc
    BY DEF Moves
  <2>2. task' = [task EXCEPT ![e] = n]
    BY <1>1, <1>7 DEF Goes
  <2> HIDE DEF n
  <2>3. task'[e] = n /\ task' \in [Engines -> Moves \cup {Resting, Starting, Exited}] /\ Moved(e)' = Moved(e)
    BY <1>1, <1>4, <1>7, <2>1, <2>2 DEF TransfersTypeOK, Moved
  <2>4. TaskOK(e)' /\ CallOf(e)' /\ Staged(e)'
    BY <1>2, <1>7, <2>1, <2>3 DEF TaskOK, CallOf, Staged, Pc
  <2>5. ASSUME NEW p \in Place, holds'[e][p] # Free PROVE Arrived(e, p, holds[e][p])'
    BY <1>2, <1>5, <1>7, <2>5 DEF Arrived, Vouched
  <2>6. Arrived(e, task[e].dst, Moved(e))'
    BY <1>1, <2>1, <2>3 DEF Arrived, Vouched
  <2> QED BY <1>4, <1>7, <2>3, <2>4, <2>5, <2>6 DEF MoveInv, HeldOk, TransfersTypeOK
<1> QED BY <1>6, <1>7

(* A block that was read is the snapshot, on its way, in place or compared.*)
LEMMA ReadsStep ==
  ASSUME TransferInv, NEW e \in Engines, InRead(e), NEW v \in Data \cup {Torn},
         NEW b \in [Engines -> [Offload -> Data \cup {Torn}]], Reads(e, v, b),
         call'[e] = NoCall, disturbed' = disturbed,
         \A i \in RemoteIds : trusted'[<<e, i>>] = trusted[<<e, i>>],
         Pc(e) = "load" /\ Moved(e) \in Data => v = Moved(e)
  PROVE  MoveInv(e)' /\ TransfersTypeOK'
<1>1. PICK m \in Moves : m = task[e] /\ m.src \in Place /\ m.dst \in Place
  BY TransferTypes, MoveTypes
<1>2. PICK t : t = PlaceTier[m.dst]
  OBVIOUS
<1>3. /\ holds[e][m.src] # Free /\ holds[e][m.dst] = Free /\ m.src # m.dst
      /\ PlaceTier[m.src] # PlaceTier[m.dst]
  BY <1>1 DEF TransferInv, MoveInv, TaskOK
<1>4. TransfersTypeOK /\ HeldOk(e)
  BY DEF TransferInv, MoveInv
<1>5. CallOf(e)'
  BY DEF CallOf
<1>6. ASSUME NEW n \in Moves, task' = [task EXCEPT ![e] = n], holds' = holds, mem' = mem,
             n.src = m.src, n.dst = m.dst, staging' \in [Engines -> [Offload -> Data \cup {Torn}]],
             \/ n.pc = "load"
             \/ n.pc = "store" /\ t \in Offload /\ staging'[e][t] = v /\ (Moved(e) \in Data => v = Moved(e))
      PROVE  MoveInv(e)' /\ TransfersTypeOK'
  <2>1. task'[e] = n /\ TransfersTypeOK' /\ Moved(e)' = Moved(e)
    BY <1>1, <1>4, <1>6 DEF TransfersTypeOK, Moved
  <2>2. TaskOK(e)' /\ Staged(e)'
    BY <1>2, <1>3, <1>6, <2>1 DEF TaskOK, Staged, Pc
  <2>3. HeldOk(e)'
    BY <1>4, <1>6, <2>1, HeldSame DEF HeldOk, Pc
  <2> QED BY <1>5, <2>1, <2>2, <2>3 DEF MoveInv
<1>7. CASE Pc(e) = "snapshot"
  <2> DEFINE n == [m EXCEPT !.expected = v, !.pc = "load"]
  <2>1. n \in Moves /\ n.src = m.src /\ n.dst = m.dst /\ n.pc = "load"
    BY DEF Moves
  <2>2. task' = [task EXCEPT ![e] = n] /\ holds' = holds /\ mem' = mem /\ staging' = b
    BY <1>1, <1>4, <1>7 DEF Reads, TransfersTypeOK
  <2> HIDE DEF n
  <2> QED BY <1>6, <2>1, <2>2
<1>8. CASE Pc(e) = "load" /\ t \in Offload
  <2> DEFINE n == [m EXCEPT !.pc = "store"]
  <2>1. n \in Moves /\ n.src = m.src /\ n.dst = m.dst /\ n.pc = "store"
    BY DEF Moves
  <2>2. task' = [task EXCEPT ![e] = n] /\ holds' = holds /\ mem' = mem
        /\ staging' = [b EXCEPT ![e][t] = v]
    BY <1>1, <1>2, <1>4, <1>8 DEF Reads, Goes, Buffer, TransfersTypeOK
  <2> HIDE DEF n
  <2>3. staging' \in [Engines -> [Offload -> Data \cup {Torn}]] /\ staging'[e][t] = v
    BY <1>8, <2>2
  <2> QED BY <1>6, <1>8, <2>1, <2>2, <2>3
<1>9. CASE Pc(e) = "load" /\ t \notin Offload
  <2>1. /\ mem' = [mem EXCEPT ![e][m.dst] = v] /\ staging' = b /\ After(e)
    BY <1>1, <1>2, <1>9 DEF Reads
  <2>2. m.dst \in Local
    BY <1>1, <1>2, <1>9, PlaceTypes DEF Offload
  <2>3. /\ mem' \in [Engines -> [Local -> Data \cup {Torn}]] /\ mem'[e][m.dst] = v
        /\ \A p \in Local : p # m.dst => mem'[e][p] = mem[e][p]
    BY <1>4, <2>1, <2>2 DEF TransfersTypeOK
  <2>4. Commit(e) \/ (holds' = holds /\ Goes(e, "check"))
    BY <2>1 DEF After
  <2>5. /\ MoveInv(e)'
        /\ holds' \in [Engines -> [Place -> Data \cup {Free, Unsure}]]
        /\ task' \in [Engines -> Moves \cup {Resting, Starting, Exited}]
    BY <1>1, <1>9, <2>2, <2>3, <2>4, ArrivedStep
  <2> QED BY <2>1, <2>3, <2>5 DEF TransfersTypeOK
<1>10. CASE Pc(e) = "check"
  <2>1. mem' = mem /\ staging' = b /\ (Commit(e) \/ (holds' = holds /\ Goes(e, "mismatch")))
    BY <1>10 DEF Reads
  <2>2. Arrived(e, m.dst, Moved(e)) /\ (m.dst \in Local \/ m.dst \in RemoteIds)
    BY <1>1, <1>4, <1>10, PlaceTypes DEF HeldOk
  <2>3. IF m.dst \in Local
        THEN Moved(e) \in Data => mem'[e][m.dst] = Moved(e)
        ELSE /\ trusted'[<<e, m.dst>>] \in Data
             /\ Moved(e) \in Data => trusted'[<<e, m.dst>>] = Moved(e)
    BY <2>1, <2>2 DEF Arrived, Vouched
  <2>4. /\ MoveInv(e)'
        /\ holds' \in [Engines -> [Place -> Data \cup {Free, Unsure}]]
        /\ task' \in [Engines -> Moves \cup {Resting, Starting, Exited}]
    BY <1>1, <2>1, <2>3, ArrivedStep
  <2> QED BY <1>4, <2>1, <2>4 DEF TransfersTypeOK
<1> QED BY <1>2, <1>1, <1>7, <1>8, <1>9, <1>10 DEF InRead

(* A transfer that raises leaves what the manager counts on. *)
LEMMA RaisedStep ==
  ASSUME TransferInv, NEW e \in Engines, Raised(e), call'[e] = NoCall,
         \A p \in Local : holds[e][p] # Free => mem'[e][p] = mem[e][p],
         \A i \in RemoteIds : holds[e][i] # Free => trusted'[<<e, i>>] = trusted[<<e, i>>]
  PROVE  /\ MoveInv(e)'
         /\ holds' \in [Engines -> [Place -> Data \cup {Free, Unsure}]]
         /\ task' \in [Engines -> Moves \cup {Resting, Starting, Exited}]
<1>1. TransfersTypeOK /\ HeldOk(e)
  BY DEF TransferInv, MoveInv
<1>2. /\ holds' = holds /\ task'[e] = Resting
      /\ task' \in [Engines -> Moves \cup {Resting, Starting, Exited}]
  BY <1>1 DEF Raised, TransfersTypeOK
<1>3. CallOf(e)'
  BY DEF CallOf
<1>4. \A p \in Place : holds'[e][p] # Free => Arrived(e, p, holds[e][p])'
  BY <1>1, <1>2, HeldSame
<1> QED BY <1>1, <1>2, <1>3, <1>4, RestStep DEF TransfersTypeOK

(* Nothing is asked of the server while a local block is read or written.  *)
LEMMA NoCallLocally ==
  ASSUME TransferInv, NEW e \in Engines,
         \/ InRead(e) /\ PlaceTier[Reading(e)] # "remote"
         \/ Pc(e) = "store" /\ PlaceTier[task[e].dst] # "remote"
         \/ Pc(e) = "mismatch"
  PROVE  call[e] = NoCall
<1>1. task[e] \in Moves /\ CallOf(e) /\ ClientInv(e) /\ Reading(e) \in Place /\ task[e].dst \in Place
  BY TransferTypes, MoveTypes DEF MoveInv, Reading
<1>2. Pc(e) \in {"snapshot", "load", "store", "check", "mismatch"}
  BY <1>1, MoveTypes DEF Pc
<1> SUFFICES ASSUME call[e] # NoCall PROVE FALSE
  OBVIOUS
<1>3. call[e].op \in {"put", "get"} => call[e].id \in RemoteIds
  BY DEF TransferInv, RemoteInv, ClientInv, CallOK, WellFormed
<1> QED BY <1>1, <1>2, <1>3, PlaceTypes, MoveTypes DEF CallOf, Pc, InRead

LEMMA ReadLocalStep ==
  ASSUME TransferInv, NEW e \in Engines, ReadLocal(e)
  PROVE  MoveInv(e)' /\ TransfersTypeOK'
<1> USE DEF remoteVars, server
<1>1. PICK m \in Moves : m = task[e] /\ m.src \in Place /\ m.dst \in Place
  BY TransferTypes, MoveTypes DEF ReadLocal
<1>2. PICK v : v = mem[e][Reading(e)] /\ Reads(e, v, staging)
  BY DEF ReadLocal
<1>3. InRead(e) /\ Reading(e) \in {m.src, m.dst} /\ PlaceTier[Reading(e)] \notin Offload
  BY <1>1 DEF ReadLocal, Reading
<1>4. call[e] = NoCall /\ Reading(e) \in Local
  BY <1>1, <1>3, NoCallLocally, PlaceTypes DEF Offload
<1>5. v \in Data \cup {Torn} /\ staging \in [Engines -> [Offload -> Data \cup {Torn}]]
  BY <1>2, <1>4, TransferTypes DEF TransfersTypeOK
<1>6. Pc(e) = "load" /\ Moved(e) \in Data => v = Moved(e)
  <2> SUFFICES ASSUME Pc(e) = "load", Moved(e) \in Data PROVE v = Moved(e)
    OBVIOUS
  <2>1. Reading(e) = m.src /\ Moved(e) = holds[e][m.src]
    BY <1>1, ContentAssumption DEF Reading, Moved
  <2>2. Arrived(e, m.src, holds[e][m.src])
    BY <1>1, <2>1, ContentAssumption DEF TransferInv, MoveInv, HeldOk
  <2> QED BY <1>2, <1>4, <2>1, <2>2 DEF Arrived
<1> QED BY <1>2, <1>3, <1>4, <1>5, <1>6, ReadsStep DEF ReadLocal

LEMMA ReadSsdStep ==
  ASSUME TransferInv, NEW e \in Engines, ReadSsd(e)
  PROVE  MoveInv(e)' /\ TransfersTypeOK'
<1> USE DEF remoteVars, server
<1>1. PICK m \in Moves : m = task[e] /\ m.src \in Place /\ m.dst \in Place
  BY TransferTypes, MoveTypes DEF ReadSsd
<1>2. PICK v, b : /\ v = mem[e][Reading(e)] /\ b = [staging EXCEPT ![e]["ssd"] = v]
                  /\ \/ Reads(e, v, b)
                     \/ staging' = [staging EXCEPT ![e]["ssd"] = Torn] /\ Raised(e) /\ UNCHANGED mem
  BY DEF ReadSsd
<1>3. InRead(e) /\ Reading(e) \in {m.src, m.dst} /\ PlaceTier[Reading(e)] = "ssd"
  BY <1>1 DEF ReadSsd, Reading
<1>4. call[e] = NoCall /\ Reading(e) \in Local
  BY <1>1, <1>3, NoCallLocally, PlaceTypes
<1>5. v \in Data \cup {Torn} /\ b \in [Engines -> [Offload -> Data \cup {Torn}]]
  BY <1>2, <1>4, TransferTypes DEF TransfersTypeOK, Offload
<1>6. Pc(e) = "load" /\ Moved(e) \in Data => v = Moved(e)
  <2> SUFFICES ASSUME Pc(e) = "load", Moved(e) \in Data PROVE v = Moved(e)
    OBVIOUS
  <2>1. Reading(e) = m.src /\ Moved(e) = holds[e][m.src]
    BY <1>1, ContentAssumption DEF Reading, Moved
  <2>2. Arrived(e, m.src, holds[e][m.src])
    BY <1>1, <2>1, ContentAssumption DEF TransferInv, MoveInv, HeldOk
  <2> QED BY <1>2, <1>4, <2>1, <2>2 DEF Arrived
<1>7. CASE Reads(e, v, b)
  BY <1>3, <1>4, <1>5, <1>6, <1>7, ReadsStep DEF ReadSsd
<1>8. CASE staging' = [staging EXCEPT ![e]["ssd"] = Torn] /\ Raised(e) /\ UNCHANGED mem
  <2>1. /\ MoveInv(e)'
        /\ holds' \in [Engines -> [Place -> Data \cup {Free, Unsure}]]
        /\ task' \in [Engines -> Moves \cup {Resting, Starting, Exited}]
    BY <1>4, <1>8, RaisedStep DEF ReadSsd
  <2>2. TransfersTypeOK
    BY DEF TransferInv
  <2> QED BY <1>8, <2>1, <2>2 DEF TransfersTypeOK, Offload
<1> QED BY <1>2, <1>7, <1>8

(* What the server answers is what the client was told, so what a transfer *)
(* gets from the remote tier is what the manager counts on. *)
LEMMA EndGetStep ==
  ASSUME TransferInv, NEW e \in Engines, EndGet(e)
  PROVE  MoveInv(e)' /\ TransfersTypeOK'
<1>1. PICK m \in Moves : m = task[e] /\ m.src \in Place /\ m.dst \in Place
  BY TransferTypes, MoveTypes DEF EndGet
<1>2. /\ RemoteInv /\ TransfersTypeOK /\ CallOf(e) /\ HeldOk(e) /\ ClientInv(e) /\ Receive(e)
      /\ InRead(e) /\ Pc(e) = m.pc
  BY <1>1, TransferTypes DEF EndGet, MoveInv, Pc
<1>3. /\ call[e] # NoCall /\ call'[e] = NoCall /\ disturbed' = disturbed
      /\ call[e].op = "get" /\ call[e].id = Reading(e) /\ Reading(e) \in RemoteIds
  <2>1. call[e] # NoCall /\ call'[e] = NoCall /\ disturbed' = disturbed
    BY <1>2, ReceiveTrusts
  <2>2. call[e].op = "get" /\ call[e].id = Reading(e)
    BY <1>1, <1>2, <2>1, MoveTypes DEF CallOf, InRead, Pc
  <2> QED BY <1>2, <2>1, <2>2 DEF ClientInv, CallOK, WellFormed
<1>4. \A i \in RemoteIds : trusted'[<<e, i>>] = trusted[<<e, i>>]
  BY <1>2, <1>3, ReceiveTrusts
<1>5. CASE Answer(e).st = "ok"
  <2>1. PICK v : v = Answer(e).data
    OBVIOUS
  <2>2. v \in Data /\ Stores(<<e, Reading(e)>>, v)
    BY <1>2, <1>3, <1>5, <2>1 DEF Receive, ClientInv, AnswerOK
  <2>3. PICK b : b = [staging EXCEPT ![e]["remote"] = v]
    OBVIOUS
  <2>4. b \in [Engines -> [Offload -> Data \cup {Torn}]]
    BY <1>2, <2>2, <2>3 DEF TransfersTypeOK, Offload
  <2>5. Reads(e, v, b)
    BY <1>5, <2>1, <2>3 DEF EndGet
  <2>6. Pc(e) = "load" /\ Moved(e) \in Data => v = Moved(e)
    <3> SUFFICES ASSUME Pc(e) = "load", Moved(e) \in Data PROVE v = Moved(e)
      OBVIOUS
    <3>1. Reading(e) = m.src /\ Moved(e) = holds[e][m.src] /\ <<e, m.src>> \notin disturbed
      BY <1>1, ContentAssumption DEF Reading, Moved
    <3>2. Arrived(e, m.src, holds[e][m.src])
      BY <1>1, <1>2, <3>1, ContentAssumption DEF HeldOk
    <3>3. trusted[<<e, m.src>>] = Moved(e) /\ <<e, m.src>> \in Keys
      BY <1>3, <3>1, <3>2, PlaceTypes DEF Arrived, Vouched, Local, Keys
    <3> QED BY <1>2, <2>2, <3>1, <3>3 DEF RemoteInv, FreshUnlessLate, Stores
  <2> QED BY <1>2, <1>3, <1>4, <2>2, <2>4, <2>5, <2>6, ReadsStep
<1>6. CASE Answer(e).st # "ok"
  <2>1. Raised(e) /\ mem' = mem /\ staging' = staging
    BY <1>6 DEF EndGet
  <2>2. /\ MoveInv(e)'
        /\ holds' \in [Engines -> [Place -> Data \cup {Free, Unsure}]]
        /\ task' \in [Engines -> Moves \cup {Resting, Starting, Exited}]
    BY <1>3, <1>4, <2>1, RaisedStep
  <2> QED BY <1>2, <2>1, <2>2 DEF TransfersTypeOK
<1> QED BY <1>5, <1>6

(* What is stored is what was staged. *)
LEMMA WriteSsdStep ==
  ASSUME TransferInv, NEW e \in Engines, WriteSsd(e)
  PROVE  MoveInv(e)' /\ TransfersTypeOK'
<1> USE DEF remoteVars, server
<1>1. PICK m \in Moves : m = task[e] /\ m.src \in Place /\ m.dst \in Place
  BY TransferTypes, MoveTypes DEF WriteSsd
<1>2. /\ Pc(e) = "store" /\ PlaceTier[m.dst] = "ssd" /\ m.dst \in Local /\ staging' = staging
      /\ call' = call /\ trusted' = trusted /\ disturbed' = disturbed
  BY <1>1, PlaceTypes DEF WriteSsd
<1>3. call[e] = NoCall /\ TransfersTypeOK /\ Staged(e) /\ TaskOK(e)
  BY <1>1, <1>2, NoCallLocally DEF TransferInv, MoveInv
<1>4. PICK w \in Data \cup {Torn} :
        /\ mem' = [mem EXCEPT ![e][m.dst] = w]
        /\ \/ After(e) /\ w = staging[e]["ssd"]
           \/ Raised(e)
  <2>1. staging[e]["ssd"] \in Data \cup {Torn}
    BY <1>3 DEF TransfersTypeOK, Offload
  <2> QED BY <1>1, <2>1 DEF WriteSsd
<1>5. /\ mem' \in [Engines -> [Local -> Data \cup {Torn}]] /\ mem'[e][m.dst] = w
      /\ \A p \in Local : p # m.dst => mem'[e][p] = mem[e][p]
  BY <1>2, <1>3, <1>4 DEF TransfersTypeOK
<1>6. /\ MoveInv(e)'
      /\ holds' \in [Engines -> [Place -> Data \cup {Free, Unsure}]]
      /\ task' \in [Engines -> Moves \cup {Resting, Starting, Exited}]
  <2>1. CASE After(e) /\ w = staging[e]["ssd"]
    <3>1. Moved(e) \in Data => w = Moved(e)
      BY <1>1, <1>2, <1>3, <2>1 DEF Staged
    <3>2. Commit(e) \/ (holds' = holds /\ Goes(e, "check"))
      BY <2>1 DEF After
    <3> QED BY <1>1, <1>2, <1>3, <1>5, <3>1, <3>2, ArrivedStep
  <2>2. CASE Raised(e)
    <3>1. holds[e][m.dst] = Free
      BY <1>1, <1>3 DEF TaskOK
    <3> QED BY <1>2, <1>3, <1>5, <2>2, <3>1, RaisedStep
  <2> QED BY <1>4, <2>1, <2>2
<1> QED BY <1>2, <1>3, <1>5, <1>6 DEF TransfersTypeOK

LEMMA EndPutStep ==
  ASSUME TransferInv, NEW e \in Engines, EndPut(e)
  PROVE  MoveInv(e)' /\ TransfersTypeOK'
<1>1. PICK m \in Moves : m = task[e] /\ m.src \in Place /\ m.dst \in Place
  BY TransferTypes, MoveTypes DEF EndPut
<1>2. /\ RemoteInv /\ TransfersTypeOK /\ CallOf(e) /\ Staged(e) /\ TaskOK(e) /\ ClientInv(e)
      /\ Receive(e) /\ Pc(e) = "store" /\ m.pc = "store" /\ mem' = mem /\ staging' = staging
  BY <1>1, TransferTypes DEF EndPut, MoveInv, Pc
<1>3. /\ call[e] # NoCall /\ call'[e] = NoCall /\ disturbed' = disturbed
      /\ call[e].op = "put" /\ call[e].id = m.dst /\ m.dst \in RemoteIds
      /\ call[e].data \in Data /\ call[e].data = staging[e]["remote"]
  <2>1. call[e] # NoCall /\ call'[e] = NoCall /\ disturbed' = disturbed
    BY <1>2, ReceiveTrusts
  <2>2. call[e].op = "put" /\ call[e].id = m.dst /\ call[e].data = staging[e]["remote"]
    BY <1>1, <1>2, <2>1, MoveTypes DEF CallOf, InRead, Pc
  <2> QED BY <1>2, <2>1, <2>2 DEF ClientInv, CallOK, WellFormed
<1>4. \A i \in RemoteIds :
        trusted'[<<e, i>>] = IF Answer(e).st = "ok" /\ i = m.dst THEN call[e].data ELSE trusted[<<e, i>>]
  BY <1>2, <1>3, ReceiveTrusts
<1>5. /\ MoveInv(e)'
      /\ holds' \in [Engines -> [Place -> Data \cup {Free, Unsure}]]
      /\ task' \in [Engines -> Moves \cup {Resting, Starting, Exited}]
  <2>1. CASE Answer(e).st = "ok"
    <3>1. Commit(e) \/ (holds' = holds /\ Goes(e, "check"))
      BY <2>1 DEF EndPut, After
    <3>2. PlaceTier[m.dst] = "remote" /\ m.dst \notin Local
      BY <1>1, <1>3, PlaceTypes
    <3>3. Moved(e) \in Data => call[e].data = Moved(e)
      BY <1>1, <1>2, <1>3, <3>2 DEF Staged
    <3> QED BY <1>1, <1>2, <1>3, <1>4, <2>1, <3>1, <3>2, <3>3, ArrivedStep
  <2>2. CASE Answer(e).st # "ok"
    BY <1>2, <1>3, <1>4, <2>2, RaisedStep DEF EndPut
  <2> QED BY <2>1, <2>2
<1> QED BY <1>2, <1>5 DEF TransfersTypeOK

(* The steps that start a request. *)
LEMMA StartStep ==
  ASSUME TransferInv, NEW e \in Engines, Start(e) \/ StartClear(e) \/ Exit(e)
  PROVE  MoveInv(e)' /\ TransfersTypeOK'
<1> USE DEF transferVars
<1>1. RemoteInv /\ TransfersTypeOK /\ HeldOk(e)
  BY DEF TransferInv, MoveInv
<1>2. CASE Start(e)
  <2>1. PICK o \in Operations(e) : o.op = "health" /\ Call(e, o)
    BY <1>2 DEF Start
  <2>2. \A i \in RemoteIds : trusted'[<<e, i>>] = trusted[<<e, i>>]
    BY <1>1, <2>1, CallTrusts
  <2>3. /\ task' = task /\ holds' = holds /\ mem' = mem /\ staging' = staging
        /\ task[e] = Starting /\ call'[e] = o
    BY <1>1, <1>2, <2>1, CallTrusts DEF Start
  <2>4. \A p \in Place : holds'[e][p] # Free => Arrived(e, p, holds[e][p])'
    BY <1>1, <2>2, <2>3, HeldSame
  <2>5. CallOf(e)'
    BY <2>1, <2>3 DEF CallOf
  <2> QED BY <1>1, <2>3, <2>4, <2>5, RestStep DEF TransfersTypeOK
<1>3. CASE StartClear(e)
  <2>1. PICK o \in Operations(e) : o.op = "clear" /\ Call(e, o)
    BY <1>3 DEF StartClear
  <2>2. /\ task' = task /\ holds' = holds /\ mem' = mem /\ staging' = staging
        /\ task[e] = Resting /\ call'[e] = o /\ \A p \in Place : holds'[e][p] = Free
    BY <1>1, <1>3, <2>1, CallTrusts DEF StartClear, Ready
  <2>3. CallOf(e)'
    BY <2>1, <2>2 DEF CallOf
  <2> QED BY <1>1, <2>2, <2>3, RestStep DEF TransfersTypeOK
<1>4. CASE Exit(e)
  <2>1. PICK o \in Operations(e) : o.op = "close" /\ Call(e, o)
    BY <1>4 DEF Exit
  <2>2. /\ task' = [task EXCEPT ![e] = Exited] /\ staging' = staging
        /\ holds' = [holds EXCEPT ![e] = [p \in Place |-> Free]]
        /\ mem' = [mem EXCEPT ![e] = [p \in Local |-> IF PlaceTier[p] = "ssd" THEN Torn ELSE @[p]]]
        /\ call'[e] = o
    BY <1>1, <1>4, <2>1, CallTrusts DEF Exit
  <2>3. task'[e] = Exited /\ \A p \in Place : holds'[e][p] = Free
    BY <1>1, <2>2 DEF TransfersTypeOK
  <2>4. CallOf(e)'
    BY <2>1, <2>2, <2>3 DEF CallOf
  <2>5. mem' \in [Engines -> [Local -> Data \cup {Torn}]]
    BY <1>1, <2>2 DEF TransfersTypeOK
  <2> QED BY <1>1, <2>2, <2>3, <2>4, <2>5, RestStep DEF TransfersTypeOK
<1> QED BY <1>2, <1>3, <1>4

LEMMA StartGetStep ==
  ASSUME TransferInv, NEW e \in Engines, StartGet(e)
  PROVE  MoveInv(e)' /\ TransfersTypeOK'
<1>1. PICK m \in Moves : m = task[e] /\ m.src \in Place /\ m.dst \in Place
  BY TransferTypes, MoveTypes DEF StartGet
<1>2. RemoteInv /\ TransfersTypeOK /\ HeldOk(e) /\ TaskOK(e)
  BY DEF TransferInv, MoveInv
<1>3. PICK o \in Operations(e) : o.op = "get" /\ o.id = Reading(e) /\ Call(e, o)
  BY DEF StartGet
<1>4. /\ task' = task /\ holds' = holds /\ mem' = mem /\ InRead(e)
      /\ staging' = [staging EXCEPT ![e]["remote"] = Torn]
      /\ call'[e] = o /\ disturbed' = disturbed
      /\ \A i \in RemoteIds : trusted'[<<e, i>>] = trusted[<<e, i>>]
  BY <1>2, <1>3, CallTrusts DEF StartGet
<1>5. TransfersTypeOK'
  BY <1>2, <1>4 DEF TransfersTypeOK, Offload
<1>6. CallOf(e)' /\ TaskOK(e)' /\ Staged(e)'
  BY <1>2, <1>3, <1>4 DEF CallOf, InRead, Pc, Reading, TaskOK, Staged
<1>7. HeldOk(e)'
  <2>1. \A p \in Place : holds'[e][p] # Free => Arrived(e, p, holds[e][p])'
    BY <1>2, <1>4, HeldSame
  <2>2. Pc(e)' \in {"check", "mismatch"} => Arrived(e, task[e].dst, Moved(e))'
    BY <1>1, <1>2, <1>4, PlaceTypes DEF HeldOk, Arrived, Vouched, Moved, Pc
  <2> QED BY <2>1, <2>2 DEF HeldOk
<1> QED BY <1>5, <1>6, <1>7 DEF MoveInv

LEMMA StartPutStep ==
  ASSUME TransferInv, NEW e \in Engines, StartPut(e)
  PROVE  MoveInv(e)' /\ TransfersTypeOK'
<1> USE DEF transferVars
<1>1. PICK m \in Moves : m = task[e] /\ m.src \in Place /\ m.dst \in Place /\ m.pc = "store"
  BY TransferTypes, MoveTypes DEF StartPut, Pc
<1>2. RemoteInv /\ TransfersTypeOK /\ HeldOk(e) /\ TaskOK(e) /\ Staged(e) /\ Pc(e) = "store"
  BY DEF TransferInv, MoveInv, StartPut
<1>3. PICK o \in Operations(e) :
        o.op = "put" /\ o.id = m.dst /\ o.data = staging[e]["remote"] /\ Call(e, o)
  BY <1>1 DEF StartPut
<1>4. /\ task' = task /\ holds' = holds /\ mem' = mem /\ staging' = staging
      /\ call'[e] = o /\ disturbed' = disturbed /\ holds[e][m.dst] = Free
      /\ \A i \in RemoteIds : i # m.dst => trusted'[<<e, i>>] = trusted[<<e, i>>]
  BY <1>1, <1>2, <1>3, CallTrusts DEF StartPut, TaskOK
<1>5. TransfersTypeOK' /\ CallOf(e)' /\ TaskOK(e)' /\ Staged(e)'
  BY <1>1, <1>2, <1>3, <1>4 DEF TransfersTypeOK, CallOf, Pc, TaskOK, Staged, Moved
<1>6. \A p \in Place : holds'[e][p] # Free => Arrived(e, p, holds[e][p])'
  BY <1>2, <1>4, HeldSame
<1> QED BY <1>1, <1>2, <1>4, <1>5, <1>6 DEF MoveInv, HeldOk, Pc

(* The steps that end one outside a transfer, and those without a request. *)
LEMMA EndCallStep ==
  ASSUME TransferInv, NEW e \in Engines, EndStart(e) \/ EndClear(e)
  PROVE  MoveInv(e)' /\ TransfersTypeOK'
<1> USE DEF transferVars
<1>1. RemoteInv /\ TransfersTypeOK /\ HeldOk(e) /\ CallOf(e) /\ ClientInv(e) /\ Receive(e)
  BY TransferTypes DEF MoveInv, EndStart, EndClear
<1>2. /\ call[e] # NoCall /\ call'[e] = NoCall /\ holds' = holds /\ mem' = mem /\ staging' = staging
      /\ task' \in [Engines -> Moves \cup {Resting, Starting, Exited}]
  BY <1>1, ReceiveTrusts DEF EndStart, EndClear, TransfersTypeOK
<1>3. /\ task'[e] \in {Resting, Exited}
      /\ \A i \in RemoteIds : holds[e][i] # Free => trusted'[<<e, i>>] = trusted[<<e, i>>]
  <2>1. CASE EndStart(e)
    <3>1. task[e] = Starting /\ task'[e] = Resting
      BY <1>1, <2>1 DEF EndStart, TransfersTypeOK
    <3>2. call[e].op = "health"
      BY <1>1, <1>2, <3>1, MoveTypes DEF CallOf, InRead, Pc
    <3> QED BY <1>1, <3>1, <3>2, ReceiveTrusts
  <2>2. CASE EndClear(e)
    <3>1. call[e].op \in {"clear", "close"} /\ task' = task
      BY <2>2 DEF EndClear
    <3>2. task[e] \in {Resting, Exited} /\ InDoubt(e)
      BY <1>1, <1>2, <3>1 DEF CallOf, ClientInv, DoubtOK
    <3>3. ASSUME NEW i \in RemoteIds PROVE holds[e][i] = Free
      <4>1. i \in Place /\ i \notin Local /\ <<e, i>> \in KeysOf(e)
        BY PlaceTypes, KeyTypes DEF Local
      <4>2. trusted[<<e, i>>] = Unknown
        BY <3>2, <4>1 DEF InDoubt
      <4> QED BY <1>1, <4>1, <4>2, DataAssumption DEF HeldOk, Arrived, Vouched
    <3> QED BY <3>1, <3>2, <3>3
  <2> QED BY <2>1, <2>2
<1>4. CallOf(e)'
  BY <1>2 DEF CallOf
<1>5. \A p \in Place : holds'[e][p] # Free => Arrived(e, p, holds[e][p])'
  BY <1>1, <1>2, <1>3, HeldSame
<1> QED BY <1>1, <1>2, <1>3, <1>4, <1>5, RestStep DEF TransfersTypeOK

LEMMA ClientStepStep ==
  ASSUME TransferInv, NEW e \in Engines, ClientStep(e)
  PROVE  MoveInv(e)' /\ TransfersTypeOK'
<1> USE DEF server
<1>1. /\ RemoteInv /\ RemoteTypeOK /\ TransfersTypeOK /\ HeldOk(e) /\ MoveInv(e) /\ Client(e)
      /\ task[e] \in Moves \cup {Resting, Starting, Exited}
      /\ call[e] = NoCall \/ call[e] \in CallSet
  BY TransferTypes DEF MoveInv, ClientStep, RemoteInv
<1>2. holds' = holds /\ mem' = mem /\ staging' = staging /\ trusted' = trusted /\ disturbed' = disturbed
  BY DEF ClientStep, Client, Send, Retry, GiveUp
<1>3. CASE call'[e] = NoCall
  <2>1. PICK x \in {Resting, Exited} : task' = [task EXCEPT ![e] = x]
    BY <1>3 DEF ClientStep
  <2>2. task'[e] = x /\ task' \in [Engines -> Moves \cup {Resting, Starting, Exited}]
    BY <1>1, <2>1 DEF TransfersTypeOK
  <2>3. CallOf(e)'
    BY <1>3 DEF CallOf
  <2>4. \A p \in Place : holds'[e][p] # Free => Arrived(e, p, holds[e][p])'
    BY <1>1, <1>2, HeldSame
  <2> QED BY <1>1, <1>2, <2>2, <2>3, <2>4, RestStep DEF TransfersTypeOK
<1>4. CASE call'[e] # NoCall
  <2>1. task' = task
    BY <1>4 DEF ClientStep
  <2>2. /\ call[e] # NoCall /\ call'[e].op = call[e].op
        /\ call'[e].id = call[e].id /\ call'[e].data = call[e].data
    <3>1. call[e] # NoCall
      BY <1>1 DEF Client, Send, Retry, GiveUp
    <3>2. PICK o \in CallSet : o = call[e]
      BY <1>1, <3>1
    <3>3. \/ call'[e] = [o EXCEPT !.sent = TRUE]
          \/ call'[e] = [o EXCEPT !.attempt = 1, !.sent = FALSE]
      BY <1>1, <1>4, <3>2 DEF Client, Send, Retry, GiveUp, RemoteTypeOK
    <3> QED BY <3>1, <3>2, <3>3 DEF CallSet
  <2>3. disturbed \subseteq Keys
    BY <1>1 DEF RemoteTypeOK
  <2> QED BY <1>1, <1>2, <2>1, <2>2, <2>3, MoveFrame DEF TransfersTypeOK
<1> QED BY <1>3, <1>4

LEMMA ManagerStep ==
  ASSUME TransferInv, NEW e \in Engines,
         \/ Mismatch(e)
         \/ \E p \in Place, v \in Data : Compute(e, p, v)
         \/ \E p \in Place : Release(e, p)
         \/ \E src, dst \in Place : SwapBlocks(e, src, dst)
  PROVE  MoveInv(e)' /\ TransfersTypeOK'
<1> USE DEF remoteVars, server
<1>1. TransfersTypeOK /\ HeldOk(e)
  BY DEF TransferInv, MoveInv
<1>2. CASE Mismatch(e)
  <2>1. mem' = mem /\ staging' = staging /\ trusted' = trusted /\ call' = call /\ call[e] = NoCall
    BY <1>2, NoCallLocally DEF Mismatch
  <2>2. /\ MoveInv(e)'
        /\ holds' \in [Engines -> [Place -> Data \cup {Free, Unsure}]]
        /\ task' \in [Engines -> Moves \cup {Resting, Starting, Exited}]
    BY <1>2, <2>1, RaisedStep DEF Mismatch
  <2> QED BY <1>1, <2>1, <2>2 DEF TransfersTypeOK
<1>3. ASSUME NEW p \in Place, NEW v \in Data, Compute(e, p, v)
      PROVE  MoveInv(e)' /\ TransfersTypeOK'
  <2>1. /\ task' = task /\ task[e] = Resting /\ call' = call /\ call[e] = NoCall
        /\ staging' = staging /\ trusted' = trusted /\ p \in Local
        /\ mem' = [mem EXCEPT ![e][p] = v] /\ holds' = [holds EXCEPT ![e][p] = v]
    BY <1>3, PlaceTypes DEF Compute, Ready
  <2>2. /\ mem'[e][p] = v /\ holds'[e][p] = v
        /\ \A q \in Place : q # p => holds'[e][q] = holds[e][q]
        /\ \A q \in Local : q # p => mem'[e][q] = mem[e][q]
    BY <1>1, <2>1 DEF TransfersTypeOK
  <2>3. \A q \in Place : holds'[e][q] # Free => Arrived(e, q, holds[e][q])'
    BY <1>1, <2>1, <2>2 DEF HeldOk, Arrived, Vouched
  <2>4. CallOf(e)'
    BY <2>1 DEF CallOf
  <2>5. TransfersTypeOK'
    BY <1>1, <2>1 DEF TransfersTypeOK
  <2> QED BY <2>1, <2>3, <2>4, <2>5, RestStep
<1>4. ASSUME NEW p \in Place, Release(e, p)
      PROVE  MoveInv(e)' /\ TransfersTypeOK'
  <2>1. /\ task' = task /\ task[e] = Resting /\ call' = call /\ call[e] = NoCall
        /\ staging' = staging /\ trusted' = trusted /\ mem' = mem
        /\ holds' = [holds EXCEPT ![e][p] = Free]
    BY <1>4 DEF Release, Ready
  <2>2. holds'[e][p] = Free /\ \A q \in Place : q # p => holds'[e][q] = holds[e][q]
    BY <1>1, <2>1 DEF TransfersTypeOK
  <2>3. \A q \in Place : holds'[e][q] # Free => Arrived(e, q, holds[e][q])'
    BY <1>1, <2>1, <2>2 DEF HeldOk, Arrived, Vouched
  <2>4. CallOf(e)'
    BY <2>1 DEF CallOf
  <2>5. TransfersTypeOK'
    BY <1>1, <2>1 DEF TransfersTypeOK
  <2> QED BY <2>1, <2>3, <2>4, <2>5, RestStep
<1>5. ASSUME NEW src \in Place, NEW dst \in Place, SwapBlocks(e, src, dst)
      PROVE  MoveInv(e)' /\ TransfersTypeOK'
  <2> DEFINE n == [pc |-> FirstStep, src |-> src, dst |-> dst, expected |-> Torn]
  <2>1. n \in Moves /\ n.src = src /\ n.dst = dst /\ n.pc \in {"snapshot", "load"}
    BY DEF Moves, FirstStep
  <2>2. /\ task' = [task EXCEPT ![e] = n]
        /\ call' = call /\ call[e] = NoCall /\ staging' = staging /\ trusted' = trusted /\ mem' = mem
        /\ holds' = holds /\ holds[e][src] # Free /\ holds[e][dst] = Free
        /\ PlaceTier[src] # PlaceTier[dst]
    BY <1>5 DEF SwapBlocks, Ready
  <2> HIDE DEF n
  <2>3. task'[e] = n /\ TransfersTypeOK'
    BY <1>1, <2>1, <2>2 DEF TransfersTypeOK
  <2>4. TaskOK(e)' /\ CallOf(e)' /\ Staged(e)'
    BY <2>1, <2>2, <2>3 DEF TaskOK, CallOf, Staged, Pc
  <2>5. \A p \in Place : holds'[e][p] # Free => Arrived(e, p, holds[e][p])'
    BY <1>1, <2>2, HeldSame
  <2> QED BY <2>1, <2>3, <2>4, <2>5 DEF MoveInv, HeldOk, Pc
<1> QED BY <1>2, <1>3, <1>4, <1>5

LEMMA TransfersInit_Inv == TransfersInit => TransferInv
<1> SUFFICES ASSUME TransfersInit PROVE TransferInv
  OBVIOUS
<1>1. RemoteInv /\ TransfersTypeOK
  BY RemoteInit_Inv DEF TransfersInit, TransfersTypeOK, Offload
<1>2. ASSUME NEW e \in Engines PROVE MoveInv(e)
  <2>1. task[e] = Starting /\ call[e] = NoCall /\ \A p \in Place : holds[e][p] = Free
    BY DEF TransfersInit, RemoteInit
  <2> QED BY <2>1, MoveTypes DEF MoveInv, TaskOK, CallOf, HeldOk, Staged, Pc
<1> QED BY <1>1, <1>2 DEF TransferInv

LEMMA TransfersStep ==
  ASSUME TransferInv, [TransfersNext]_<<remoteVars, transferVars>>
  PROVE  TransferInv'
<1>1. RemoteInv'
  BY TransfersIsRemote, RemoteStep DEF TransferInv
<1>2. CASE Server /\ UNCHANGED transferVars
  BY <1>2, ServerStep
<1>3. ASSUME NEW e \in Engines, Engine(e) PROVE TransferInv'
  <2>1. MoveInv(e)' /\ TransfersTypeOK'
    BY <1>3, StartStep, EndCallStep, ManagerStep, ReadLocalStep, ReadSsdStep, StartGetStep,
       EndGetStep, WriteSsdStep, StartPutStep, EndPutStep, ClientStepStep DEF Engine, Swap
  <2>2. ASSUME NEW d \in Engines \ {e} PROVE MoveInv(d)'
    <3>1. disturbed \subseteq Keys
      BY DEF TransferInv, RemoteInv, RemoteTypeOK
    <3> QED BY <1>3, <3>1, EngineKeeps, TransferTypes, MoveFrame
  <2> QED BY <1>1, <2>1, <2>2 DEF TransferInv
<1>4. CASE UNCHANGED <<remoteVars, transferVars>>
  <2>1. /\ task' = task /\ holds' = holds /\ mem' = mem /\ staging' = staging
        /\ call' = call /\ trusted' = trusted /\ disturbed' = disturbed
    BY <1>4 DEF remoteVars, transferVars
  <2>2. disturbed \subseteq Keys
    BY DEF TransferInv, RemoteInv, RemoteTypeOK
  <2>3. \A d \in Engines : MoveInv(d)'
    BY <2>1, <2>2, TransferTypes, MoveFrame
  <2> QED BY <1>1, <2>1, <2>3 DEF TransferInv, TransfersTypeOK
<1> QED BY <1>2, <1>3, <1>4 DEF TransfersNext

(* The inductive invariant of the transfers. *)
THEOREM TransferInvariance == TransfersSpec => []TransferInv
BY TransfersInit_Inv, TransfersStep, PTL DEF TransfersSpec

(* Whatever fails while swap_blocks runs (short reads and writes, errors,  *)
(* retries, a full or restarted server), a block the manager counts on has *)
(* the content it should have, unless a request nobody waits for or a      *)
(* restart changed it on the server.                                       *)
THEOREM ContentIntact == TransfersSpec => []Intact
<1>1. ASSUME TransferInv PROVE Intact
  <2> SUFFICES ASSUME NEW e \in Engines, NEW p \in Place, holds[e][p] \in Data
               PROVE  Content(e, p) = holds[e][p] \/ <<e, p>> \in disturbed
    BY DEF Intact
  <2>1. Arrived(e, p, holds[e][p]) /\ FreshUnlessLate
    BY <1>1, ContentAssumption DEF TransferInv, RemoteInv, MoveInv, HeldOk
  <2>2. CASE p \in Local
    BY <2>1, <2>2 DEF Arrived, Content
  <2>3. CASE p \notin Local
    <3>1. <<e, p>> \in Keys /\ trusted[<<e, p>>] = holds[e][p]
      BY <2>1, <2>3, PlaceTypes DEF Arrived, Vouched, Keys
    <3> QED BY <2>1, <2>3, <3>1 DEF FreshUnlessLate, Content
  <2> QED BY <2>2, <2>3
<1> QED BY <1>1, TransferInvariance, PTL

(* The one staging buffer of a tier never mixes a transfer's source with   *)
(* its destination: what _transfer_block stores is what the source holds.  *)
THEOREM StagingRight == TransfersSpec => []StagedRight
<1>1. ASSUME TransferInv PROVE StagedRight
  BY <1>1 DEF TransferInv, MoveInv, StagedRight
<1> QED BY <1>1, TransferInvariance, PTL

(* The properties of the remote tier hold of it in the transfers' use.     *)
THEOREM TransfersRemote == TransfersSpec => [](UsedExact /\ FreshUnlessLate /\ WedgedOnlyByClear)
<1>1. ASSUME TransferInv PROVE UsedExact /\ FreshUnlessLate /\ WedgedOnlyByClear
  BY <1>1, RemoteConsequences DEF TransferInv
<1> QED BY <1>1, TransferInvariance, PTL
=============================================================================
