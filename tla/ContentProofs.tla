---------------------------- MODULE ContentProofs ----------------------------
(***************************************************************************)
(* Theorems about the contents of the blocks that BlockManager keeps: the  *)
(* prefix index is sound, a scheduled request writes blocks of its own,    *)
(* every request finds the KV entries of its own tokens, and the manager   *)
(* implements KVView.  They rest on BlockInv, which adds ContentInv to the *)
(* invariant of BlockManagerProofs.                                        *)
(***************************************************************************)
EXTENDS BlockManagerProofs

(***************************************************************************)
(* Sequences: prefixes of a text.                                          *)
(***************************************************************************)
LEMMA PrefixOf ==
  ASSUME NEW S, NEW x \in Seq(S), NEW m \in Nat, m <= Len(x)
  PROVE  /\ SubSeq(x, 1, m) \in Seq(S) /\ Len(SubSeq(x, 1, m)) = m
         /\ \A p \in 1 .. m : SubSeq(x, 1, m)[p] = x[p]
OBVIOUS

LEMMA PrefixOfPrefix ==
  ASSUME NEW S, NEW x \in Seq(S), NEW m \in Nat, m <= Len(x), NEW k \in Nat, k <= m
  PROVE  SubSeq(SubSeq(x, 1, m), 1, k) = SubSeq(x, 1, k)
OBVIOUS

LEMMA PrefixesExtend ==
  ASSUME NEW S, NEW x \in Seq(S), NEW y \in Seq(S), NEW m \in Nat, m <= Len(x), m <= Len(y),
         SubSeq(x, 1, m) = SubSeq(y, 1, m), NEW k \in Nat, k <= m
  PROVE  SubSeq(x, 1, k) = SubSeq(y, 1, k)
<1>1. SubSeq(SubSeq(x, 1, m), 1, k) = SubSeq(x, 1, k)
  BY PrefixOfPrefix
<1>2. SubSeq(SubSeq(y, 1, m), 1, k) = SubSeq(y, 1, k)
  BY PrefixOfPrefix
<1> QED BY <1>1, <1>2

LEMMA PrefixOfAppend ==
  ASSUME NEW S, NEW x \in Seq(S), NEW e \in S, NEW m \in Nat, m <= Len(x)
  PROVE  SubSeq(Append(x, e), 1, m) = SubSeq(x, 1, m)
OBVIOUS

LEMMA WholePrefix ==
  ASSUME NEW S, NEW x \in Seq(S) PROVE SubSeq(x, 1, Len(x)) = x
OBVIOUS

LEMMA PrefixChain ==
  ASSUME NEW S, NEW x \in Seq(S), NEW m \in Nat, NEW k \in Nat, m <= k, k <= Len(x)
  PROVE  SubSeq(x, 1, m) \o SubSeq(x, m + 1, k) = SubSeq(x, 1, k)
OBVIOUS

(***************************************************************************)
(* Which blocks m tokens fill, and which they reach.                       *)
(***************************************************************************)
LEMMA SpanOf ==
  ASSUME NEW m \in Nat, NEW b \in Nat, b > 1
  PROVE  /\ m \div b \in Nat /\ (m + b - 1) \div b \in Nat
         /\ m \div b <= (m + b - 1) \div b
         /\ (m + b - 1) \div b <= m \div b + 1
         /\ m > 0 => (m + b - 1) \div b = (m - 1) \div b + 1
         /\ \A i \in Nat : i <= m \div b <=> i * b <= m
OBVIOUS

LEMMA SpanMonotone ==
  ASSUME NEW m \in Nat, NEW k \in Nat, m <= k, NEW b \in Nat, b > 1
  PROVE  m \div b <= k \div b /\ (m + b - 1) \div b <= (k + b - 1) \div b
OBVIOUS

LEMMA FilledBlocks ==
  ASSUME NEW n \in Nat, NEW b \in Nat, b > 1
  PROVE  n * b \in Nat /\ (n * b) \div b = n /\ (n * b + b - 1) \div b = n
OBVIOUS

(***************************************************************************)
(* The content c of the i-th block of a request holds its text x up to m.  *)
(***************************************************************************)
Fits(c, i, x, m) ==
  LET upTo == Min2(m, i * BlockSize)
  IN /\ Len(c) >= upTo /\ Len(c) <= i * BlockSize
     /\ SubSeq(c, 1, upTo) = SubSeq(x, 1, upTo)

LEMMA HoldsLess ==
  ASSUME NEW c \in Seq(Token), NEW i \in Nat, NEW x \in Seq(Token), NEW m \in Nat, NEW k \in Nat, k <= m,
         m <= Len(x), BlockSize \in Nat, Fits(c, i, x, m)
  PROVE  Fits(c, i, x, k)
<1> DEFINE u == Min2(m, i * BlockSize)
           v == Min2(k, i * BlockSize)
<1>1. i * BlockSize \in Nat
  OBVIOUS
<1>2. u \in Nat /\ v \in Nat /\ v <= u /\ u <= Len(x)
  BY <1>1 DEF Min2
<1>3. Len(c) >= u /\ Len(c) <= i * BlockSize /\ SubSeq(c, 1, u) = SubSeq(x, 1, u)
  BY DEF Fits
<1>4. Len(c) \in Nat
  OBVIOUS
<1> HIDE DEF u, v
<1>5. SubSeq(c, 1, v) = SubSeq(x, 1, v)
  BY <1>2, <1>3, <1>4, PrefixesExtend
<1>6. Len(c) >= v
  BY <1>2, <1>3, <1>4
<1> QED BY <1>3, <1>5, <1>6 DEF Fits, v

LEMMA HoldsAppend ==
  ASSUME NEW c \in Seq(Token), NEW i \in Nat, NEW x \in Seq(Token), NEW e \in Token, NEW m \in Nat,
         m <= Len(x), BlockSize \in Nat, Fits(c, i, x, m)
  PROVE  Fits(c, i, Append(x, e), m)
<1> DEFINE u == Min2(m, i * BlockSize)
<1>1. u \in Nat /\ u <= Len(x)
  BY DEF Min2
<1> HIDE DEF u
<1>2. SubSeq(Append(x, e), 1, u) = SubSeq(x, 1, u)
  BY <1>1, PrefixOfAppend
<1> QED BY <1>2 DEF Fits, u

(* A full block holds exactly the prefix that ends in it, and conversely.  *)
LEMMA FullHolds ==
  ASSUME NEW c \in Seq(Token), NEW i \in Nat, NEW x \in Seq(Token), NEW m \in Nat, m <= Len(x),
         BlockSize \in Nat, i * BlockSize <= m
  PROVE  Fits(c, i, x, m) <=> c = SubSeq(x, 1, i * BlockSize)
<1> DEFINE u == i * BlockSize
<1>1. u \in Nat /\ Min2(m, u) = u /\ u <= Len(x)
  BY DEF Min2
<1>2. Len(SubSeq(x, 1, u)) = u
  BY <1>1, PrefixOf
<1>3. SubSeq(SubSeq(x, 1, u), 1, u) = SubSeq(x, 1, u)
  BY <1>1, PrefixOfPrefix
<1>4. SubSeq(c, 1, Len(c)) = c
  BY WholePrefix
<1> HIDE DEF u
<1>5. Fits(c, i, x, m) <=> Len(c) >= u /\ Len(c) <= u
                                  /\ SubSeq(c, 1, u) = SubSeq(x, 1, u)
  BY <1>1 DEF Fits, u
<1>6. CASE Len(c) = u
  BY <1>1, <1>2, <1>4, <1>5, <1>6 DEF u
<1>7. CASE Len(c) # u
  BY <1>1, <1>2, <1>5, <1>7 DEF u
<1> QED BY <1>6, <1>7

(* What the model run leaves in a block it wrote. *)
LEMMA WrittenHolds ==
  ASSUME NEW c, NEW i \in Nat, NEW x \in Seq(Token), NEW m \in Nat, m <= Len(x),
         BlockSize \in Nat, c = SubSeq(x, 1, Min2(m, i * BlockSize))
  PROVE  Fits(c, i, x, m)
<1> DEFINE u == Min2(m, i * BlockSize)
<1>1. u \in Nat /\ u <= Len(x) /\ u <= i * BlockSize
  BY DEF Min2
<1>2. Len(SubSeq(x, 1, u)) = u
  BY <1>1, PrefixOf
<1>3. SubSeq(SubSeq(x, 1, u), 1, u) = SubSeq(x, 1, u)
  BY <1>1, PrefixOfPrefix
<1> HIDE DEF u
<1>4. c = SubSeq(x, 1, u)
  BY DEF u
<1> QED BY <1>1, <1>2, <1>3, <1>4 DEF Fits, u

-----------------------------------------------------------------------------
(***************************************************************************)
(* What a request's blocks contain, before and after a step.               *)
(***************************************************************************)
LEMMA ContentParts ==
  ASSUME NEW s \in Seqs
  PROVE  ContentOf(s) <=>
           /\ \A i \in 1 .. numCached[s] \div BlockSize : blockHash[table[s][i]] = Prefix(s, i)
           /\ \A i \in DOMAIN table[s] :
                i > numCached[s] \div BlockSize => blockHash[table[s][i]] = NoHash
           /\ \A i \in 1 .. BlocksSpanned(Done(s)) :
                Fits(kv[table[s][i]], i, tokens[s], Done(s))
BY DEF ContentOf, HoldsPrefix, Fits

LEMMA ContentNext ==
  ASSUME NEW s \in Seqs,
         \A i \in 1 .. numCached'[s] \div BlockSize :
           blockHash'[table'[s][i]] = SubSeq(tokens'[s], 1, i * BlockSize),
         \A i \in DOMAIN table'[s] :
           i > numCached'[s] \div BlockSize => blockHash'[table'[s][i]] = NoHash,
         \A i \in 1 .. BlocksSpanned(Done(s)') :
           Fits(kv'[table'[s][i]], i, tokens'[s], Done(s)')
  PROVE  ContentOf(s)'
BY DEF ContentOf, HoldsPrefix, Fits, Prefix, BlocksSpanned

(* The tokens that went through the model lie in the request's table, and  *)
(* the blocks a scheduled request writes come after its full cached ones.  *)
LEMMA DoneFacts ==
  ASSUME IndInv, NEW s \in Seqs
  PROVE  /\ Done(s) \in Nat /\ numCached[s] <= Done(s) /\ Done(s) <= Len(tokens[s])
         /\ BlocksSpanned(Done(s)) \in Nat /\ BlocksSpanned(Done(s)) <= Len(table[s])
         /\ numCached[s] \div BlockSize \in Nat
         /\ numCached[s] \div BlockSize <= BlocksSpanned(Done(s))
<1>1. /\ tokens[s] \in Seq(Token) /\ Len(tokens[s]) \in Nat
      /\ numCached[s] \in Nat /\ numSched[s] \in Nat /\ table[s] \in Seq(Block)
      /\ BlockSize \in Nat /\ BlockSize > 1 /\ Shape(s) /\ EndOf(s) \in Nat
      /\ EndOf(s) = numCached[s] + numSched[s] /\ Len(table[s]) \in Nat
  BY IndInvParts, SeqTypes DEF EndOf
<1>2. Done(s) \in Nat /\ numCached[s] <= Done(s) /\ Done(s) <= EndOf(s)
      /\ EndOf(s) <= Len(tokens[s]) /\ (numSched[s] = 0 => Done(s) = numCached[s])
  BY <1>1 DEF Done, Shape, ScheduleOf
<1>3. /\ BlocksSpanned(Done(s)) \in Nat /\ BlocksSpanned(numCached[s]) \in Nat
      /\ numCached[s] \div BlockSize \in Nat
      /\ numCached[s] \div BlockSize <= BlocksSpanned(numCached[s])
      /\ BlocksSpanned(numCached[s]) <= BlocksSpanned(Done(s))
      /\ BlocksSpanned(Done(s)) <= NumBlocks(s) /\ NumBlocks(s) \in Nat
  <2>1. /\ BlocksSpanned(Done(s)) \in Nat /\ BlocksSpanned(numCached[s]) \in Nat
        /\ numCached[s] \div BlockSize \in Nat /\ NumBlocks(s) \in Nat
        /\ numCached[s] \div BlockSize <= BlocksSpanned(numCached[s])
    BY <1>1, <1>2, SpanOf DEF BlocksSpanned, NumBlocks
  <2>2. BlocksSpanned(numCached[s]) <= BlocksSpanned(Done(s))
    BY <1>1, <1>2, SpanMonotone DEF BlocksSpanned
  <2>3. BlocksSpanned(Done(s)) <= NumBlocks(s)
    <3>1. Done(s) <= Len(tokens[s])
      BY <1>1, <1>2
    <3> QED BY <1>1, <1>2, <3>1, SpanMonotone DEF BlocksSpanned, NumBlocks
  <2> QED BY <2>1, <2>2, <2>3
<1>4. BlocksSpanned(Done(s)) <= Len(table[s])
  <2>1. CASE Len(table[s]) = NumBlocks(s)
    BY <1>3, <2>1
  <2>2. CASE Len(table[s]) # NumBlocks(s)
    <3>1. numSched[s] = 0
      BY <1>1, <2>2 DEF Shape, CoverOf, ScheduleOf, Active
    <3>2. Done(s) = numCached[s]
      BY <1>2, <3>1
    <3>3. CASE Active(s)
      BY <1>1, <3>1, <3>2, <3>3 DEF Shape, CoverOf
    <3>4. CASE ~ Active(s)
      <4>1. Len(table[s]) = 0
        BY <1>1, <2>2, <3>4 DEF Shape, CoverOf, Active, IndInv, TypeOK
      <4>2. numCached[s] = 0
        BY <1>1, <4>1 DEF Shape, ScheduleOf
      <4>3. BlocksSpanned(0) = 0
        BY <1>1 DEF BlocksSpanned
      <4> QED BY <1>1, <3>2, <4>1, <4>2, <4>3
    <3> QED BY <3>3, <3>4
  <2> QED BY <2>1, <2>2
<1> QED BY <1>1, <1>2, <1>3, <1>4

(* Nothing that a request or its blocks contain changed. *)
LEMMA ContentFrame ==
  ASSUME IndInv, NEW t \in Seqs, ContentOf(t),
         tokens'[t] = tokens[t], numCached'[t] = numCached[t], table'[t] = table[t],
         Done(t)' = Done(t),
         \A b \in Held(t) : blockHash'[b] = blockHash[b] /\ kv'[b] = kv[b]
  PROVE  ContentOf(t)'
<1>1. /\ table[t] \in Seq(Block)
      /\ BlocksSpanned(Done(t)) \in Nat /\ BlocksSpanned(Done(t)) <= Len(table[t])
      /\ numCached[t] \div BlockSize \in Nat
      /\ numCached[t] \div BlockSize <= BlocksSpanned(Done(t))
  BY DoneFacts, IndInvParts, SeqTypes
<1>2. \A i \in DOMAIN table[t] : /\ blockHash'[table[t][i]] = blockHash[table[t][i]]
                                /\ kv'[table[t][i]] = kv[table[t][i]]
  BY DEF Held
<1>3. /\ 1 .. numCached[t] \div BlockSize \subseteq DOMAIN table[t]
      /\ 1 .. BlocksSpanned(Done(t)) \subseteq DOMAIN table[t]
  BY <1>1
<1> QED BY <1>2, <1>3, ContentParts, ContentNext DEF Prefix

-----------------------------------------------------------------------------
(***************************************************************************)
(* Who can touch a block: an unhashed block of a table has one owner and   *)
(* no index entry, a free block has neither.                               *)
(***************************************************************************)
LEMMA UnhashedOwn ==
  ASSUME IndInv, SharedHashed, NEW s \in Seqs, NEW b \in Held(s), blockHash[b] = NoHash
  PROVE  refCount[b] = 1 /\ \A t \in Seqs : b \in Held(t) => t = s
<1>1. b \in Block
  BY IndInvParts, SeqTypes DEF Held
<1>2. refCount[b] \in Nat /\ refCount[b] <= 1
  BY <1>1 DEF SharedHashed, IndInv, TypeOK
<1>3. IsFiniteSet(Holders(b)) /\ Cardinality(Holders(b)) \in Nat /\ Cardinality(Holders(b)) # 0
  BY HoldersFinite, HoldersEmpty
<1>4. refCount[b] = Cardinality(Holders(b)) + InFlight(b) /\ InFlight(b) \in {0, 1}
  BY <1>1 DEF IndInv, RefCountsExact, InFlight
<1>5. Cardinality(Holders(b)) = 1 /\ refCount[b] = 1
  BY <1>2, <1>3, <1>4
<1>6. PICK x : Holders(b) = {x}
  BY <1>3, <1>5, FS_Singleton
<1> QED BY <1>5, <1>6 DEF Holders

LEMMA FreeUnheld ==
  ASSUME IndInv, NEW b \in free
  PROVE  b \in Block /\ b \notin PlanTargets /\ \A t \in Seqs : b \notin Held(t)
<1>1. b \in Block /\ refCount[b] = 0
  BY DEF IndInv, PoolPartition
<1>2. refCount[b] = Cardinality(Holders(b)) + InFlight(b) /\ InFlight(b) \in {0, 1}
      /\ Cardinality(Holders(b)) \in Nat
  BY <1>1, HoldersFinite DEF IndInv, RefCountsExact, InFlight
<1>3. Cardinality(Holders(b)) = 0 /\ InFlight(b) = 0
  BY <1>1, <1>2
<1> QED BY <1>1, <1>3, HoldersEmpty DEF InFlight

LEMMA UnhashedUnindexed ==
  ASSUME PrefixIndexSound, NoHash \notin DOMAIN hashToBlock, NEW b, blockHash[b] = NoHash
  PROVE  b \notin ImageOf(hashToBlock)
BY DEF PrefixIndexSound, ImageOf

Indexing == PrefixIndexSound /\ NoHash \notin DOMAIN hashToBlock

(* Popped blocks lose their index entries, so they may be overwritten. *)
LEMMA PoppedIndex ==
  ASSUME TypeOK, Indexing, NEW popped, hashToBlock' = IndexWithout(popped),
         \A b \in Block \ popped : blockHash'[b] = blockHash[b] /\ kv'[b] = kv[b]
  PROVE  /\ Indexing'
         /\ \A b \in ImageOf(hashToBlock') : b \in ImageOf(hashToBlock) /\ b \notin popped
<1>1. ASSUME NEW h \in DOMAIN hashToBlock'
      PROVE  /\ h \in DOMAIN hashToBlock /\ hashToBlock'[h] = hashToBlock[h]
             /\ hashToBlock[h] \in Block \ popped
  BY <1>1 DEF IndexWithout, Indexing, PrefixIndexSound, TypeOK, ImageOf
<1> QED BY <1>1 DEF Indexing, PrefixIndexSound, ImageOf

(* The index and the blocks it names are as before. *)
LEMMA IndexFrame ==
  ASSUME Indexing, hashToBlock' = hashToBlock,
         \A b \in ImageOf(hashToBlock) : blockHash'[b] = blockHash[b] /\ kv'[b] = kv[b]
  PROVE  Indexing'
BY DEF Indexing, PrefixIndexSound, ImageOf

LEMMA ContentInvParts ==
  ContentInv <=> /\ \A s \in Seqs : ContentOf(s)
                 /\ SharedHashed /\ PlanContent /\ Indexing
BY DEF ContentInv, Indexing

LEMMA ContentInvNext ==
  ASSUME \A s \in Seqs : ContentOf(s)', SharedHashed', PlanContent', Indexing'
  PROVE  ContentInv'
BY DEF ContentInv, Indexing

LEMMA QuietContentNext == ASSUME plan' = NoPlan PROVE PlanContent'
BY DEF PlanContent, NoPlan

(* Steps that change no block: only the text, the schedule or the status   *)
(* of a request, whose completed part is the same.                         *)
LEMMA BlocksUntouched ==
  ASSUME BlockInv, UNCHANGED <<table, blockHash, kv, refCount, hashToBlock, plan, numCached>>,
         \A t \in Seqs : tokens'[t] = tokens[t] /\ Done(t)' = Done(t)
  PROVE  ContentInv'
<1>1. ASSUME NEW t \in Seqs PROVE ContentOf(t)'
  BY ContentFrame DEF BlockInv, ContentInv
<1>2. SharedHashed' /\ PlanContent' /\ Indexing'
  BY DEF BlockInv, ContentInv, SharedHashed, PlanContent, Indexing, PrefixIndexSound
<1> QED BY <1>1, <1>2, ContentInvNext

LEMMA AddContent == ASSUME BlockInv, NEW s \in Seqs, Add(s) PROVE ContentInv'
BY BlocksUntouched DEF Add, placeVars, poolVars, Done, EndOf

LEMMA PrefillMoreContent ==
  ASSUME BlockInv, NEW s \in Seqs, NEW c, PrefillMore(s, c) PROVE ContentInv'
<1>1. s \notin computed /\ \A t \in Seqs \ {s} : numSched'[t] = numSched[t]
  BY DEF PrefillMore, ScheduleChunk, BlockInv, IndInv, ScheduleSound, ScheduleOf, TypeOK
<1>2. \A t \in Seqs : Done(t)' = Done(t)
  BY <1>1 DEF PrefillMore, Done, EndOf
<1> QED BY <1>2, BlocksUntouched DEF PrefillMore, placeVars, poolVars

LEMMA ClearContent == ASSUME BlockInv, ClearPrefixCache PROVE ContentInv'
<1> USE DEF ClearPrefixCache, Quiet, seqVars, placeVars
<1>1. ASSUME NEW t \in Seqs PROVE ContentOf(t)'
  <2>1. table[t] \in Seq(Block) /\ Len(table[t]) = 0
    BY IndInvParts, SeqTypes DEF BlockInv, Shape, CoverOf
  <2>2. Held(t) = {}
    BY <2>1 DEF Held
  <2> QED BY <2>2, ContentFrame DEF BlockInv, ContentInv, Done, EndOf
<1>2. SharedHashed'
  <2>1. ASSUME NEW b \in Block, refCount[b] > 1 PROVE FALSE
    <3>1. b \notin free /\ TierOf[b] = GPU
      BY <2>1 DEF BlockInv, IndInv, PoolPartition, TypeOK
    <3> QED BY <3>1 DEF BlockInv, IndInv, PoolPartition
  <2> QED BY <2>1 DEF SharedHashed
<1>3. Indexing' /\ PlanContent'
  BY QuietContentNext DEF Indexing, PrefixIndexSound
<1> QED BY <1>1, <1>2, <1>3, ContentInvNext

-----------------------------------------------------------------------------
(***************************************************************************)
(* The model run.                                                          *)
(***************************************************************************)
(* What a scheduled request writes comes after its full cached blocks and  *)
(* reaches the blocks its computed tokens need.                            *)
LEMMA WrittenFacts ==
  ASSUME IndInv, NEW s \in Seqs, numSched[s] > 0
  PROVE  /\ \A i \in WrittenIdx(s) : /\ i \in DOMAIN table[s]
                                     /\ i > numCached[s] \div BlockSize
                                     /\ i <= BlocksSpanned(EndOf(s))
         /\ \A i \in 1 .. BlocksSpanned(EndOf(s)) :
              i \notin WrittenIdx(s) => i <= numCached[s] \div BlockSize
         /\ BlocksSpanned(EndOf(s)) \in Nat /\ BlocksSpanned(EndOf(s)) <= Len(table[s])
         /\ EndOf(s) \in Nat /\ EndOf(s) <= Len(tokens[s]) /\ numCached[s] <= EndOf(s)
         /\ numCached[s] \div BlockSize \in Nat
<1>1. /\ Len(tokens[s]) \in Nat /\ numCached[s] \in Nat /\ numSched[s] \in Nat
      /\ table[s] \in Seq(Block) /\ BlockSize \in Nat /\ BlockSize > 1 /\ Shape(s)
      /\ EndOf(s) \in Nat /\ EndOf(s) = numCached[s] + numSched[s] /\ Len(table[s]) \in Nat
  BY IndInvParts, SeqTypes DEF EndOf
<1>2. /\ EndOf(s) <= Len(tokens[s]) /\ numCached[s] <= EndOf(s)
      /\ Len(table[s]) = NumBlocks(s) /\ EndOf(s) > 0
  BY <1>1 DEF Shape, ScheduleOf, CoverOf, Active
<1>3. /\ BlocksSpanned(EndOf(s)) \in Nat /\ NumBlocks(s) \in Nat
      /\ numCached[s] \div BlockSize \in Nat
      /\ BlocksSpanned(EndOf(s)) = (EndOf(s) - 1) \div BlockSize + 1
  BY <1>1, <1>2, SpanOf DEF BlocksSpanned, NumBlocks
<1>4. BlocksSpanned(EndOf(s)) <= NumBlocks(s)
  BY <1>1, <1>2, SpanMonotone DEF BlocksSpanned, NumBlocks
<1>5. CASE numSched[s] = 1 /\ EndOf(s) = Len(tokens[s])
  <2>1. WrittenIdx(s) = {Len(table[s])} /\ Len(table[s]) = BlocksSpanned(EndOf(s))
    BY <1>2, <1>5 DEF WrittenIdx, BlocksSpanned, NumBlocks
  <2>2. BlocksSpanned(EndOf(s)) = numCached[s] \div BlockSize + 1
    BY <1>1, <1>3, <1>5
  <2> HIDE DEF BlocksSpanned
  <2>3. ASSUME NEW i PROVE i \in WrittenIdx(s) <=> i = BlocksSpanned(EndOf(s))
    BY <2>1
  <2> DEFINE c == numCached[s] \div BlockSize
  <2>4. c \in Nat /\ BlocksSpanned(EndOf(s)) = c + 1
    BY <1>3, <2>2
  <2> HIDE DEF c
  <2>5. /\ \A i \in WrittenIdx(s) : i \in 1 .. Len(table[s]) /\ i > c /\ i <= BlocksSpanned(EndOf(s))
        /\ \A i \in 1 .. BlocksSpanned(EndOf(s)) : i \notin WrittenIdx(s) => i <= c
    BY <1>1, <2>1, <2>3, <2>4
  <2> QED BY <1>1, <1>2, <1>3, <1>4, <2>5 DEF c
<1>6. CASE ~ (numSched[s] = 1 /\ EndOf(s) = Len(tokens[s]))
  <2>1. WrittenIdx(s) = numCached[s] \div BlockSize + 1 .. BlocksSpanned(EndOf(s))
    BY <1>6 DEF WrittenIdx
  <2> DEFINE c == numCached[s] \div BlockSize
             n == BlocksSpanned(EndOf(s))
  <2>2. c \in Nat /\ n \in Nat /\ n <= Len(table[s]) /\ WrittenIdx(s) = c + 1 .. n
    BY <1>2, <1>3, <1>4, <2>1
  <2> HIDE DEF c, n
  <2>3. /\ \A i \in WrittenIdx(s) : i \in 1 .. Len(table[s]) /\ i > c /\ i <= n
        /\ \A i \in 1 .. n : i \notin WrittenIdx(s) => i <= c
    BY <1>1, <2>2
  <2> QED BY <1>1, <1>2, <2>2, <2>3 DEF c, n
<1> QED BY <1>5, <1>6

LEMMA ViewFromContent ==
  ASSUME BlockInv, NEW s \in Seqs PROVE ViewOk(s)
<1>1. /\ numCached[s] \in Nat /\ numCached[s] <= Done(s) /\ Done(s) \in Nat
      /\ Done(s) <= Len(tokens[s]) /\ table[s] \in Seq(Block) /\ tokens[s] \in Seq(Token)
      /\ BlocksSpanned(Done(s)) <= Len(table[s]) /\ BlocksSpanned(Done(s)) \in Nat
      /\ BlockSize \in Nat /\ BlockSize > 1 /\ Shape(s)
      /\ BlocksSpanned(numCached[s]) \in Nat
  BY DoneFacts, IndInvParts, SeqTypes DEF BlockInv
<1>2. BlocksSpanned(numCached[s]) <= BlocksSpanned(Done(s))
  BY <1>1, SpanMonotone DEF BlocksSpanned
<1>3. ASSUME NEW i \in 1 .. BlocksSpanned(numCached[s])
      PROVE  /\ i \in DOMAIN table[s] /\ TierOf[table[s][i]] = tiers[s][i]
             /\ HoldsPrefix(table[s][i], i, tokens[s], numCached[s])
  <2>1. i \in DOMAIN table[s] /\ i \in 1 .. BlocksSpanned(Done(s)) /\ i \in Nat
    BY <1>1, <1>2
  <2>2. table[s][i] \in Block /\ kv[table[s][i]] \in Seq(Token)
    BY <1>1, <2>1 DEF BlockInv, IndInv, TypeOK
  <2>3. Fits(kv[table[s][i]], i, tokens[s], Done(s))
    BY <2>1, ContentParts DEF BlockInv, ContentInv
  <2>4. Fits(kv[table[s][i]], i, tokens[s], numCached[s])
    BY <1>1, <2>1, <2>2, <2>3, HoldsLess
  <2> QED BY <1>1, <2>1, <2>4 DEF Shape, TagsOf, HoldsPrefix, Fits
<1> QED BY <1>3 DEF ViewOk

(* The blocks a scheduled, not yet computed request writes are its own.    *)
LEMMA WrittenOwn ==
  ASSUME BlockInv, NEW s \in Seqs, numSched[s] > 0, NEW i \in WrittenIdx(s)
  PROVE  /\ i \in DOMAIN table[s] /\ table[s][i] \in Block
         /\ refCount[table[s][i]] = 1
         /\ \A t \in Seqs : table[s][i] \in Held(t) => t = s
         /\ table[s][i] \notin ImageOf(hashToBlock)
<1>1. i \in DOMAIN table[s] /\ i > numCached[s] \div BlockSize /\ table[s] \in Seq(Block)
  BY WrittenFacts, IndInvParts, SeqTypes DEF BlockInv
<1>2. table[s][i] \in Held(s) /\ blockHash[table[s][i]] = NoHash /\ table[s][i] \in Block
  BY <1>1 DEF Held, BlockInv, ContentInv, ContentOf
<1> QED BY <1>1, <1>2, UnhashedOwn, UnhashedUnindexed DEF BlockInv, ContentInv

LEMMA RunContent == ASSUME BlockInv, NEW s \in Seqs, Run(s) PROVE ContentInv'
<1> USE DEF Run, Quiet, placeVars, poolVars
<1>0. numSched[s] > 0 /\ s \notin computed
  OBVIOUS
<1>1. /\ tokens[s] \in Seq(Token) /\ table[s] \in Seq(Block) /\ BlockSize \in Nat
      /\ BlockSize > 1 /\ Injective(table[s]) /\ numCached[s] \in Nat
      /\ kv \in [Block -> Seq(Token)]
  BY IndInvParts, SeqTypes DEF BlockInv, Owned, RefCountsExact, IndInv, TypeOK
<1>2. ASSUME NEW i \in WrittenIdx(s)
      PROVE  kv'[table[s][i]] = SubSeq(tokens[s], 1, Min2(EndOf(s), i * BlockSize))
  <2>1. table[s][i] \in Block /\ i \in DOMAIN table[s]
    BY <1>0, <1>2, WrittenOwn
  <2>2. \A j \in WrittenIdx(s) : table[s][j] = table[s][i] => j = i
    BY <1>0, <1>1, <1>2, <2>1, WrittenOwn DEF Injective
  <2>3. (CHOOSE j \in WrittenIdx(s) : table[s][j] = table[s][i]) = i
    BY <1>2, <2>2
  <2>4. ViewOk(s) /\ i <= BlocksSpanned(EndOf(s))
    BY <1>0, <1>2, ViewFromContent, WrittenFacts DEF BlockInv
  <2> QED BY <1>2, <2>1, <2>3, <2>4
<1>3. ASSUME NEW b \in Block, \A i \in WrittenIdx(s) : table[s][i] # b
      PROVE  kv'[b] = kv[b]
  BY <1>3
<1>4. ASSUME NEW t \in Seqs, t # s PROVE ContentOf(t)'
  <2>1. \A b \in Held(t) : b \in Block /\ kv'[b] = kv[b]
    <3>1. \A b \in Held(t) : b \in Block
      BY IndInvParts, SeqTypes DEF BlockInv, Held
    <3> QED BY <1>0, <1>3, <1>4, <3>1, WrittenOwn
  <2>2. Done(t)' = Done(t)
    BY <1>4 DEF Done, EndOf
  <2> QED BY <2>1, <2>2, ContentFrame DEF BlockInv, ContentInv
<1>5. ContentOf(s)'
  <2>1. Done(s)' = EndOf(s) /\ Done(s) = numCached[s]
    BY DEF Done, EndOf
  <2>2. /\ \A i \in 1 .. BlocksSpanned(EndOf(s)) :
             i \notin WrittenIdx(s) => i <= numCached[s] \div BlockSize
        /\ BlocksSpanned(EndOf(s)) \in Nat /\ BlocksSpanned(EndOf(s)) <= Len(table[s])
        /\ EndOf(s) \in Nat /\ EndOf(s) <= Len(tokens[s]) /\ numCached[s] <= EndOf(s)
        /\ numCached[s] \div BlockSize \in Nat
        /\ numCached[s] \div BlockSize <= BlocksSpanned(numCached[s])
        /\ BlocksSpanned(numCached[s]) \in Nat
    BY <1>0, <2>1, WrittenFacts, DoneFacts DEF BlockInv
  <2>3. ASSUME NEW i \in 1 .. BlocksSpanned(EndOf(s))
        PROVE  Fits(kv'[table[s][i]], i, tokens[s], EndOf(s))
    <3>1. i \in Nat /\ i \in DOMAIN table[s] /\ table[s][i] \in Block
      BY <1>1, <2>2
    <3>2. CASE i \in WrittenIdx(s)
      BY <1>1, <1>2, <2>2, <3>1, <3>2, WrittenHolds
    <3>3. CASE i \notin WrittenIdx(s)
      <4>1. i <= numCached[s] \div BlockSize /\ i \in 1 .. BlocksSpanned(numCached[s])
        BY <2>2, <3>1, <3>3
      <4>2. i * BlockSize <= numCached[s] /\ i * BlockSize <= EndOf(s) /\ i * BlockSize \in Nat
        <5>1. i * BlockSize <= numCached[s]
          BY <1>1, <3>1, <4>1, SpanOf
        <5>2. i * BlockSize \in Nat
          BY <1>1, <3>1
        <5> QED BY <1>1, <2>2, <5>1, <5>2
      <4>3. Fits(kv[table[s][i]], i, tokens[s], numCached[s])
        BY <2>1, <4>1, ContentParts DEF BlockInv, ContentInv
      <4>4. numCached[s] <= Len(tokens[s])
        BY <1>1, <2>2
      <4>5. kv[table[s][i]] = SubSeq(tokens[s], 1, i * BlockSize)
        BY <1>1, <3>1, <4>2, <4>3, <4>4, FullHolds
      <4>6. kv'[table[s][i]] = kv[table[s][i]]
        <5>1. \A j \in WrittenIdx(s) : table[s][j] # table[s][i]
          BY <1>0, <1>1, <3>1, <3>3, WrittenOwn DEF Injective
        <5> QED BY <1>3, <3>1, <5>1
      <4> QED BY <1>1, <2>2, <3>1, <4>2, <4>5, <4>6, FullHolds
    <3> QED BY <3>2, <3>3
  <2>4. UNCHANGED <<tokens, numCached, table, blockHash>>
    OBVIOUS
  <2>5. ContentOf(s)
    BY DEF BlockInv, ContentInv
  <2> QED BY <2>1, <2>3, <2>4, <2>5, ContentParts, ContentNext DEF Prefix
<1>6. SharedHashed' /\ PlanContent'
  BY QuietContentNext DEF BlockInv, ContentInv, SharedHashed
<1>7. Indexing'
  <2>1. \A b \in ImageOf(hashToBlock) : b \in Block /\ kv'[b] = kv[b]
    <3>1. ImageOf(hashToBlock) \subseteq Block
      BY DEF BlockInv, IndInv, TypeOK
    <3> QED BY <1>0, <1>3, <3>1, WrittenOwn
  <2> QED BY <2>1, IndexFrame DEF BlockInv, ContentInv, Indexing
<1> QED BY <1>4, <1>5, <1>6, <1>7, ContentInvNext

-----------------------------------------------------------------------------
(***************************************************************************)
(* postprocess: the blocks that a chunk filled get their hashes.           *)
(***************************************************************************)
LEMMA PrefixNamed ==
  ASSUME TypeOK, NEW s \in Seqs, NEW i \in Nat, i > 0, i * BlockSize <= Len(tokens[s])
  PROVE  Prefix(s, i) \in Seq(Token) /\ Prefix(s, i) # NoHash
<1>1. tokens[s] \in Seq(Token) /\ BlockSize \in Nat /\ BlockSize > 1
  BY SeqTypes
<1>2. i * BlockSize \in Nat /\ i * BlockSize > 0
  BY <1>1
<1> DEFINE m == i * BlockSize
<1>3. m \in Nat /\ m > 0 /\ m <= Len(tokens[s])
  BY <1>2
<1> HIDE DEF m
<1>4. SubSeq(tokens[s], 1, m) \in Seq(Token) /\ Len(SubSeq(tokens[s], 1, m)) = m
  BY <1>1, <1>3, PrefixOf
<1>5. Len(<< >>) = 0
  OBVIOUS
<1> QED BY <1>3, <1>4, <1>5 DEF Prefix, NoHash, m

LEMMA FilledFacts ==
  ASSUME BlockInv, NEW s \in Seqs, s \in computed
  PROVE  /\ FilledIdx(s) \subseteq DOMAIN table[s]
         /\ FilledIdx(s) = numCached[s] \div BlockSize + 1 .. EndOf(s) \div BlockSize
         /\ numCached[s] \div BlockSize \in Nat /\ EndOf(s) \div BlockSize \in Nat
         /\ numCached[s] \div BlockSize <= EndOf(s) \div BlockSize
         /\ EndOf(s) \div BlockSize <= Len(table[s])
         /\ \A i \in FilledIdx(s) : i \in Nat /\ i > 0 /\ i * BlockSize <= EndOf(s)
         /\ EndOf(s) \in Nat /\ EndOf(s) <= Len(tokens[s]) /\ Done(s) = EndOf(s)
         /\ numSched[s] > 0
<1>1. /\ Len(tokens[s]) \in Nat /\ numCached[s] \in Nat /\ numSched[s] \in Nat
      /\ table[s] \in Seq(Block) /\ BlockSize \in Nat /\ BlockSize > 1 /\ Shape(s)
      /\ EndOf(s) \in Nat /\ EndOf(s) = numCached[s] + numSched[s] /\ Len(table[s]) \in Nat
  BY IndInvParts, SeqTypes DEF EndOf, BlockInv
<1>2. numSched[s] > 0 /\ Done(s) = EndOf(s)
  BY <1>1 DEF Shape, ScheduleOf, Done
<1>3. /\ numCached[s] \div BlockSize \in Nat /\ EndOf(s) \div BlockSize \in Nat
      /\ numCached[s] \div BlockSize <= EndOf(s) \div BlockSize
  <2>1. numCached[s] <= EndOf(s)
    BY <1>1, <1>2
  <2> QED BY <1>1, <2>1, SpanOf, SpanMonotone
<1>4. EndOf(s) \div BlockSize <= Len(table[s]) /\ EndOf(s) <= Len(tokens[s])
  <2>1. EndOf(s) \div BlockSize <= BlocksSpanned(EndOf(s)) /\ BlocksSpanned(EndOf(s)) \in Nat
    BY <1>1, SpanOf DEF BlocksSpanned
  <2>2. BlocksSpanned(EndOf(s)) <= Len(table[s]) /\ EndOf(s) <= Len(tokens[s])
    BY <1>2, WrittenFacts DEF BlockInv
  <2> QED BY <1>1, <1>3, <2>1, <2>2
<1>5. ASSUME NEW i \in FilledIdx(s) PROVE i \in Nat /\ i > 0 /\ i * BlockSize <= EndOf(s)
  <2>1. i \in Nat /\ i > 0 /\ i <= EndOf(s) \div BlockSize
    BY <1>3 DEF FilledIdx
  <2> QED BY <1>1, <2>1, SpanOf
<1> QED BY <1>1, <1>2, <1>3, <1>4, <1>5 DEF FilledIdx

(* Chaining from the hash of the block before gives the prefix itself.     *)
LEMMA ChainIsPrefix ==
  ASSUME BlockInv, NEW s \in Seqs, s \in computed, NEW i \in FilledIdx(s)
  PROVE  ChainHash(s, i) = Prefix(s, i)
<1> DEFINE start == numCached[s] \div BlockSize
           m == start * BlockSize
           k == i * BlockSize
<1>1. tokens[s] \in Seq(Token) /\ BlockSize \in Nat /\ BlockSize > 1 /\ numCached[s] \in Nat
  BY IndInvParts, SeqTypes DEF BlockInv
<1>2. /\ start \in Nat /\ i \in Nat /\ start <= i /\ i * BlockSize <= Len(tokens[s])
      /\ i * BlockSize \in Nat
  BY <1>1, FilledFacts
<1>3. m \in Nat /\ k \in Nat /\ m <= k /\ k <= Len(tokens[s])
  BY <1>1, <1>2, TimesMonotone
<1>4. (IF start > 0 THEN blockHash[table[s][start]] ELSE NoHash) = SubSeq(tokens[s], 1, m)
  <2>1. CASE start > 0
    <3>1. start \in 1 .. numCached[s] \div BlockSize
      BY <1>2, <2>1
    <3> QED BY <2>1, <3>1, ContentParts DEF BlockInv, ContentInv, Prefix
  <2>2. CASE ~ (start > 0)
    <3>1. m = 0
      BY <1>1, <1>2, <2>2
    <3>2. SubSeq(tokens[s], 1, 0) = << >>
      BY <1>1
    <3> QED BY <2>2, <3>1, <3>2 DEF NoHash
  <2> QED BY <2>1, <2>2
<1>5. ChainHash(s, i) = SubSeq(tokens[s], 1, m) \o SubSeq(tokens[s], m + 1, k)
  BY <1>4 DEF ChainHash
<1> HIDE DEF m, k
<1>6. SubSeq(tokens[s], 1, m) \o SubSeq(tokens[s], m + 1, k) = SubSeq(tokens[s], 1, k)
  BY <1>1, <1>3, PrefixChain
<1> QED BY <1>5, <1>6 DEF Prefix, k

LEMMA FilledBlockFacts ==
  ASSUME BlockInv, NEW s \in Seqs, s \in computed, NEW i \in FilledIdx(s)
  PROVE  /\ i \in DOMAIN table[s] /\ table[s][i] \in Block
         /\ HashedBlocks(s)[table[s][i]] = Prefix(s, i)
         /\ kv[table[s][i]] = Prefix(s, i)
         /\ Prefix(s, i) # NoHash
         /\ \A t \in Seqs : table[s][i] \in Held(t) => t = s
         /\ table[s][i] \notin ImageOf(hashToBlock)
<1> DEFINE b == table[s][i]
<1>1. /\ i \in DOMAIN table[s] /\ b \in Block /\ i \in Nat /\ i > 0
      /\ i > numCached[s] \div BlockSize /\ i <= EndOf(s) \div BlockSize
      /\ i * BlockSize <= EndOf(s) /\ EndOf(s) <= Len(tokens[s]) /\ EndOf(s) \in Nat
      /\ BlockSize \in Nat /\ BlockSize > 1 /\ tokens[s] \in Seq(Token)
      /\ EndOf(s) \div BlockSize \in Nat /\ i * BlockSize \in Nat
      /\ kv[b] \in Seq(Token) /\ Injective(table[s])
  <2>1. i \in DOMAIN table[s] /\ i \in Nat /\ i > 0 /\ i * BlockSize <= EndOf(s)
        /\ i > numCached[s] \div BlockSize /\ i <= EndOf(s) \div BlockSize
        /\ EndOf(s) <= Len(tokens[s]) /\ EndOf(s) \in Nat /\ EndOf(s) \div BlockSize \in Nat
    BY FilledFacts
  <2>2. BlockSize \in Nat /\ BlockSize > 1 /\ tokens[s] \in Seq(Token) /\ table[s] \in Seq(Block)
    BY IndInvParts, SeqTypes DEF BlockInv
  <2> QED BY <2>1, <2>2 DEF BlockInv, IndInv, TypeOK, RefCountsExact
<1>2. b \in Held(s) /\ blockHash[b] = NoHash
  BY <1>1 DEF Held, BlockInv, ContentInv, ContentOf
<1>3. HashedBlocks(s)[b] = Prefix(s, i)
  <2>1. IdxOf(s, b) = i
    BY <1>1 DEF IdxOf, Injective
  <2> QED BY <1>1, <2>1, ChainIsPrefix DEF HashedBlocks
<1>4. kv[b] = Prefix(s, i)
  <2>1. EndOf(s) \div BlockSize <= BlocksSpanned(EndOf(s)) /\ BlocksSpanned(EndOf(s)) \in Nat
    BY <1>1, SpanOf DEF BlocksSpanned
  <2>2. i \in 1 .. BlocksSpanned(EndOf(s)) /\ Done(s) = EndOf(s)
    BY <1>1, <2>1, FilledFacts
  <2>3. Fits(kv[b], i, tokens[s], EndOf(s))
    BY <2>2, ContentParts DEF BlockInv, ContentInv
  <2> QED BY <1>1, <2>3, FullHolds DEF Prefix
<1>5. Prefix(s, i) # NoHash
  <2>1. i * BlockSize <= Len(tokens[s])
    BY <1>1
  <2> QED BY <1>1, <2>1, PrefixNamed DEF BlockInv, IndInv
<1> QED BY <1>1, <1>2, <1>3, <1>4, <1>5, UnhashedOwn, UnhashedUnindexed
        DEF BlockInv, ContentInv

LEMMA OtherBlocksKeep ==
  ASSUME NEW s \in Seqs, NEW b \in Block, \A i \in FilledIdx(s) : table[s][i] # b
  PROVE  HashedBlocks(s)[b] = blockHash[b]
BY DEF HashedBlocks

(* The index after hash_blocks is sound for the new hashes.                *)
LEMMA ChunkIndexed ==
  ASSUME BlockInv, NEW s \in Seqs, s \in computed, NEW h \in DOMAIN IndexWithChunk(s)
  PROVE  LET b == IndexWithChunk(s)[h]
         IN b \in Block /\ TierOf[b] = GPU /\ HashedBlocks(s)[b] = h /\ kv[b] = h /\ h # NoHash
<1> DEFINE chunk == [x \in {ChainHash(s, i) : i \in FilledIdx(s)} |->
                       table[s][CHOOSE i \in FilledIdx(s) : ChainHash(s, i) = x]]
<1>1. ASSUME h \in DOMAIN chunk
      PROVE  /\ HashedBlocks(s)[chunk[h]] = h /\ kv[chunk[h]] = h /\ h # NoHash
  <2> DEFINE k == CHOOSE i \in FilledIdx(s) : ChainHash(s, i) = h
  <2>1. k \in FilledIdx(s) /\ ChainHash(s, k) = h
    BY <1>1
  <2>2. chunk[h] = table[s][k]
    BY <1>1
  <2> HIDE DEF k, chunk
  <2>3. Prefix(s, k) = h
    BY <2>1, ChainIsPrefix
  <2> QED BY <2>1, <2>2, <2>3, FilledBlockFacts
<1>2. ASSUME h \in DOMAIN hashToBlock
      PROVE  /\ HashedBlocks(s)[hashToBlock[h]] = h /\ kv[hashToBlock[h]] = h /\ h # NoHash
  <2>1. hashToBlock[h] \in Block /\ hashToBlock[h] \in ImageOf(hashToBlock)
    BY <1>2 DEF BlockInv, IndInv, TypeOK, ImageOf
  <2>2. \A i \in FilledIdx(s) : table[s][i] # hashToBlock[h]
    BY <2>1, FilledBlockFacts
  <2>3. blockHash[hashToBlock[h]] = h /\ kv[hashToBlock[h]] = h /\ h # NoHash
    BY <1>2 DEF BlockInv, ContentInv, PrefixIndexSound
  <2> QED BY <2>1, <2>2, <2>3, OtherBlocksKeep
<1>3. IndexWithChunk(s)[h] \in Block /\ TierOf[IndexWithChunk(s)[h]] = GPU
  BY HashBlocksTypes DEF BlockInv
<1>4. CASE EnablePrefixCache
  <2>1. IndexWithChunk(s) = Override(hashToBlock, chunk)
    BY <1>4 DEF IndexWithChunk
  <2> HIDE DEF chunk
  <2>2. /\ DOMAIN IndexWithChunk(s) = DOMAIN hashToBlock \cup DOMAIN chunk
        /\ IndexWithChunk(s)[h] = IF h \in DOMAIN chunk THEN chunk[h] ELSE hashToBlock[h]
    BY <2>1 DEF Override
  <2>3. CASE h \in DOMAIN chunk
    BY <1>1, <1>3, <2>2, <2>3
  <2>4. CASE h \notin DOMAIN chunk
    BY <1>2, <1>3, <2>2, <2>4
  <2> QED BY <2>3, <2>4
<1>5. CASE ~ EnablePrefixCache
  BY <1>2, <1>3, <1>5 DEF IndexWithChunk
<1> QED BY <1>4, <1>5

(* hash_blocks, whatever happens to the request afterwards.                *)
LEMMA HashingContent ==
  ASSUME BlockInv, NEW s \in Seqs, s \in computed, plan' = NoPlan,
         blockHash' = HashedBlocks(s), hashToBlock' = IndexWithChunk(s), kv' = kv,
         \A b \in Block : refCount'[b] > 1 => refCount[b] > 1,
         \A t \in Seqs \ {s} : /\ tokens'[t] = tokens[t] /\ numCached'[t] = numCached[t]
                               /\ numSched'[t] = numSched[t] /\ table'[t] = table[t]
                               /\ (t \in computed' <=> t \in computed),
         ContentOf(s)'
  PROVE  ContentInv'
<1>1. ASSUME NEW t \in Seqs, t # s PROVE ContentOf(t)'
  <2>1. ASSUME NEW b \in Held(t) PROVE blockHash'[b] = blockHash[b] /\ kv'[b] = kv[b]
    <3>1. b \in Block
      BY IndInvParts, SeqTypes DEF BlockInv, Held
    <3>2. \A i \in FilledIdx(s) : table[s][i] # b
      BY <1>1, <2>1, FilledBlockFacts
    <3> QED BY <3>1, <3>2, OtherBlocksKeep
  <2>2. Done(t)' = Done(t)
    BY <1>1 DEF Done, EndOf
  <2> QED BY <1>1, <2>1, <2>2, ContentFrame DEF BlockInv, ContentInv
<1>2. SharedHashed'
  <2>1. ASSUME NEW b \in Block, refCount'[b] > 1 PROVE blockHash'[b] # NoHash
    <3>1. CASE \E i \in FilledIdx(s) : table[s][i] = b
      BY <3>1, FilledBlockFacts
    <3>2. CASE \A i \in FilledIdx(s) : table[s][i] # b
      BY <2>1, <3>2, OtherBlocksKeep DEF BlockInv, ContentInv, SharedHashed
    <3> QED BY <3>1, <3>2
  <2> QED BY <2>1 DEF SharedHashed
<1>3. Indexing'
  BY ChunkIndexed DEF Indexing, PrefixIndexSound
<1> QED BY <1>1, <1>2, <1>3, QuietContentNext, ContentInvNext

(* The hashes of the blocks of the request itself.                         *)
LEMMA HashedTable ==
  ASSUME BlockInv, NEW s \in Seqs, s \in computed
  PROVE  /\ \A i \in 1 .. EndOf(s) \div BlockSize :
              HashedBlocks(s)[table[s][i]] = Prefix(s, i)
         /\ \A i \in DOMAIN table[s] :
              i > EndOf(s) \div BlockSize => HashedBlocks(s)[table[s][i]] = NoHash
<1>1. /\ numCached[s] \div BlockSize \in Nat /\ EndOf(s) \div BlockSize \in Nat
      /\ FilledIdx(s) = numCached[s] \div BlockSize + 1 .. EndOf(s) \div BlockSize
      /\ numCached[s] \div BlockSize <= EndOf(s) \div BlockSize
      /\ EndOf(s) \div BlockSize <= Len(table[s])
  BY FilledFacts
<1>2. table[s] \in Seq(Block) /\ Injective(table[s]) /\ ContentOf(s)
  BY IndInvParts, SeqTypes DEF BlockInv, IndInv, RefCountsExact, ContentInv
<1>3. ASSUME NEW i \in DOMAIN table[s], i \notin FilledIdx(s)
      PROVE  HashedBlocks(s)[table[s][i]] = blockHash[table[s][i]]
  <2>1. \A j \in FilledIdx(s) : table[s][j] # table[s][i]
    BY <1>2, <1>3, FilledFacts DEF Injective
  <2>2. table[s][i] \in Block
    BY <1>2
  <2> QED BY <2>1, <2>2, OtherBlocksKeep
<1>4. ASSUME NEW i \in 1 .. EndOf(s) \div BlockSize
      PROVE  HashedBlocks(s)[table[s][i]] = Prefix(s, i)
  <2>1. CASE i \in FilledIdx(s)
    BY <2>1, FilledBlockFacts
  <2>2. CASE i \notin FilledIdx(s)
    <3>1. i \in 1 .. numCached[s] \div BlockSize /\ i \in DOMAIN table[s]
      BY <1>1, <1>2, <2>2
    <3> QED BY <1>2, <1>3, <2>2, <3>1 DEF ContentOf
  <2> QED BY <2>1, <2>2
<1>5. ASSUME NEW i \in DOMAIN table[s], i > EndOf(s) \div BlockSize
      PROVE  HashedBlocks(s)[table[s][i]] = NoHash
  <2>1. i \notin FilledIdx(s) /\ i > numCached[s] \div BlockSize
    BY <1>1, <1>2, <1>5
  <2> QED BY <1>2, <1>3, <2>1 DEF ContentOf
<1> QED BY <1>4, <1>5

LEMMA PostChunkContent == ASSUME BlockInv, NEW s \in Seqs, PostChunk(s) PROVE ContentInv'
<1> USE DEF PostChunk, Quiet, placeVars
<1>1. numCached'[s] = EndOf(s) /\ s \notin computed'
  BY DEF BlockInv, IndInv, TypeOK
<1>2. Done(s)' = EndOf(s) /\ Done(s) = EndOf(s)
  BY <1>1 DEF Done
<1>3. ContentOf(s)'
  BY <1>1, <1>2, HashedTable, ContentParts, ContentNext DEF BlockInv, ContentInv, Prefix
<1> QED BY <1>3, HashingContent DEF BlockInv, IndInv, TypeOK

LEMMA PostTokenContent ==
  ASSUME BlockInv, NEW s \in Seqs, NEW t \in Token, PostToken(s, t) PROVE ContentInv'
<1> USE DEF PostToken, Quiet, placeVars
<1>1. numCached'[s] = EndOf(s) /\ s \notin computed' /\ tokens'[s] = Append(tokens[s], t)
  BY DEF BlockInv, IndInv, TypeOK
<1>2. Done(s)' = EndOf(s) /\ Done(s) = EndOf(s)
  BY <1>1 DEF Done
<1>3. /\ tokens[s] \in Seq(Token) /\ table[s] \in Seq(Block) /\ BlockSize \in Nat
      /\ BlockSize > 1 /\ EndOf(s) \in Nat /\ EndOf(s) <= Len(tokens[s])
      /\ BlocksSpanned(EndOf(s)) \in Nat /\ BlocksSpanned(EndOf(s)) <= Len(table[s])
      /\ EndOf(s) \div BlockSize \in Nat
  BY <1>2, FilledFacts, DoneFacts, IndInvParts, SeqTypes DEF BlockInv
<1>4. ASSUME NEW i \in 1 .. EndOf(s) \div BlockSize
      PROVE  Prefix(s, i) = SubSeq(tokens'[s], 1, i * BlockSize)
  <2>1. i \in Nat /\ i * BlockSize \in Nat /\ i * BlockSize <= Len(tokens[s])
    <3>1. i \in Nat /\ i * BlockSize \in Nat
      BY <1>3
    <3> DEFINE q == EndOf(s) \div BlockSize
    <3>2. i <= EndOf(s) \div BlockSize
      <4>1. i \in 1 .. q /\ q \in Nat
        BY <1>3
      <4> HIDE DEF q
      <4>2. i <= q
        BY <4>1
      <4> QED BY <4>2 DEF q
    <3>3. i * BlockSize <= EndOf(s)
      BY <1>3, <3>1, <3>2, SpanOf
    <3> QED BY <1>3, <3>1, <3>3
  <2> DEFINE m == i * BlockSize
  <2> HIDE DEF m
  <2>2. m \in Nat /\ m <= Len(tokens[s])
    BY <2>1 DEF m
  <2>3. SubSeq(tokens'[s], 1, m) = SubSeq(tokens[s], 1, m)
    BY <1>1, <1>3, <2>2, PrefixOfAppend
  <2> QED BY <2>3 DEF Prefix, m
<1>5. ASSUME NEW i \in 1 .. BlocksSpanned(EndOf(s))
      PROVE  Fits(kv'[table'[s][i]], i, tokens'[s], EndOf(s))
  <2>1. i \in Nat /\ i \in DOMAIN table[s] /\ kv[table[s][i]] \in Seq(Token)
    BY <1>3 DEF BlockInv, IndInv, TypeOK
  <2>2. Fits(kv[table[s][i]], i, tokens[s], EndOf(s))
    BY <1>2, ContentParts DEF BlockInv, ContentInv
  <2> QED BY <1>1, <1>3, <2>1, <2>2, HoldsAppend
<1>6. ContentOf(s)'
  BY <1>1, <1>2, <1>4, <1>5, HashedTable, ContentNext
<1> QED BY <1>6, HashingContent DEF BlockInv, IndInv, TypeOK

-----------------------------------------------------------------------------
(***************************************************************************)
(* deallocate: the blocks keep hash, content and index entry.              *)
(***************************************************************************)
(* The blocks of a request on the GPU keep their hashes when it goes.      *)
LEMMA DroppedHashes ==
  ASSUME IndInv, NEW s \in Seqs, AllOn(s, GPU), NEW hash \in [Block -> Hash],
         Deallocate(s, hash)
  PROVE  /\ blockHash' = hash
         /\ \A b \in Block : refCount'[b] > 1 => refCount[b] > 1
<1>1. \A b \in Held(s) : TierOf[b] = GPU
  BY IndInvParts, SeqTypes DEF Shape, TagsOf, AllOn, Held
<1>2. blockHash' = [b \in Block |-> IF b \in Held(s) /\ TierOf[b] # GPU THEN NoHash ELSE hash[b]]
      /\ refCount' = RefAfterDrop(Held(s))
  BY DEF Deallocate
<1>3. blockHash' = hash
  BY <1>1, <1>2
<1>4. \A b \in Block : refCount'[b] > 1 => refCount[b] > 1
  BY <1>2 DEF RefAfterDrop, IndInv, TypeOK
<1> QED BY <1>3, <1>4

(* A request without blocks and cached tokens. *)
LEMMA NoContent ==
  ASSUME NEW s \in Seqs, numCached'[s] = 0, table'[s] = << >>, s \notin computed',
         BlockSize \in Nat, BlockSize > 1
  PROVE  ContentOf(s)'
<1>1. Done(s)' = 0 /\ DOMAIN table'[s] = {}
  BY DEF Done
<1>2. BlocksSpanned(0) = 0 /\ 0 \div BlockSize = 0
  BY DEF BlocksSpanned
<1> QED BY <1>1, <1>2, ContentNext

LEMMA PostFinishContent ==
  ASSUME BlockInv, NEW s \in Seqs, NEW t \in Token, PostFinish(s, t) PROVE ContentInv'
<1>1. /\ s \in computed /\ plan' = NoPlan /\ plan = NoPlan /\ plan' = plan
      /\ hashToBlock' = IndexWithChunk(s)
      /\ kv' = kv /\ Deallocate(s, HashedBlocks(s)) /\ computed' = computed \ {s}
      /\ tokens' = [tokens EXCEPT ![s] = Append(@, t)]
      /\ numSched' = [numSched EXCEPT ![s] = 0]
      /\ numCached' = [numCached EXCEPT ![s] = 0] /\ table' = [table EXCEPT ![s] = << >>]
  BY DEF PostFinish, Quiet, Deallocate
<1>2. HashedBlocks(s) \in [Block -> Hash] /\ AllOn(s, GPU) /\ numSched[s] > 0
  <2>1. numSched[s] > 0
    BY <1>1, FilledFacts
  <2> QED BY <1>1, <2>1, HashBlocksTypes, IndInvParts DEF BlockInv, Shape, TagsOf
<1>3. /\ blockHash' = HashedBlocks(s)
      /\ \A b \in Block : refCount'[b] > 1 => refCount[b] > 1
  BY <1>1, <1>2, DroppedHashes DEF BlockInv
<1>4. ContentOf(s)'
  <2>1. numCached'[s] = 0 /\ table'[s] = << >> /\ s \notin computed'
    BY <1>1 DEF BlockInv, IndInv, TypeOK
  <2> QED BY <2>1, NoContent, ConstantsAssumption
<1> QED BY <1>1, <1>3, <1>4, HashingContent DEF BlockInv, IndInv, TypeOK

LEMMA RecomputeContent ==
  ASSUME BlockInv, NEW s \in Seqs, Recompute(s) PROVE ContentInv'
<1>1. /\ numSched[s] = 0 /\ status[s] = "running" /\ plan' = NoPlan /\ kv' = kv
      /\ Deallocate(s, blockHash) /\ UNCHANGED <<tokens, numSched, computed, hashToBlock>>
      /\ numCached' = [numCached EXCEPT ![s] = 0] /\ table' = [table EXCEPT ![s] = << >>]
  BY DEF Recompute, Quiet, Deallocate
<1>2. AllOn(s, GPU) /\ s \notin computed
  BY <1>1, IndInvParts DEF BlockInv, Shape, TagsOf, ScheduleOf
<1>3. blockHash' = blockHash /\ \A b \in Block : refCount'[b] > 1 => refCount[b] > 1
  BY <1>1, <1>2, DroppedHashes DEF BlockInv, IndInv, TypeOK
<1>4. ContentOf(s)'
  <2>1. numCached'[s] = 0 /\ table'[s] = << >> /\ s \notin computed'
    BY <1>1, <1>2 DEF BlockInv, IndInv, TypeOK
  <2> QED BY <2>1, NoContent, ConstantsAssumption
<1>5. ASSUME NEW t \in Seqs, t # s PROVE ContentOf(t)'
  <2>1. UNCHANGED <<tokens[t], numCached[t], table[t]>> /\ Done(t)' = Done(t)
    BY <1>1, <1>5 DEF BlockInv, IndInv, TypeOK, Done, EndOf
  <2> QED BY <1>1, <1>3, <2>1, ContentFrame DEF BlockInv, ContentInv
<1>6. SharedHashed'
  BY <1>3 DEF BlockInv, ContentInv, SharedHashed
<1>7. Indexing'
  BY <1>1, <1>3, IndexFrame DEF BlockInv, ContentInv, Indexing
<1> QED BY <1>1, <1>4, <1>5, <1>6, <1>7, QuietContentNext, ContentInvNext

-----------------------------------------------------------------------------
(***************************************************************************)
(* may_append: a popped block is empty.                                    *)
(***************************************************************************)
LEMMA MayAppendContent ==
  ASSUME BlockInv, NEW s \in Seqs, NEW b, plan = NoPlan, plan' = plan,
         Active(s), numSched[s] = 0, MayAppend(s, b),
         b \in IF NeedsBlock(s) THEN FreeIn(GPU) ELSE Block,
         numSched' = [numSched EXCEPT ![s] = 1],
         UNCHANGED <<tokens, numCached, computed, kv>>
  PROVE  ContentInv'
<1>1. s \notin computed
  BY IndInvParts DEF BlockInv, Shape, ScheduleOf
<1>2. \A t \in Seqs : Done(t)' = Done(t)
  BY <1>1 DEF Done, EndOf, BlockInv, IndInv, TypeOK
<1>3. CASE ~ NeedsBlock(s)
  <2>1. UNCHANGED <<table, poolVars>>
    BY <1>3 DEF MayAppend
  <2> QED BY <1>2, <2>1, BlocksUntouched DEF poolVars
<1>4. CASE NeedsBlock(s)
  <2>1. /\ b \in free /\ table' = [table EXCEPT ![s] = Append(@, b)]
        /\ refCount' = [refCount EXCEPT ![b] = 1]
        /\ blockHash' = [blockHash EXCEPT ![b] = NoHash]
        /\ hashToBlock' = IndexWithout({b})
    BY <1>4 DEF MayAppend, FreeIn
  <2>2. b \in Block /\ \A t \in Seqs : b \notin Held(t)
    BY <2>1, FreeUnheld DEF BlockInv
  <2>3. \A x \in Block \ {b} : blockHash'[x] = blockHash[x] /\ kv'[x] = kv[x]
    BY <2>1 DEF BlockInv, IndInv, TypeOK
  <2>4. \A t \in Seqs : \A x \in Held(t) : blockHash'[x] = blockHash[x] /\ kv'[x] = kv[x]
    <3>1. \A t \in Seqs : Held(t) \subseteq Block
      BY IndInvParts, SeqTypes DEF BlockInv, Held
    <3> QED BY <2>2, <2>3, <3>1
  <2>5. ASSUME NEW t \in Seqs, t # s PROVE ContentOf(t)'
    BY <1>2, <2>1, <2>4, <2>5, ContentFrame DEF BlockInv, ContentInv
  <2>6. ContentOf(s)'
    <3>1. table[s] \in Seq(Block) /\ table'[s] = Append(table[s], b)
          /\ numCached[s] \div BlockSize \in Nat /\ BlocksSpanned(Done(s)) \in Nat
          /\ BlocksSpanned(Done(s)) <= Len(table[s])
          /\ numCached[s] \div BlockSize <= BlocksSpanned(Done(s))
      BY <2>1, IndInvParts, SeqTypes, DoneFacts DEF BlockInv, IndInv, TypeOK
    <3>2. \A i \in DOMAIN table[s] : /\ table'[s][i] = table[s][i]
                                    /\ blockHash'[table[s][i]] = blockHash[table[s][i]]
      BY <2>4, <3>1 DEF Held
    <3>3. \A i \in DOMAIN table'[s] : i \in DOMAIN table[s] \/ table'[s][i] = b
      BY <3>1
    <3>4. blockHash'[b] = NoHash
      BY <2>1, <2>2 DEF BlockInv, IndInv, TypeOK
    <3>5. /\ 1 .. numCached[s] \div BlockSize \subseteq DOMAIN table[s]
          /\ 1 .. BlocksSpanned(Done(s)) \subseteq DOMAIN table[s]
      BY <3>1
    <3>6. ContentOf(s)
      BY DEF BlockInv, ContentInv
    <3> QED BY <1>2, <3>2, <3>3, <3>4, <3>5, <3>6, ContentParts, ContentNext DEF Prefix
  <2>7. SharedHashed'
    BY <2>1, <2>2 DEF BlockInv, ContentInv, SharedHashed, IndInv, TypeOK
  <2>8. Indexing'
    BY <2>1, <2>3, PoppedIndex DEF BlockInv, ContentInv, Indexing, IndInv
  <2> QED BY <2>5, <2>6, <2>7, <2>8, QuietContentNext, ContentInvNext
<1> QED BY <1>3, <1>4

LEMMA DecodeContent ==
  ASSUME BlockInv, NEW s \in Seqs, NEW b, Decode(s, b) PROVE ContentInv'
BY MayAppendContent DEF Decode, Quiet, Active

LEMMA ResumeContent ==
  ASSUME BlockInv, NEW s \in Seqs, NEW b, Resume(s, b) PROVE ContentInv'
<1>1. Active(s) /\ numSched[s] = 0 /\ plan = NoPlan
  BY IndInvParts, SeqTypes DEF Resume, Quiet, Active, BlockInv, Shape, ScheduleOf
<1> QED BY <1>1, MayAppendContent DEF Resume

-----------------------------------------------------------------------------
(***************************************************************************)
(* allocate: cached blocks are found by their content, the others are      *)
(* popped empty.                                                           *)
(***************************************************************************)
LEMMA PrefillNewContent ==
  ASSUME BlockInv, NEW s \in Seqs, NEW n, NEW fresh, NEW c, PrefillNew(s, n, fresh, c)
  PROVE  ContentInv'
<1> DEFINE hit == {CachedBlock(s, i) : i \in 1 .. n}
           new == ImageOf(fresh)
           size == NumBlocks(s)
           f == [i \in 1 .. size |-> IF i <= n THEN CachedBlock(s, i) ELSE fresh[i]]
<1>1. /\ plan = NoPlan /\ plan' = NoPlan /\ table[s] = << >>
      /\ numSched[s] = 0 /\ n \in 0 .. size - 1 /\ (\A i \in 1 .. n : IsIndexed(s, i))
      /\ fresh \in [n + 1 .. size -> FreeIn(GPU) \ hit]
      /\ table' = [table EXCEPT ![s] = f]
      /\ numCached' = [numCached EXCEPT ![s] = n * BlockSize]
      /\ c \in 1 .. Len(tokens[s]) - n * BlockSize
      /\ numSched' = [numSched EXCEPT ![s] = c]
      /\ hashToBlock' = IndexWithout(new)
      /\ UNCHANGED <<tokens, computed, kv>>
  BY DEF PrefillNew, Quiet, CanAllocate, ScheduleChunk
<1>2. /\ refCount' = [b \in Block |->
                        IF b \in hit THEN (IF b \in used THEN refCount[b] + 1 ELSE 1)
                        ELSE IF b \in new THEN 1 ELSE refCount[b]]
      /\ blockHash' = [b \in Block |-> IF b \in new THEN NoHash ELSE blockHash[b]]
  BY DEF PrefillNew
<1>3. /\ size \in Nat /\ Len(tokens[s]) \in Nat /\ tokens[s] \in Seq(Token)
      /\ BlockSize \in Nat /\ BlockSize > 1 /\ s \notin computed /\ TypeOK
      /\ n \in Nat /\ n * BlockSize \in Nat /\ n * BlockSize < Len(tokens[s])
  <2>1. size \in Nat /\ Len(tokens[s]) \in Nat /\ BlockSize \in Nat /\ s \notin computed
        /\ tokens[s] \in Seq(Token) /\ BlockSize > 1 /\ TypeOK
    BY <1>1, SeqTypes, IndInvParts DEF BlockInv, Shape, ScheduleOf
  <2> QED BY <1>1, <2>1
<1>4. \A b \in new : b \in Block /\ b \in free /\ b \notin hit
  <2>1. DOMAIN fresh = n + 1 .. size
        /\ \A i \in n + 1 .. size : fresh[i] \in FreeIn(GPU) /\ fresh[i] \notin hit
    BY <1>1
  <2>2. \A b \in FreeIn(GPU) : b \in Block /\ b \in free
    BY <1>3 DEF FreeIn, TypeOK
  <2> HIDE DEF hit
  <2> QED BY <2>1, <2>2 DEF ImageOf
<1>5. \A b \in new : \A t \in Seqs : b \notin Held(t)
  BY <1>4, FreeUnheld DEF BlockInv
(* A block found for the first i blocks of the text holds them. *)
<1>6. ASSUME NEW i \in 1 .. n
      PROVE  LET b == CachedBlock(s, i)
             IN /\ b \in hit /\ b \in Block /\ b \notin new /\ blockHash[b] = Prefix(s, i)
                /\ kv[b] = Prefix(s, i) /\ blockHash[b] # NoHash
  <2>1. /\ Prefix(s, i) \in DOMAIN hashToBlock
        /\ blockHash[CachedBlock(s, i)] = Prefix(s, i)
    BY <1>1 DEF IsIndexed
  <2>2. CachedBlock(s, i) \in Block /\ kv[CachedBlock(s, i)] = Prefix(s, i)
        /\ Prefix(s, i) # NoHash
    BY <1>3, <2>1 DEF CachedBlock, TypeOK, ImageOf, BlockInv, ContentInv, PrefixIndexSound
  <2>3. CachedBlock(s, i) \in hit /\ CachedBlock(s, i) \notin new
    BY <1>4
  <2> QED BY <2>1, <2>2, <2>3
<1> HIDE DEF hit, new
<1>7. \A b \in Block \ new : blockHash'[b] = blockHash[b] /\ kv'[b] = kv[b]
  BY <1>1, <1>2
<1>8. \A b \in new : blockHash'[b] = NoHash
  BY <1>2, <1>4
<1>9. ASSUME NEW t \in Seqs, t # s PROVE ContentOf(t)'
  <2>1. \A b \in Held(t) : blockHash'[b] = blockHash[b] /\ kv'[b] = kv[b]
    <3>1. Held(t) \subseteq Block
      BY IndInvParts, SeqTypes DEF BlockInv, Held
    <3> QED BY <1>5, <1>7, <3>1
  <2>2. /\ tokens'[t] = tokens[t] /\ numCached'[t] = numCached[t] /\ table'[t] = table[t]
        /\ numSched'[t] = numSched[t]
    BY <1>1, <1>3, <1>9 DEF TypeOK
  <2>3. Done(t)' = Done(t)
    BY <1>1, <2>2 DEF Done, EndOf
  <2> QED BY <2>1, <2>2, <2>3, ContentFrame DEF BlockInv, ContentInv
<1>10. ContentOf(s)'
  <2>1. table'[s] = f /\ numCached'[s] = n * BlockSize /\ tokens'[s] = tokens[s]
    BY <1>1, <1>3 DEF TypeOK
  <2>2. Done(s)' = n * BlockSize
    BY <1>1, <1>3, <2>1 DEF Done
  <2>3. numCached'[s] \div BlockSize = n /\ BlocksSpanned(Done(s)') = n
    BY <1>3, <2>1, <2>2, FilledBlocks DEF BlocksSpanned
  <2>4. \A i \in 1 .. n : i \in DOMAIN f /\ f[i] = CachedBlock(s, i)
    BY <1>1, <1>3
  <2>5. \A i \in DOMAIN f : i > n => f[i] \in new
    BY <1>1, <1>3 DEF new, ImageOf
  <2> HIDE DEF f
  <2>6. \A i \in 1 .. n : blockHash'[f[i]] = SubSeq(tokens'[s], 1, i * BlockSize)
    BY <1>6, <1>7, <2>1, <2>4 DEF Prefix
  <2>7. \A i \in DOMAIN f : i > n => blockHash'[f[i]] = NoHash
    BY <1>8, <2>5
  <2>8. ASSUME NEW i \in 1 .. n
        PROVE  Fits(kv'[f[i]], i, tokens'[s], n * BlockSize)
    <3>1. i \in Nat /\ i * BlockSize <= n * BlockSize /\ n * BlockSize <= Len(tokens[s])
      BY <1>3, TimesMonotone
    <3>2. kv'[f[i]] = Prefix(s, i) /\ kv'[f[i]] \in Seq(Token)
      BY <1>1, <1>3, <1>6, <2>4 DEF TypeOK
    <3> DEFINE m == n * BlockSize
    <3>3. m \in Nat /\ i * BlockSize <= m /\ m <= Len(tokens[s])
      BY <1>3, <3>1
    <3> HIDE DEF m
    <3>4. Fits(kv'[f[i]], i, tokens'[s], m)
      BY <1>3, <2>1, <3>1, <3>2, <3>3, FullHolds DEF Prefix
    <3> QED BY <3>4 DEF m
  <2> QED BY <2>1, <2>2, <2>3, <2>6, <2>7, <2>8, ContentNext
<1>11. SharedHashed'
  <2>1. ASSUME NEW b \in Block, refCount'[b] > 1 PROVE blockHash'[b] # NoHash
    <3>1. CASE b \in hit
      BY <1>6, <1>7, <3>1 DEF hit
    <3>2. CASE b \notin hit
      <4>1. b \notin new /\ refCount[b] > 1
        BY <1>2, <2>1, <3>2
      <4> QED BY <1>7, <4>1 DEF BlockInv, ContentInv, SharedHashed
    <3> QED BY <3>1, <3>2
  <2> QED BY <2>1 DEF SharedHashed
<1>12. Indexing'
  BY <1>1, <1>3, <1>7, PoppedIndex DEF BlockInv, ContentInv, Indexing
<1> QED BY <1>1, <1>9, <1>10, <1>11, <1>12, QuietContentNext, ContentInvNext

-----------------------------------------------------------------------------
(***************************************************************************)
(* Transfers.  The targets belong to no table and to no index entry until  *)
(* they have their sources' contents.                                      *)
(***************************************************************************)
LEMMA PrepareContent ==
  ASSUME BlockInv, NEW s \in Seqs, NEW t, NEW I, NEW dst, NEW op,
         plan = NoPlan, I \subseteq DOMAIN table[s],
         dst \in [I -> FreeIn(t)], Injective(dst),
         PopTargets(s, dst, t), StartPlan(op, s, dst, t), UNCHANGED <<seqVars, placeVars, kv>>
  PROVE  ContentInv'
<1> DEFINE new == ImageOf(dst)
<1> USE DEF seqVars, placeVars
<1>1. /\ plan'.dst = dst /\ plan'.src = [i \in I |-> table[s][i]] /\ plan'.copied = FALSE
      /\ DOMAIN dst = I /\ TypeOK /\ table[s] \in Seq(Block)
  BY SeqTypes DEF StartPlan, BlockInv, IndInv
<1>2. \A b \in new : b \in Block /\ b \in free /\ TierOf[b] = t
                     /\ \A q \in Seqs : b \notin Held(q)
  <2>1. \A i \in I : dst[i] \in free /\ TierOf[dst[i]] = t
    BY DEF FreeIn
  <2> QED BY <1>1, <2>1, FreeUnheld DEF ImageOf, BlockInv
<1>3. \A b \in Block \ new : blockHash'[b] = blockHash[b] /\ kv'[b] = kv[b]
  BY DEF PopTargets
<1>4. ASSUME NEW i \in I
      PROVE  /\ blockHash'[dst[i]] = blockHash[table[s][i]]
             /\ blockHash'[table[s][i]] = blockHash[table[s][i]]
  <2>1. dst[i] \in new /\ dst[i] \in Block
    BY <1>1, <1>2 DEF ImageOf
  <2>2. (CHOOSE j \in DOMAIN dst : dst[j] = dst[i]) = i
    BY <1>1 DEF Injective
  <2>3. table[s][i] \in Block /\ table[s][i] \in Held(s)
    BY <1>1 DEF Held
  <2> QED BY <1>2, <1>3, <2>1, <2>2, <2>3 DEF PopTargets
<1> HIDE DEF new
<1>5. ASSUME NEW q \in Seqs PROVE ContentOf(q)'
  <2>1. Held(q) \subseteq Block
    BY IndInvParts, SeqTypes DEF BlockInv, Held
  <2> QED BY <1>2, <1>3, <2>1, ContentFrame DEF BlockInv, ContentInv, Done, EndOf
<1>6. SharedHashed'
  BY <1>3 DEF PopTargets, BlockInv, ContentInv, SharedHashed, new
<1>7. Indexing' /\ \A b \in ImageOf(hashToBlock') : b \notin new
  <2>1. CASE t = GPU
    <3>1. hashToBlock' = IndexWithout(new)
      BY <2>1 DEF PopTargets, new
    <3> QED BY <1>1, <1>3, <3>1, PoppedIndex DEF BlockInv, ContentInv, Indexing
  <2>2. CASE t # GPU
    <3>1. hashToBlock' = hashToBlock
      BY <2>2 DEF PopTargets
    <3>2. \A b \in ImageOf(hashToBlock) : b \in Block /\ b \notin new
      <4>1. \A b \in ImageOf(hashToBlock) : b \in Block
        BY <1>1 DEF TypeOK
      <4>2. \A b \in ImageOf(hashToBlock) : TierOf[b] = GPU
        BY DEF BlockInv, ContentInv, PrefixIndexSound, ImageOf
      <4> QED BY <1>2, <2>2, <4>1, <4>2
    <3> QED BY <1>3, <3>1, <3>2, IndexFrame DEF BlockInv, ContentInv, Indexing
  <2> QED BY <2>1, <2>2
<1>8. PlanContent'
  <2>1. \A i \in I : dst[i] \in new
    BY <1>1 DEF new, ImageOf
  <2> QED BY <1>1, <1>4, <1>7, <2>1 DEF PlanContent
<1> QED BY <1>5, <1>6, <1>7, <1>8, ContentInvNext

LEMMA PrepareSwapContent ==
  ASSUME BlockInv, NEW s \in Seqs, NEW t, NEW dst, PrepareSwap(s, t, dst)
  PROVE  ContentInv'
BY PrepareContent DEF PrepareSwap, Movable, Quiet

LEMMA PrepareMoveContent ==
  ASSUME BlockInv, NEW s \in Seqs, NEW t, NEW I, NEW dst, PrepareMove(s, t, I, dst)
  PROVE  ContentInv'
BY PrepareContent DEF PrepareMove, Movable, Quiet

(* The copy writes the targets only. *)
LEMMA CopiedFacts ==
  ASSUME BlockInv, plan # NoPlan, NEW W, W \subseteq DOMAIN plan.dst
  PROVE  /\ \A b \in Block \ PlanTargets : Copied(W)[b] = kv[b]
         /\ \A i \in W : Copied(W)[plan.dst[i]] = kv[plan.src[i]]
         /\ \A b \in PlanTargets : b \in Block /\ b \notin ImageOf(hashToBlock)
                                   /\ \A q \in Seqs : b \notin Held(q)
<1>1. /\ plan.dst \in [DOMAIN plan.dst -> Block] /\ Injective(plan.dst)
      /\ PlanTargets \subseteq Block /\ \A b \in PlanTargets : Holders(b) = {}
  BY PlanFacts DEF BlockInv, PlanSound
<1>2. \A b \in Block \ PlanTargets : Copied(W)[b] = kv[b]
  BY DEF Copied, PlanTargets, ImageOf
<1>3. ASSUME NEW i \in W PROVE Copied(W)[plan.dst[i]] = kv[plan.src[i]]
  <2>1. plan.dst[i] \in Block /\ (CHOOSE j \in W : plan.dst[j] = plan.dst[i]) = i
    BY <1>1 DEF Injective
  <2> QED BY <2>1 DEF Copied
<1>4. \A b \in PlanTargets : b \notin ImageOf(hashToBlock)
  BY DEF PlanTargets, ImageOf, BlockInv, ContentInv, PlanContent
<1> QED BY <1>1, <1>2, <1>3, <1>4 DEF Holders

LEMMA CopyContent == ASSUME BlockInv, CopyBlocks PROVE ContentInv'
<1>1. /\ plan # NoPlan /\ kv' = Copied(DOMAIN plan.dst)
      /\ UNCHANGED <<seqVars, placeVars, poolVars>>
      /\ plan' = [plan EXCEPT !.copied = TRUE]
  BY DEF CopyBlocks
<1>2. /\ plan'.dst = plan.dst /\ plan'.src = plan.src
      /\ plan.src = [i \in DOMAIN plan.dst |-> table[plan.seq][i]]
      /\ plan.seq \in Seqs /\ DOMAIN plan.dst \subseteq DOMAIN table[plan.seq]
  BY <1>1, PlanFacts DEF BlockInv, IndInv, TypeOK, NoPlan
<1>3. ASSUME NEW q \in Seqs PROVE ContentOf(q)'
  <2>1. \A b \in Held(q) : b \in Block
    BY IndInvParts, SeqTypes DEF BlockInv, Held
  <2>2. \A b \in Held(q) : blockHash'[b] = blockHash[b] /\ kv'[b] = kv[b]
    BY <1>1, <2>1, CopiedFacts DEF poolVars
  <2> QED BY <1>1, <2>2, ContentFrame DEF BlockInv, ContentInv, Done, EndOf, seqVars, placeVars
<1>4. SharedHashed'
  BY <1>1 DEF BlockInv, ContentInv, SharedHashed, poolVars
<1>5. Indexing'
  <2>1. \A b \in ImageOf(hashToBlock) : b \in Block /\ kv'[b] = kv[b]
    BY <1>1, CopiedFacts DEF BlockInv, IndInv, TypeOK
  <2> QED BY <1>1, <2>1, IndexFrame DEF BlockInv, ContentInv, Indexing, poolVars
<1>6. PlanContent'
  <2>1. ASSUME NEW i \in DOMAIN plan.dst
        PROVE  kv'[plan.dst[i]] = kv'[plan.src[i]]
    <3>1. plan.src[i] \in Held(plan.seq) /\ plan.src[i] \in Block
      <4>1. plan.src[i] = table[plan.seq][i] /\ i \in DOMAIN table[plan.seq]
        BY <1>2
      <4>2. table[plan.seq] \in Seq(Block)
        BY <1>2, IndInvParts, SeqTypes DEF BlockInv
      <4> QED BY <4>1, <4>2 DEF Held
    <3>2. plan.src[i] \notin PlanTargets
      BY <1>1, <1>2, <3>1, CopiedFacts
    <3> QED BY <1>1, <3>1, <3>2, CopiedFacts
  <2> QED BY <1>1, <1>2, <2>1 DEF PlanContent, BlockInv, ContentInv, poolVars
<1> QED BY <1>3, <1>4, <1>5, <1>6, ContentInvNext

LEMMA AbortContent == ASSUME BlockInv, NEW W, AbortTransfer(W) PROVE ContentInv'
<1>1. /\ plan # NoPlan /\ W \subseteq DOMAIN plan.dst /\ plan' = NoPlan
      /\ kv' = Copied(W)
      /\ refCount' = [b \in Block |-> IF b \in PlanTargets THEN 0 ELSE refCount[b]]
      /\ blockHash' = [b \in Block |-> IF b \in PlanTargets THEN NoHash ELSE blockHash[b]]
      /\ UNCHANGED <<seqVars, placeVars, hashToBlock>>
  BY DEF AbortTransfer, PlanTargets
<1>2. \A b \in Block \ PlanTargets : blockHash'[b] = blockHash[b] /\ kv'[b] = kv[b]
  BY <1>1, CopiedFacts
<1>3. ASSUME NEW q \in Seqs PROVE ContentOf(q)'
  <2>1. \A b \in Held(q) : b \in Block
    BY IndInvParts, SeqTypes DEF BlockInv, Held
  <2>2. \A b \in Held(q) : blockHash'[b] = blockHash[b] /\ kv'[b] = kv[b]
    BY <1>1, <1>2, <2>1, CopiedFacts
  <2> QED BY <1>1, <2>2, ContentFrame DEF BlockInv, ContentInv, Done, EndOf, seqVars, placeVars
<1>4. SharedHashed'
  BY <1>1 DEF BlockInv, ContentInv, SharedHashed
<1>5. Indexing'
  <2>1. \A b \in ImageOf(hashToBlock) : b \in Block /\ b \notin PlanTargets
    BY <1>1, CopiedFacts DEF BlockInv, IndInv, TypeOK
  <2> QED BY <1>1, <1>2, <2>1, IndexFrame DEF BlockInv, ContentInv, Indexing
<1> QED BY <1>1, <1>3, <1>4, <1>5, QuietContentNext, ContentInvNext

(* A hashed block of a table has the content its hash says. *)
LEMMA HashedContent ==
  ASSUME BlockInv, NEW s \in Seqs, NEW i \in DOMAIN table[s], blockHash[table[s][i]] # NoHash
  PROVE  kv[table[s][i]] = blockHash[table[s][i]]
<1>1. /\ tokens[s] \in Seq(Token) /\ table[s] \in Seq(Block) /\ BlockSize \in Nat
      /\ BlockSize > 1 /\ Done(s) \in Nat /\ Done(s) <= Len(tokens[s])
      /\ numCached[s] \in Nat /\ numCached[s] <= Done(s)
      /\ numCached[s] \div BlockSize \in Nat /\ BlocksSpanned(Done(s)) \in Nat
      /\ numCached[s] \div BlockSize <= BlocksSpanned(Done(s))
  BY DoneFacts, IndInvParts, SeqTypes DEF BlockInv
<1>2. i \in Nat /\ i > 0 /\ i <= numCached[s] \div BlockSize
  <2>1. i \in Nat /\ i > 0
    BY <1>1
  <2>2. ~ (i > numCached[s] \div BlockSize)
    BY DEF BlockInv, ContentInv, ContentOf
  <2> QED BY <1>1, <2>1, <2>2
<1>3. i \in 1 .. numCached[s] \div BlockSize /\ i \in 1 .. BlocksSpanned(Done(s))
  BY <1>1, <1>2
<1>4. blockHash[table[s][i]] = Prefix(s, i) /\ Fits(kv[table[s][i]], i, tokens[s], Done(s))
  BY <1>3, ContentParts DEF BlockInv, ContentInv
<1>5. i * BlockSize <= Done(s)
  <2>1. i * BlockSize <= numCached[s]
    BY <1>1, <1>2, SpanOf
  <2>2. i * BlockSize \in Nat
    BY <1>1, <1>2
  <2> QED BY <1>1, <2>1, <2>2
<1>6. kv[table[s][i]] \in Seq(Token)
  BY <1>1 DEF BlockInv, IndInv, TypeOK
<1> QED BY <1>1, <1>2, <1>4, <1>5, <1>6, FullHolds DEF Prefix

(* A commit gives the request its targets and drops the sources.  The      *)
(* blocks that lose their hash are blocks nobody names any more.           *)
LEMMA CommitContent ==
  ASSUME BlockInv, plan # NoPlan, plan.copied, plan' = NoPlan, NEW index,
         \A h \in DOMAIN index : /\ h \in DOMAIN hashToBlock /\ index[h] = hashToBlock[h]
                                 /\ blockHash'[index[h]] = blockHash[index[h]],
         refCount' = RefAfterDrop(ImageOf(plan.src)),
         blockHash' \in [Block -> Hash],
         \A b \in Block : b \notin Freed(ImageOf(plan.src)) => blockHash'[b] = blockHash[b],
         table' = [table EXCEPT ![plan.seq] = Moved(plan.seq)],
         hashToBlock' = IndexWithTargets(index),
         UNCHANGED <<tokens, numCached, numSched, computed, kv>>
  PROVE  ContentInv'
<1>0. PICK s \in Seqs : s = plan.seq
  BY PlanFacts DEF BlockInv
<1> DEFINE source == ImageOf(plan.src)
<1>1. /\ s \in Seqs /\ s = plan.seq /\ DOMAIN plan.dst \subseteq DOMAIN table[s]
      /\ plan.src = [i \in DOMAIN plan.dst |-> table[s][i]] /\ table[s] \in Seq(Block)
      /\ \A i \in DOMAIN plan.dst : TierOf[plan.dst[i]] = plan.to /\ plan.dst[i] \in Block
      /\ TypeOK /\ Injective(table[s])
  BY <1>0, PlanFacts DEF BlockInv, IndInv, RefCountsExact
<1>2. \A i \in DOMAIN plan.dst : plan.dst[i] \in PlanTargets
  BY DEF PlanTargets, ImageOf
<1>3. \A b \in PlanTargets : \A q \in Seqs : b \notin Held(q)
  BY CopiedFacts DEF BlockInv
<1>4. \A b \in source : b \in Held(s) /\ b \in Block
  BY <1>1 DEF ImageOf, Held
(* Only the moved request named the blocks that are freed. *)
<1>5. ASSUME NEW b \in Freed(source), NEW q \in Seqs, b \in Held(q) PROVE q = s
  <2>1. b \in source /\ (TierOf[b] # GPU \/ refCount[b] = 1)
    BY <1>5 DEF Freed
  <2>2. b \in Block /\ refCount[b] \in Nat /\ refCount[b] <= 1
    BY <1>1, <1>4, <2>1 DEF BlockInv, IndInv, PoolPartition, TypeOK
  <2>3. refCount[b] = Cardinality(Holders(b)) + InFlight(b) /\ InFlight(b) \in {0, 1}
    BY <2>2 DEF BlockInv, IndInv, RefCountsExact, InFlight
  <2>4. s \in Holders(b) /\ q \in Holders(b) /\ IsFiniteSet(Holders(b))
        /\ Cardinality(Holders(b)) \in Nat
    BY <1>1, <1>4, <1>5, <2>1, HoldersFinite DEF Holders
  <2>5. Cardinality(Holders(b)) # 0
    BY <1>1, <1>4, <2>1, HoldersEmpty
  <2>6. Cardinality(Holders(b)) = 1
    BY <2>2, <2>3, <2>4, <2>5
  <2>7. PICK x : Holders(b) = {x}
    BY <2>4, <2>6, FS_Singleton
  <2> QED BY <2>4, <2>7
<1> HIDE DEF source
<1>6. ASSUME NEW q \in Seqs, q # s PROVE ContentOf(q)'
  <2>1. \A b \in Held(q) : b \in Block /\ blockHash'[b] = blockHash[b]
    <3>1. \A b \in Held(q) : b \in Block
      BY IndInvParts, SeqTypes DEF BlockInv, Held
    <3> QED BY <1>5, <1>6, <3>1 DEF source
  <2>2. table'[q] = table[q]
    BY <1>1, <1>6 DEF TypeOK
  <2> QED BY <2>1, <2>2, ContentFrame DEF BlockInv, ContentInv, Done, EndOf
(* The new table has the hashes and contents of the old one. *)
<1>7. ASSUME NEW i \in DOMAIN table[s]
      PROVE  /\ blockHash'[Moved(s)[i]] = blockHash[table[s][i]]
             /\ kv[Moved(s)[i]] = kv[table[s][i]]
  <2>1. CASE i \in DOMAIN plan.dst
    <3>1. Moved(s)[i] = plan.dst[i] /\ plan.src[i] = table[s][i]
      BY <1>1, <2>1 DEF Moved
    <3>2. plan.dst[i] \notin Freed(source)
      BY <1>1, <1>2, <1>3, <1>4, <2>1 DEF Freed
    <3>3. blockHash[plan.dst[i]] = blockHash[plan.src[i]] /\ kv[plan.dst[i]] = kv[plan.src[i]]
      BY <2>1 DEF BlockInv, ContentInv, PlanContent
    <3> QED BY <1>1, <2>1, <3>1, <3>2, <3>3 DEF source
  <2>2. CASE i \notin DOMAIN plan.dst
    <3>1. Moved(s)[i] = table[s][i] /\ table[s][i] \in Block
      BY <1>1, <2>2 DEF Moved
    <3>2. table[s][i] \notin source
      BY <1>1, <2>2 DEF source, ImageOf, Injective
    <3> QED BY <3>1, <3>2 DEF Freed, source
  <2> QED BY <2>1, <2>2
<1>8. ContentOf(s)'
  <2>1. table'[s] = Moved(s) /\ DOMAIN Moved(s) = DOMAIN table[s]
    BY <1>1 DEF TypeOK, Moved
  <2>2. Done(s)' = Done(s) /\ ContentOf(s)
    BY <1>1 DEF Done, EndOf, BlockInv, ContentInv
  <2>3. /\ 1 .. numCached[s] \div BlockSize \subseteq DOMAIN table[s]
        /\ 1 .. BlocksSpanned(Done(s)) \subseteq DOMAIN table[s]
    <3>1. /\ numCached[s] \div BlockSize \in Nat /\ BlocksSpanned(Done(s)) \in Nat
          /\ numCached[s] \div BlockSize <= BlocksSpanned(Done(s))
          /\ BlocksSpanned(Done(s)) <= Len(table[s])
      BY <1>1, DoneFacts DEF BlockInv
    <3> QED BY <1>1, <3>1
  <2>4. /\ \A i \in 1 .. numCached[s] \div BlockSize : blockHash'[table'[s][i]] = Prefix(s, i)
        /\ \A i \in DOMAIN table'[s] :
             i > numCached[s] \div BlockSize => blockHash'[table'[s][i]] = NoHash
    BY <1>7, <2>1, <2>2, <2>3 DEF ContentOf
  <2>5. \A i \in 1 .. BlocksSpanned(Done(s)) :
          Fits(kv[table'[s][i]], i, tokens[s], Done(s))
    BY <1>7, <2>1, <2>2, <2>3, ContentParts
  <2> QED BY <2>2, <2>4, <2>5, ContentNext DEF Prefix
<1>9. SharedHashed'
  <2>1. ASSUME NEW b \in Block, refCount'[b] > 1
        PROVE  refCount[b] > 1 /\ b \notin Freed(source)
    BY <1>1, <2>1 DEF RefAfterDrop, Freed, TypeOK, source
  <2> QED BY <2>1 DEF SharedHashed, BlockInv, ContentInv, source
<1>10. Indexing'
  <2> DEFINE targets == IndexOf(ImageOf(plan.dst), blockHash)
  <2>1. ASSUME NEW h \in DOMAIN index
        PROVE  /\ TierOf[index[h]] = GPU /\ blockHash'[index[h]] = h
               /\ kv[index[h]] = h /\ h # NoHash
    BY DEF BlockInv, ContentInv, PrefixIndexSound
  <2>2. ASSUME plan.to = GPU, NEW h \in DOMAIN targets
        PROVE  /\ TierOf[targets[h]] = GPU /\ blockHash'[targets[h]] = h
               /\ kv[targets[h]] = h /\ h # NoHash
    <3> DEFINE b == CHOOSE b \in ImageOf(plan.dst) : blockHash[b] = h
    <3>1. h \in {blockHash[x] : x \in ImageOf(plan.dst)} \ {NoHash} /\ targets[h] = b
      BY <2>2 DEF IndexOf
    <3>2. b \in ImageOf(plan.dst) /\ blockHash[b] = h
      BY <3>1
    <3> HIDE DEF b, targets
    <3>3. PICK i \in DOMAIN plan.dst : b = plan.dst[i]
      BY <3>2 DEF ImageOf
    <3>4. b \notin Freed(source) /\ b \in Block /\ TierOf[b] = GPU
      BY <1>1, <1>2, <1>3, <1>4, <2>2, <3>3 DEF Freed
    <3>5. blockHash[plan.src[i]] = h /\ kv[plan.src[i]] = kv[b]
      BY <3>2, <3>3 DEF BlockInv, ContentInv, PlanContent
    <3>6. plan.src[i] = table[s][i] /\ i \in DOMAIN table[s]
      BY <1>1, <3>3
    <3>7. kv[table[s][i]] = h
      BY <1>1, <3>1, <3>5, <3>6, HashedContent
    <3> QED BY <3>1, <3>2, <3>4, <3>5, <3>6, <3>7 DEF source
  <2>3. CASE plan.to = GPU
    <3>1. hashToBlock' = Override(index, targets)
      BY <2>3 DEF IndexWithTargets
    <3> HIDE DEF targets
    <3>2. ASSUME NEW h \in DOMAIN hashToBlock'
          PROVE  /\ TierOf[hashToBlock'[h]] = GPU /\ blockHash'[hashToBlock'[h]] = h
                 /\ kv[hashToBlock'[h]] = h /\ h # NoHash
      <4>1. /\ h \in DOMAIN index \cup DOMAIN targets
            /\ hashToBlock'[h] = IF h \in DOMAIN targets THEN targets[h] ELSE index[h]
        BY <3>1, <3>2 DEF Override
      <4> QED BY <2>1, <2>2, <2>3, <4>1
    <3> QED BY <3>2 DEF Indexing, PrefixIndexSound
  <2>4. CASE plan.to # GPU
    <3>1. hashToBlock' = index
      BY <2>4 DEF IndexWithTargets
    <3> QED BY <2>1, <3>1 DEF Indexing, PrefixIndexSound
  <2> QED BY <2>3, <2>4
<1> QED BY <1>6, <1>8, <1>9, <1>10, QuietContentNext, ContentInvNext

LEMMA CommitSwapContent == ASSUME BlockInv, CommitSwap PROVE ContentInv'
<1>1. /\ plan # NoPlan /\ plan.copied /\ plan' = NoPlan
      /\ refCount' = RefAfterDrop(ImageOf(plan.src))
      /\ blockHash' = HashAfterDrop(ImageOf(plan.src))
      /\ hashToBlock' = IndexWithTargets(hashToBlock)
      /\ UNCHANGED <<tokens, numCached, numSched, computed, kv>>
  BY DEF CommitSwap, NoPlan
<1>2. table' = [table EXCEPT ![plan.seq] = Moved(plan.seq)]
  BY <1>1, PlanFacts DEF CommitSwap, Moved, BlockInv
<1>3. blockHash' \in [Block -> Hash]
  BY <1>1 DEF HashAfterDrop, NoHash, Hash, BlockInv, IndInv, TypeOK
<1>4. \A b \in Block : b \notin Freed(ImageOf(plan.src)) \/ TierOf[b] = GPU
                         => blockHash'[b] = blockHash[b]
  BY <1>1 DEF HashAfterDrop, Freed
<1>5. \A h \in DOMAIN hashToBlock : blockHash'[hashToBlock[h]] = blockHash[hashToBlock[h]]
  BY <1>4 DEF BlockInv, ContentInv, PrefixIndexSound, IndInv, TypeOK, ImageOf
<1> QED BY <1>1, <1>2, <1>3, <1>4, <1>5, CommitContent

LEMMA CommitMoveContent == ASSUME BlockInv, CommitMove PROVE ContentInv'
<1> DEFINE source == ImageOf(plan.src)
           index == IndexWithout(Freed(source))
<1>1. /\ plan # NoPlan /\ plan.copied /\ plan' = NoPlan
      /\ refCount' = RefAfterDrop(source)
      /\ blockHash' = [b \in Block |-> IF b \in Freed(source) THEN NoHash ELSE blockHash[b]]
      /\ hashToBlock' = IndexWithTargets(index)
      /\ UNCHANGED <<tokens, numCached, numSched, computed, kv>>
  BY DEF CommitMove, NoPlan
<1>2. table' = [table EXCEPT ![plan.seq] = Moved(plan.seq)]
  BY <1>1, PlanFacts DEF CommitMove, Moved, BlockInv, TypeOK
<1>3. blockHash' \in [Block -> Hash]
  BY <1>1 DEF NoHash, Hash, BlockInv, IndInv, TypeOK
<1>4. \A b \in Block : b \notin Freed(source) => blockHash'[b] = blockHash[b]
  BY <1>1
<1>5. \A h \in DOMAIN index : /\ h \in DOMAIN hashToBlock /\ index[h] = hashToBlock[h]
                              /\ blockHash'[index[h]] = blockHash[index[h]]
  <2>1. ASSUME NEW h \in DOMAIN index
        PROVE  h \in DOMAIN hashToBlock /\ index[h] = hashToBlock[h]
               /\ hashToBlock[h] \in Block /\ hashToBlock[h] \notin Freed(source)
    BY DEF IndexWithout, BlockInv, ContentInv, PrefixIndexSound, IndInv, TypeOK, ImageOf
  <2> QED BY <1>4, <2>1
<1> HIDE DEF index
<1> QED BY <1>1, <1>2, <1>3, <1>4, <1>5, CommitContent

-----------------------------------------------------------------------------
LEMMA InitBlockInv == ASSUME Init PROVE BlockInv
<1>1. ASSUME NEW s \in Seqs PROVE ContentOf(s)
  <2>1. numCached[s] = 0 /\ table[s] = << >> /\ Done(s) = 0 /\ DOMAIN table[s] = {}
    BY DEF Init, Done
  <2>2. BlocksSpanned(0) = 0 /\ 0 \div BlockSize = 0
    <3>1. BlockSize \in Nat /\ BlockSize > 1
      BY ConstantsAssumption
    <3> QED BY <3>1 DEF BlocksSpanned
  <2> QED BY <2>1, <2>2, ContentParts
<1>2. SharedHashed
  BY DEF Init, SharedHashed
<1>3. PlanContent
  BY DEF Init, PlanContent, NoPlan
<1>4. Indexing
  BY DEF Init, Indexing, PrefixIndexSound
<1> QED BY <1>1, <1>2, <1>3, <1>4, InitEstablishes, ContentInvParts DEF BlockInv

LEMMA BlockInvStep == ASSUME BlockInv, [Next]_vars PROVE BlockInv'
<1>1. IndInv'
  BY StepPreserves DEF BlockInv
<1>2. CASE UNCHANGED vars
  <2>1. ContentInv'
    BY <1>2, BlocksUntouched DEF vars, seqVars, placeVars, poolVars, Done, EndOf
  <2> QED BY <1>1, <2>1 DEF BlockInv
<1>3. ASSUME NEW s \in Seqs, Add(s) PROVE ContentInv'
  BY <1>3, AddContent
<1>4. ASSUME NEW s \in Seqs, Prefill(s) PROVE ContentInv'
  BY <1>4, PrefillNewContent, PrefillMoreContent DEF Prefill
<1>5. ASSUME NEW s \in Seqs, Run(s) PROVE ContentInv'
  BY <1>5, RunContent
<1>6. ASSUME NEW s \in Seqs, Post(s) PROVE ContentInv'
  BY <1>6, PostChunkContent, PostTokenContent, PostFinishContent DEF Post
<1>7. ASSUME NEW s \in Seqs, Recompute(s) PROVE ContentInv'
  BY <1>7, RecomputeContent
<1>8. ASSUME NEW s \in Seqs, Prepare(s) PROVE ContentInv'
  BY <1>8, PrepareSwapContent, PrepareMoveContent DEF Prepare
<1>9. ASSUME NEW s \in Seqs, NEW b \in Block, Decode(s, b) \/ Resume(s, b) PROVE ContentInv'
  BY <1>9, DecodeContent, ResumeContent
<1>10. ASSUME Transfer PROVE ContentInv'
  BY <1>10, CopyContent, CommitSwapContent, CommitMoveContent, AbortContent DEF Transfer
<1>11. ASSUME ClearPrefixCache PROVE ContentInv'
  BY <1>11, ClearContent
<1> QED BY <1>1, <1>2, <1>3, <1>4, <1>5, <1>6, <1>7, <1>8, <1>9, <1>10, <1>11
        DEF Next, BlockInv

(* Ownership, shapes and contents of the blocks are invariant: the         *)
(* conjunction of the class's bookkeeping and what hash_blocks, may_append,*)
(* the transfers and the model run leave in the blocks.                    *)
THEOREM BlockInvariance == Spec => []BlockInv
<1>1. Init => BlockInv
  BY InitBlockInv
<1>2. BlockInv /\ [Next]_vars => BlockInv'
  BY BlockInvStep
<1> QED BY <1>1, <1>2, PTL DEF Spec

(* hash_to_block_id never leads can_allocate to a block that holds another *)
(* prefix, was evicted, moved, aborted or not yet computed.                *)
THEOREM IndexSound == Spec => []PrefixIndexSound
<1>1. BlockInv => PrefixIndexSound
  BY DEF BlockInv, ContentInv
<1> QED BY <1>1, BlockInvariance, PTL

(* The slots that prepare_prefill and prepare_decode hand to the model lie *)
(* in blocks of the request alone, which the index does not offer.         *)
THEOREM ExclusiveWrites == Spec => []WriteExclusive
<1>1. ASSUME BlockInv PROVE WriteExclusive
  BY <1>1, WrittenOwn DEF WriteExclusive, WrittenBlocks
<1>2. BlockInv => WriteExclusive
  BY <1>1
<1> QED BY <1>2, BlockInvariance, PTL

(* The attention of every request finds the KV entries of that request's   *)
(* own tokens, whatever was shared, evicted, demoted or aborted before.    *)
THEOREM CorrectView == Spec => []ViewCorrect
<1>1. ASSUME BlockInv PROVE ViewCorrect
  BY <1>1, ViewFromContent DEF ViewCorrect
<1>2. BlockInv => ViewCorrect
  BY <1>1
<1> QED BY <1>2, BlockInvariance, PTL

(* A transfer plan stays valid until commit or abort: the RuntimeErrors of *)
(* commit_swap and commit_block_move are never raised.                     *)
THEOREM PlansSound == Spec => []PlanSound
<1>1. IndInv => PlanSound
  BY DEF IndInv
<1> QED BY <1>1, Invariance, PTL

-----------------------------------------------------------------------------
(***************************************************************************)
(* BlockManager implements KVView.                                         *)
(***************************************************************************)
ContextOf(x, n) == [p \in 1 .. n |-> SubSeq(x, 1, p)]

(* A content that fits a text has every prefix of it up to the position.   *)
LEMMA FitsPrefix ==
  ASSUME NEW c \in Seq(Token), NEW i \in Nat, NEW x \in Seq(Token), NEW m \in Nat,
         m <= Len(x), BlockSize \in Nat, Fits(c, i, x, m),
         NEW p \in Nat, p <= m, p <= i * BlockSize
  PROVE  p <= Len(c) /\ SubSeq(c, 1, p) = SubSeq(x, 1, p)
<1> DEFINE u == Min2(m, i * BlockSize)
<1>1. u \in Nat /\ p <= u /\ u <= Len(x) /\ i * BlockSize \in Nat
  BY DEF Min2
<1>2. Len(c) >= u /\ SubSeq(c, 1, u) = SubSeq(x, 1, u)
  BY DEF Fits
<1>3. Len(c) \in Nat
  OBVIOUS
<1> HIDE DEF u
<1>4. SubSeq(c, 1, p) = SubSeq(x, 1, p)
  BY <1>1, <1>2, <1>3, PrefixesExtend
<1> QED BY <1>1, <1>2, <1>3, <1>4

LEMMA BlockOfPosition ==
  ASSUME NEW p \in Nat, p > 0, NEW b \in Nat, b > 1
  PROVE  /\ (p + b - 1) \div b \in Nat /\ (p + b - 1) \div b > 0
         /\ p <= ((p + b - 1) \div b) * b
OBVIOUS

(* What the attention of a request finds is its context. *)
LEMMA SeenIsContext ==
  ASSUME BlockInv, NEW s \in Seqs
  PROVE  Seen(s) = ContextOf(tokens[s], numCached[s])
<1>1. /\ tokens[s] \in Seq(Token) /\ table[s] \in Seq(Block) /\ BlockSize \in Nat
      /\ BlockSize > 1 /\ Done(s) \in Nat /\ Done(s) <= Len(tokens[s])
      /\ numCached[s] \in Nat /\ numCached[s] <= Done(s)
      /\ BlocksSpanned(Done(s)) \in Nat /\ BlocksSpanned(Done(s)) <= Len(table[s])
  BY DoneFacts, IndInvParts, SeqTypes DEF BlockInv
<1>2. ASSUME NEW p \in 1 .. numCached[s]
      PROVE  LET content == kv[table[s][BlocksSpanned(p)]]
             IN p <= Len(content) /\ SubSeq(content, 1, p) = SubSeq(tokens[s], 1, p)
  <2> DEFINE i == BlocksSpanned(p)
  <2>1. p \in Nat /\ p > 0 /\ p <= Done(s)
    BY <1>1
  <2>2. i \in Nat /\ i > 0 /\ p <= i * BlockSize
    BY <1>1, <2>1, BlockOfPosition DEF BlocksSpanned
  <2>3. i <= BlocksSpanned(Done(s))
    BY <1>1, <2>1, SpanMonotone DEF BlocksSpanned
  <2> HIDE DEF i
  <2>4. i \in 1 .. BlocksSpanned(Done(s)) /\ i \in DOMAIN table[s]
    BY <1>1, <2>2, <2>3
  <2>5. kv[table[s][i]] \in Seq(Token)
    BY <1>1, <2>4 DEF BlockInv, IndInv, TypeOK
  <2>6. Fits(kv[table[s][i]], i, tokens[s], Done(s))
    BY <2>4, ContentParts DEF BlockInv, ContentInv
  <2>7. p <= Len(kv[table[s][i]])
        /\ SubSeq(kv[table[s][i]], 1, p) = SubSeq(tokens[s], 1, p)
    <3> DEFINE c == kv[table[s][i]]
               m == Done(s)
    <3>1. c \in Seq(Token) /\ m \in Nat /\ m <= Len(tokens[s]) /\ p <= m
          /\ Fits(c, i, tokens[s], m)
      BY <1>1, <2>1, <2>5, <2>6
    <3> HIDE DEF c, m
    <3>2. p <= Len(c) /\ SubSeq(c, 1, p) = SubSeq(tokens[s], 1, p)
      BY <1>1, <2>1, <2>2, <3>1, FitsPrefix
    <3> QED BY <3>2 DEF c
  <2> QED BY <2>7 DEF i
<1> QED BY <1>2 DEF Seen, ContextOf

SeenInv == \A s \in Seqs : Seen(s) = ContextOf(tokens[s], numCached[s])
ViewNow == [s \in Seqs |-> Seen(s)]
Over == {s \in Seqs : status[s] = "finished"}

LEMMA EmptyContext == ASSUME NEW x PROVE ContextOf(x, 0) = << >>
BY DEF ContextOf

LEMMA ContextLength ==
  ASSUME NEW x, NEW n \in Nat PROVE Len(ContextOf(x, n)) = n
BY DEF ContextOf

(* Nothing a request can see changed. *)
LEMMA ViewKeeps ==
  ASSUME SeenInv, SeenInv', UNCHANGED <<tokens, numCached>>, Over' = Over
  PROVE  UNCHANGED View!vars
<1>1. \A s \in Seqs : Seen(s)' = Seen(s)
  BY DEF SeenInv
<1>2. ViewNow' = ViewNow
  BY <1>1 DEF ViewNow
<1> QED BY <1>2 DEF View!vars, ViewNow, Over

(* The view of one request became the context of n of its tokens. *)
LEMMA ViewOfOne ==
  ASSUME SeenInv, SeenInv', NEW s \in Seqs, NEW n,
         Seen(s)' = ContextOf(tokens[s], n),
         \A t \in Seqs \ {s} : tokens'[t] = tokens[t] /\ numCached'[t] = numCached[t]
  PROVE  ViewNow' = [ViewNow EXCEPT ![s] = ContextOf(tokens[s], n)]
<1>1. \A t \in Seqs : Seen(t)' = IF t = s THEN ContextOf(tokens[s], n) ELSE Seen(t)
  BY DEF SeenInv
<1> QED BY <1>1 DEF ViewNow

LEMMA LearnStep ==
  ASSUME SeenInv, SeenInv', BlockInv, NEW s \in Seqs, NEW n \in 1 .. Len(tokens[s]),
         n > numCached[s], status[s] # "finished",
         UNCHANGED tokens, Over' = Over, numCached' = [numCached EXCEPT ![s] = n]
  PROVE  View!Next
<1>1. numCached \in [Seqs -> Nat] /\ Len(tokens[s]) \in Nat
  BY IndInvParts, SeqTypes DEF BlockInv, TypeOK
<1>2. Seen(s)' = ContextOf(tokens[s], n)
  BY <1>1 DEF SeenInv
<1>3. ViewNow' = [ViewNow EXCEPT ![s] = ContextOf(tokens[s], n)]
  BY <1>1, <1>2, ViewOfOne
<1>4. n > Len(ViewNow[s])
  <2>1. ViewNow[s] = ContextOf(tokens[s], numCached[s])
    BY DEF ViewNow, SeenInv
  <2>2. Len(ViewNow[s]) = numCached[s]
    BY <1>1, <2>1, ContextLength
  <2> QED BY <2>2
<1>5. View!Learn(s, n)
  BY <1>3, <1>4 DEF View!Learn, View!Context, View!FirstOf, ContextOf, ViewNow, Over
<1> QED BY <1>5 DEF View!Next

LEMMA AnswerStep ==
  ASSUME SeenInv, SeenInv', BlockInv, NEW s \in Seqs, NEW t \in Token, PostToken(s, t)
  PROVE  View!Next
<1>1. /\ s \in computed /\ EndOf(s) = Len(tokens[s]) /\ status' = status
      /\ numCached' = [numCached EXCEPT ![s] = EndOf(s)]
      /\ tokens' = [tokens EXCEPT ![s] = Append(@, t)]
  BY DEF PostToken
<1>2. /\ numCached \in [Seqs -> Nat] /\ tokens \in [Seqs -> Seq(Token)]
      /\ Len(tokens[s]) \in Nat /\ status[s] # "finished"
  BY <1>1, IndInvParts, SeqTypes, FilledFacts DEF BlockInv, TypeOK, Shape, ScheduleOf
<1>3. Seen(s)' = ContextOf(tokens[s], Len(tokens[s]))
  <2>1. Seen(s)' = ContextOf(Append(tokens[s], t), Len(tokens[s]))
    BY <1>1, <1>2 DEF SeenInv
  <2>2. \A p \in 1 .. Len(tokens[s]) :
          SubSeq(Append(tokens[s], t), 1, p) = SubSeq(tokens[s], 1, p)
    BY <1>2, PrefixOfAppend
  <2> QED BY <2>1, <2>2 DEF ContextOf
<1>4. ViewNow' = [ViewNow EXCEPT ![s] = ContextOf(tokens[s], Len(tokens[s]))]
  BY <1>1, <1>2, <1>3, ViewOfOne
<1>5. View!Answer(s, t)
  BY <1>1, <1>2, <1>4 DEF View!Answer, View!Context, View!FirstOf, ContextOf, ViewNow
<1> QED BY <1>5 DEF View!Next

(* A request that gives up its blocks gives up its view. *)
LEMMA ViewGivenUp ==
  ASSUME SeenInv, SeenInv', BlockInv, NEW s \in Seqs,
         numCached' = [numCached EXCEPT ![s] = 0],
         \A t \in Seqs \ {s} : tokens'[t] = tokens[t]
  PROVE  ViewNow' = [ViewNow EXCEPT ![s] = << >>]
<1>1. numCached \in [Seqs -> Nat]
  BY IndInvParts DEF BlockInv, TypeOK
<1>2. Seen(s)' = << >>
  BY <1>1, EmptyContext DEF SeenInv
<1>3. << >> = ContextOf(tokens[s], 0)
  BY EmptyContext
<1> QED BY <1>1, <1>2, <1>3, ViewOfOne

LEMMA FinishStep ==
  ASSUME SeenInv, SeenInv', BlockInv, NEW s \in Seqs, NEW t \in Token, PostFinish(s, t)
  PROVE  View!Next
<1>1. /\ s \in computed /\ status' = [status EXCEPT ![s] = "finished"]
      /\ numCached' = [numCached EXCEPT ![s] = 0]
      /\ tokens' = [tokens EXCEPT ![s] = Append(@, t)]
  BY DEF PostFinish, Deallocate
<1>2. /\ status[s] # "finished" /\ tokens \in [Seqs -> Seq(Token)]
      /\ DOMAIN status = Seqs
  BY <1>1, IndInvParts, FilledFacts DEF BlockInv, TypeOK, Shape, ScheduleOf
<1>3. ViewNow' = [ViewNow EXCEPT ![s] = << >>]
  BY <1>1, <1>2, ViewGivenUp
<1>4. Over' = Over \cup {s}
  BY <1>1, <1>2 DEF Over
<1>5. View!Finish(s, t)
  BY <1>1, <1>2, <1>3, <1>4 DEF View!Finish, ViewNow, Over
<1> QED BY <1>5 DEF View!Next

LEMMA ForgetStep ==
  ASSUME SeenInv, SeenInv', BlockInv, NEW s \in Seqs, Recompute(s)
  PROVE  View!Next
<1>1. /\ status[s] = "running" /\ status' = [status EXCEPT ![s] = "waiting"]
      /\ numCached' = [numCached EXCEPT ![s] = 0] /\ tokens' = tokens
  BY DEF Recompute, Deallocate
<1>2. ViewNow' = [ViewNow EXCEPT ![s] = << >>]
  BY <1>1, ViewGivenUp
<1>3. Over' = Over
  BY <1>1, IndInvParts DEF Over, BlockInv, TypeOK
<1>4. View!Forget(s)
  BY <1>1, <1>2, <1>3 DEF View!Forget, ViewNow, Over
<1> QED BY <1>4 DEF View!Next

(* allocate attaches the cached prefix it found, if any. *)
LEMMA AttachStep ==
  ASSUME SeenInv, SeenInv', BlockInv, NEW s \in Seqs, NEW n, NEW fresh, NEW c,
         PrefillNew(s, n, fresh, c)
  PROVE  View!Next \/ UNCHANGED View!vars
<1>1. /\ status[s] = "waiting" /\ table[s] = << >> /\ n \in 0 .. NumBlocks(s) - 1
      /\ numCached' = [numCached EXCEPT ![s] = n * BlockSize] /\ tokens' = tokens
      /\ c \in 1 .. Len(tokens[s]) - n * BlockSize
      /\ status' = [status EXCEPT ![s] =
                      IF n * BlockSize + c = Len(tokens[s]) THEN "running" ELSE "waiting"]
  BY DEF PrefillNew, CanAllocate, ScheduleChunk
<1>2. /\ numCached \in [Seqs -> Nat] /\ status \in [Seqs -> {"new", "waiting", "running", "swapped", "finished"}]
      /\ numCached[s] = 0 /\ BlockSize \in Nat /\ BlockSize > 1 /\ Len(tokens[s]) \in Nat
      /\ NumBlocks(s) \in Nat
  BY <1>1, IndInvParts, SeqTypes DEF BlockInv, TypeOK, Shape, ScheduleOf
<1>3. Over' = Over
  BY <1>1, <1>2 DEF Over
<1>4. n \in Nat /\ n * BlockSize \in Nat /\ n * BlockSize <= Len(tokens[s])
  BY <1>1, <1>2
<1>5. CASE n = 0
  <2>1. numCached' = numCached
    BY <1>1, <1>2, <1>5
  <2> QED BY <1>1, <1>3, <2>1, ViewKeeps
<1>6. CASE n > 0
  <2>1. n * BlockSize > 0
    BY <1>2, <1>4, <1>6
  <2> DEFINE m == n * BlockSize
  <2>2. m \in 1 .. Len(tokens[s]) /\ m > numCached[s]
    BY <1>2, <1>4, <2>1
  <2>3. numCached' = [numCached EXCEPT ![s] = m]
    BY <1>1
  <2> HIDE DEF m
  <2> QED BY <1>1, <1>3, <2>2, <2>3, LearnStep
<1> QED BY <1>4, <1>5, <1>6

LEMMA ChunkStep ==
  ASSUME SeenInv, SeenInv', BlockInv, NEW s \in Seqs, PostChunk(s)
  PROVE  View!Next
<1>1. /\ s \in computed /\ EndOf(s) < Len(tokens[s]) /\ UNCHANGED <<tokens, status>>
      /\ numCached' = [numCached EXCEPT ![s] = EndOf(s)]
  BY DEF PostChunk
<1>2. /\ numSched[s] > 0 /\ EndOf(s) = numCached[s] + numSched[s]
      /\ numCached[s] \in Nat /\ numSched[s] \in Nat /\ Len(tokens[s]) \in Nat
      /\ status[s] # "finished"
  BY <1>1, IndInvParts, SeqTypes, FilledFacts DEF BlockInv, EndOf, Shape, ScheduleOf
<1>3. Over' = Over
  BY <1>1 DEF Over
<1>4. EndOf(s) \in 1 .. Len(tokens[s]) /\ EndOf(s) > numCached[s]
  BY <1>1, <1>2
<1> QED BY <1>1, <1>2, <1>3, <1>4, LearnStep

(* Every step of the manager is a step of the view or leaves it alone.     *)
LEMMA ViewStep ==
  ASSUME SeenInv, SeenInv', BlockInv, [Next]_vars
  PROVE  View!Next \/ UNCHANGED View!vars
<1>0. status \in [Seqs -> {"new", "waiting", "running", "swapped", "finished"}]
  BY DEF BlockInv, IndInv, TypeOK
<1>1. CASE UNCHANGED vars
  BY <1>1, ViewKeeps DEF vars, seqVars, Over
<1>2. ASSUME NEW s \in Seqs, Add(s) PROVE UNCHANGED View!vars
  <2>1. Over' = Over
    BY <1>0, <1>2 DEF Add, Over
  <2> QED BY <1>2, <2>1, ViewKeeps DEF Add
<1>3. ASSUME NEW s \in Seqs, NEW c, PrefillMore(s, c) PROVE UNCHANGED View!vars
  <2>1. Over' = Over
    BY <1>0, <1>3 DEF PrefillMore, ScheduleChunk, Over
  <2> QED BY <1>3, <2>1, ViewKeeps DEF PrefillMore
<1>4. ASSUME NEW s \in Seqs, Run(s) PROVE UNCHANGED View!vars
  BY <1>4, ViewKeeps DEF Run, Over
<1>5. ASSUME NEW s \in Seqs, NEW b \in Block, Decode(s, b) \/ Resume(s, b)
      PROVE  UNCHANGED View!vars
  <2>1. Over' = Over
    BY <1>0, <1>5 DEF Decode, Resume, Over
  <2> QED BY <1>5, <2>1, ViewKeeps DEF Decode, Resume
<1>6. ASSUME NEW s \in Seqs, Prepare(s) PROVE UNCHANGED View!vars
  <2>1. UNCHANGED seqVars
    BY <1>6 DEF Prepare, PrepareSwap, PrepareMove
  <2> QED BY <2>1, ViewKeeps DEF seqVars, Over
<1>7. ASSUME Transfer PROVE UNCHANGED View!vars
  <2>1. CASE CopyBlocks \/ \E W \in SUBSET DOMAIN plan.dst : AbortTransfer(W)
    <3>1. UNCHANGED seqVars
      BY <2>1 DEF CopyBlocks, AbortTransfer
    <3> QED BY <3>1, ViewKeeps DEF seqVars, Over
  <2>2. CASE CommitSwap \/ CommitMove
    <3>1. plan # NoPlan /\ status' = StatusAfterMove /\ UNCHANGED <<tokens, numCached>>
      BY <2>2 DEF CommitSwap, CommitMove, NoPlan
    <3>2. plan.seq \in Seqs /\ Active(plan.seq)
      BY <3>1, PlanFacts DEF BlockInv
    <3>3. Over' = Over
      BY <1>0, <3>1, <3>2 DEF StatusAfterMove, Over, Active
    <3> QED BY <3>1, <3>3, ViewKeeps
  <2> QED BY <1>7, <2>1, <2>2 DEF Transfer
<1>8. ASSUME ClearPrefixCache PROVE UNCHANGED View!vars
  BY <1>8, ViewKeeps DEF ClearPrefixCache, seqVars, Over
<1>9. ASSUME NEW s \in Seqs, Prefill(s) PROVE View!Next \/ UNCHANGED View!vars
  BY <1>3, <1>9, AttachStep DEF Prefill
<1>10. ASSUME NEW s \in Seqs, Post(s) PROVE View!Next
  BY <1>10, ChunkStep, AnswerStep, FinishStep DEF Post
<1>11. ASSUME NEW s \in Seqs, Recompute(s) PROVE View!Next
  BY <1>11, ForgetStep
<1> QED BY <1>1, <1>2, <1>4, <1>5, <1>6, <1>7, <1>8, <1>9, <1>10, <1>11 DEF Next

LEMMA InitView == ASSUME Init PROVE View!Init
<1>1. \A s \in Seqs : Seen(s) = << >>
  <2>1. ASSUME NEW s \in Seqs PROVE Seen(s) = << >>
    <3>1. numCached[s] = 0
      BY DEF Init
    <3>2. Seen(s) = ContextOf(tokens[s], numCached[s])
      BY InitBlockInv, SeenIsContext
    <3> QED BY <3>1, <3>2, EmptyContext
  <2> QED BY <2>1
<1>2. Over = {}
  BY DEF Init, Over
<1> QED BY <1>1, <1>2 DEF Init, View!Init, Over

(* Block tables, sharing, eviction and tiers are invisible: every request  *)
(* sees its own context and only its own steps change it.                  *)
THEOREM ViewRefinement == Spec => ImplementsKVView
<1>1. BlockInv => SeenInv
  BY SeenIsContext DEF SeenInv
<1>2. Init => View!Init
  BY InitView
<1>3. SeenInv /\ SeenInv' /\ BlockInv /\ [Next]_vars => [View!Next]_(View!vars)
  BY ViewStep
<1> QED BY <1>1, <1>2, <1>3, BlockInvariance, PTL
        DEF Spec, View!Spec, ImplementsKVView
=============================================================================
