------------------------- MODULE BlockManagerProofs -------------------------
(***************************************************************************)
(* Theorems about BlockManager for any number of requests, blocks, tiers   *)
(* and any block size above one: the ownership of blocks (reference        *)
(* counts, pools, tags) and the shape of the block tables are invariant.   *)
(***************************************************************************)
EXTENDS BlockManager, FiniteSetTheorems, TLAPS

(***************************************************************************)
(* Arithmetic of block numbers, for an arbitrary block size.               *)
(***************************************************************************)
LEMMA DivNat ==
  ASSUME NEW a \in Nat, NEW b \in Nat \ {0}
  PROVE  a \div b \in Nat
OBVIOUS

LEMMA DivMonotone ==
  ASSUME NEW a \in Nat, NEW c \in Nat, NEW b \in Nat \ {0}, a <= c
  PROVE  a \div b \in Nat /\ a \div b <= c \div b
OBVIOUS

(* One more token opens a new block exactly when may_append asks for one. *)
LEMMA SpanOfNext ==
  ASSUME NEW n \in Nat, NEW b \in Nat, b > 1, n > 0
  PROVE  (n + b - 1) \div b
           = ((n - 1) + b - 1) \div b + (IF n % b = 1 THEN 1 ELSE 0)
OBVIOUS

LEMMA SpanBounds ==
  ASSUME NEW n \in Nat, NEW b \in Nat, b > 1
  PROVE  /\ (n + b - 1) \div b \in Nat
         /\ n > 0 => (n + b - 1) \div b > 0
         /\ n \div b <= (n + b - 1) \div b
OBVIOUS

LEMMA TimesInjective ==
  ASSUME NEW i \in Nat, NEW j \in Nat, NEW b \in Nat, b > 0, i * b = j * b
  PROVE  i = j
OBVIOUS

LEMMA TimesMonotone ==
  ASSUME NEW i \in Nat, NEW j \in Nat, NEW b \in Nat, i <= j
  PROVE  i * b \in Nat /\ i * b <= j * b
OBVIOUS

(* n full blocks cover n blocks. *)
LEMMA SpanOfFull ==
  ASSUME NEW n \in Nat, NEW b \in Nat, b > 1
  PROVE  (n * b + b - 1) \div b = n
OBVIOUS

-----------------------------------------------------------------------------
(***************************************************************************)
(* When the block table of one request becomes f, the holders of a block   *)
(* change by that request only.                                            *)
(***************************************************************************)
LEMMA HoldersFinite ==
  ASSUME NEW b PROVE IsFiniteSet(Holders(b)) /\ Cardinality(Holders(b)) \in Nat
<1>1. IsFiniteSet(Holders(b))
  BY ConstantsAssumption, FS_Subset DEF Holders
<1> QED BY <1>1, FS_CardinalityType

LEMMA HoldersUpdate ==
  ASSUME table \in [Seqs -> Seq(Block)], NEW s \in Seqs, NEW f,
         table' = [table EXCEPT ![s] = f], NEW b
  PROVE  Holders(b)' = IF b \in ImageOf(f) THEN Holders(b) \cup {s}
                       ELSE Holders(b) \ {s}
BY DEF Holders, Held, ImageOf

LEMMA HoldersCount ==
  ASSUME table \in [Seqs -> Seq(Block)], NEW s \in Seqs, NEW f,
         table' = [table EXCEPT ![s] = f], NEW b
  PROVE  Cardinality(Holders(b)') =
           Cardinality(Holders(b))
             + (IF b \in ImageOf(f) /\ b \notin Held(s) THEN 1 ELSE 0)
             - (IF b \notin ImageOf(f) /\ b \in Held(s) THEN 1 ELSE 0)
<1>1. Holders(b)' = IF b \in ImageOf(f) THEN Holders(b) \cup {s} ELSE Holders(b) \ {s}
  BY HoldersUpdate
<1>2. s \in Holders(b) <=> b \in Held(s)
  BY DEF Holders
<1>3. IsFiniteSet(Holders(b)) /\ Cardinality(Holders(b)) \in Nat
  BY HoldersFinite
<1>4. CASE b \in ImageOf(f) /\ b \notin Held(s)
  <2>1. Holders(b)' = Holders(b) \cup {s} /\ s \notin Holders(b)
    BY <1>1, <1>2, <1>4
  <2>2. Cardinality(Holders(b)') = Cardinality(Holders(b)) + 1
    BY <2>1, <1>3, FS_AddElement
  <2> QED BY <2>2, <1>3, <1>4
<1>5. CASE b \in ImageOf(f) /\ b \in Held(s)
  <2>1. Holders(b)' = Holders(b)
    BY <1>1, <1>2, <1>5
  <2> QED BY <2>1, <1>3, <1>5
<1>6. CASE b \notin ImageOf(f) /\ b \in Held(s)
  <2>1. Holders(b)' = Holders(b) \ {s} /\ s \in Holders(b)
    BY <1>1, <1>2, <1>6
  <2>2. Cardinality(Holders(b)') = Cardinality(Holders(b)) - 1
    BY <2>1, <1>3, FS_RemoveElement
  <2> QED BY <2>2, <1>3, <1>6
<1>7. CASE b \notin ImageOf(f) /\ b \notin Held(s)
  <2>1. Holders(b)' = Holders(b)
    BY <1>1, <1>2, <1>7
  <2> QED BY <2>1, <1>3, <1>7
<1> QED BY <1>4, <1>5, <1>6, <1>7

(* A block nobody holds has no holders, and conversely. *)
LEMMA HoldersEmpty ==
  ASSUME NEW b
  PROVE  (Cardinality(Holders(b)) = 0) <=> (\A s \in Seqs : b \notin Held(s))
<1>1. (Cardinality(Holders(b)) = 0) <=> (Holders(b) = {})
  BY HoldersFinite, FS_EmptySet
<1> QED BY <1>1 DEF Holders

(* No transfer in flight, no reference taken for one. *)
LEMMA QuietTargets ==
  ASSUME plan = NoPlan PROVE PlanTargets = {} /\ \A b : InFlight(b) = 0
<1>1. DOMAIN NoPlan.dst = {}
  BY DEF NoPlan
<1> QED BY <1>1 DEF PlanTargets, ImageOf, InFlight

LEMMA QuietTargetsNext ==
  ASSUME plan' = NoPlan PROVE PlanTargets' = {} /\ \A b : InFlight(b)' = 0
<1>1. DOMAIN NoPlan.dst = {}
  BY DEF NoPlan
<1> QED BY <1>1 DEF PlanTargets, ImageOf, InFlight

Owned == RefCountsExact /\ PoolPartition

(* Nothing that ownership depends on changed. *)
LEMMA OwnedFrame ==
  ASSUME Owned, UNCHANGED <<table, refCount, free, used>>, PlanTargets' = PlanTargets
  PROVE  Owned'
BY DEF Owned, RefCountsExact, PoolPartition, Holders, Held, InFlight, Injective

-----------------------------------------------------------------------------
(***************************************************************************)
(* A request takes one reference to each block it adds to its table.       *)
(***************************************************************************)
LEMMA OwnedAcquire ==
  ASSUME TypeOK, Owned, plan = NoPlan, plan' = plan,
         NEW s \in Seqs, NEW f, Injective(f),
         table' = [table EXCEPT ![s] = f],
         Held(s) \subseteq ImageOf(f), ImageOf(f) \subseteq Block,
         \A b \in ImageOf(f) \ Held(s) : TierOf[b] = GPU,
         refCount' = [b \in Block |-> IF b \in ImageOf(f) \ Held(s)
                                      THEN refCount[b] + 1 ELSE refCount[b]],
         free' = free \ (ImageOf(f) \ Held(s)),
         used' = used \cup (ImageOf(f) \ Held(s))
  PROVE  Owned'
<1> DEFINE added == ImageOf(f) \ Held(s)
<1>1. ASSUME NEW b \in Block
      PROVE  refCount'[b] = Cardinality(Holders(b)') + InFlight(b)'
  <2>1. refCount[b] = Cardinality(Holders(b)) + 0
    BY QuietTargets DEF Owned, RefCountsExact
  <2>2. Cardinality(Holders(b)') = Cardinality(Holders(b)) + (IF b \in added THEN 1 ELSE 0)
    <3>1. table \in [Seqs -> Seq(Block)]
      BY DEF TypeOK
    <3>2. Cardinality(Holders(b)) \in Nat
      BY HoldersFinite
    <3>3. Cardinality(Holders(b)') = Cardinality(Holders(b))
             + (IF b \in ImageOf(f) /\ b \notin Held(s) THEN 1 ELSE 0)
             - (IF b \notin ImageOf(f) /\ b \in Held(s) THEN 1 ELSE 0)
      BY <3>1, HoldersCount
    <3>4. ~ (b \notin ImageOf(f) /\ b \in Held(s))
      OBVIOUS
    <3> QED BY <3>2, <3>3, <3>4
  <2>3. InFlight(b)' = 0
    <3>1. InFlight(b)' = InFlight(b)
      BY DEF InFlight, PlanTargets
    <3> QED BY <3>1, QuietTargets
  <2>4. Cardinality(Holders(b)) \in Nat
    BY HoldersFinite
  <2> QED BY <2>1, <2>2, <2>3, <2>4
<1>2. ASSUME NEW t \in Seqs PROVE Injective(table'[t])
  BY DEF Owned, RefCountsExact, TypeOK, Injective
<1>3. free' = {b \in Block : refCount'[b] = 0}
  BY DEF Owned, PoolPartition, TypeOK
<1>4. used' = {b \in Block : TierOf[b] = GPU} \ free'
  BY DEF Owned, PoolPartition
<1>5. \A b \in Block : TierOf[b] # GPU => refCount'[b] <= 1
  BY DEF Owned, PoolPartition
<1>6. RefCountsExact'
  BY <1>1, <1>2 DEF RefCountsExact
<1> QED BY <1>3, <1>4, <1>5, <1>6 DEF Owned, PoolPartition

(***************************************************************************)
(* A request gives up its whole table.                                     *)
(***************************************************************************)
LEMMA OwnedRelease ==
  ASSUME TypeOK, Owned, plan = NoPlan, plan' = plan, NEW s \in Seqs,
         table' = [table EXCEPT ![s] = << >>],
         refCount' = RefAfterDrop(Held(s)),
         free' = free \cup Freed(Held(s)),
         used' = used \ Freed(Held(s))
  PROVE  Owned'
<1>1. ASSUME NEW b \in Block, b \in Held(s)
      PROVE  refCount[b] >= 1 /\ (TierOf[b] # GPU => refCount[b] = 1)
  <2>1. Cardinality(Holders(b)) # 0 /\ Cardinality(Holders(b)) \in Nat
    BY <1>1, HoldersEmpty, HoldersFinite
  <2>2. refCount[b] = Cardinality(Holders(b)) + 0
    BY QuietTargets DEF Owned, RefCountsExact
  <2> QED BY <2>1, <2>2 DEF Owned, PoolPartition
<1>2. ASSUME NEW b \in Block
      PROVE  /\ refCount'[b] = refCount[b] - (IF b \in Held(s) THEN 1 ELSE 0)
             /\ refCount'[b] \in Nat /\ refCount[b] \in Nat
  BY <1>1 DEF RefAfterDrop, TypeOK
<1>3. ASSUME NEW b \in Block
      PROVE  refCount'[b] = Cardinality(Holders(b)') + InFlight(b)'
  <2>1. refCount[b] = Cardinality(Holders(b)) + 0
    BY QuietTargets DEF Owned, RefCountsExact
  <2>2. Cardinality(Holders(b)') = Cardinality(Holders(b)) - (IF b \in Held(s) THEN 1 ELSE 0)
    <3>1. table \in [Seqs -> Seq(Block)]
      BY DEF TypeOK
    <3>2. Cardinality(Holders(b)) \in Nat
      BY HoldersFinite
    <3>3. Cardinality(Holders(b)') = Cardinality(Holders(b))
             + (IF b \in ImageOf(<< >>) /\ b \notin Held(s) THEN 1 ELSE 0)
             - (IF b \notin ImageOf(<< >>) /\ b \in Held(s) THEN 1 ELSE 0)
      BY <3>1, HoldersCount
    <3>4. b \notin ImageOf(<< >>)
      BY DEF ImageOf
    <3> QED BY <3>2, <3>3, <3>4
  <2>3. InFlight(b)' = 0
    <3>1. InFlight(b)' = InFlight(b)
      BY DEF InFlight, PlanTargets
    <3> QED BY <3>1, QuietTargets
  <2>4. Cardinality(Holders(b)) \in Nat
    BY HoldersFinite
  <2> QED BY <1>2, <2>1, <2>2, <2>3, <2>4
<1>4. ASSUME NEW t \in Seqs PROVE Injective(table'[t])
  BY DEF Owned, RefCountsExact, TypeOK, Injective
<1>5. free' = {b \in Block : refCount'[b] = 0}
  <2>1. ASSUME NEW b \in Block
        PROVE  b \in free' <=> refCount'[b] = 0
    <3>1. b \in Freed(Held(s)) <=> b \in Held(s) /\ refCount[b] = 1
      BY <1>1 DEF Freed
    <3>2. b \in free <=> refCount[b] = 0
      BY DEF Owned, PoolPartition
    <3> QED BY <1>1, <1>2, <3>1, <3>2
  <2>2. free' \subseteq Block
    BY DEF Freed, Held, TypeOK
  <2> QED BY <2>1, <2>2
<1>6. used' = {b \in Block : TierOf[b] = GPU} \ free'
  BY DEF Owned, PoolPartition
<1>7. \A b \in Block : TierOf[b] # GPU => refCount'[b] <= 1
  BY <1>2 DEF Owned, PoolPartition
<1>8. RefCountsExact'
  BY <1>3, <1>4 DEF RefCountsExact
<1> QED BY <1>5, <1>6, <1>7, <1>8 DEF Owned, PoolPartition

-----------------------------------------------------------------------------
(***************************************************************************)
(* Transfers: prepare takes one reference to each free target, abort gives *)
(* it back, commit hands it to the request in exchange for its sources.    *)
(***************************************************************************)
LEMMA OwnedReserve ==
  ASSUME TypeOK, Owned, plan = NoPlan, table' = table, NEW t,
         PlanTargets' \subseteq free,
         \A b \in PlanTargets' : TierOf[b] = t,
         refCount' = [b \in Block |-> IF b \in PlanTargets' THEN 1 ELSE refCount[b]],
         free' = free \ PlanTargets',
         used' = IF t = GPU THEN used \cup PlanTargets' ELSE used
  PROVE  Owned' /\ \A b \in PlanTargets' : Holders(b)' = {}
<1>1. \A b : Holders(b)' = Holders(b)
  BY DEF Holders, Held
<1>2. ASSUME NEW b \in PlanTargets'
      PROVE  b \in Block /\ refCount[b] = 0 /\ Cardinality(Holders(b)) = 0 /\ Holders(b) = {}
  <2>1. b \in Block /\ refCount[b] = 0
    BY DEF Owned, PoolPartition
  <2>2. refCount[b] = Cardinality(Holders(b)) + 0 /\ Cardinality(Holders(b)) \in Nat
    BY <2>1, QuietTargets, HoldersFinite DEF Owned, RefCountsExact
  <2>3. Cardinality(Holders(b)) = 0
    BY <2>1, <2>2
  <2> QED BY <2>1, <2>3, HoldersFinite, FS_EmptySet
<1>3. ASSUME NEW b \in Block
      PROVE  refCount'[b] = Cardinality(Holders(b)') + InFlight(b)'
  <2>1. InFlight(b)' = IF b \in PlanTargets' THEN 1 ELSE 0
    BY DEF InFlight
  <2>2. refCount[b] = Cardinality(Holders(b)) + 0 /\ Cardinality(Holders(b)) \in Nat
    BY QuietTargets, HoldersFinite DEF Owned, RefCountsExact
  <2> QED BY <1>1, <1>2, <2>1, <2>2
<1>4. RefCountsExact'
  BY <1>3 DEF Owned, RefCountsExact
<1>5. free' = {b \in Block : refCount'[b] = 0}
  BY DEF Owned, PoolPartition
<1>6. used' = {b \in Block : TierOf[b] = GPU} \ free'
  BY <1>2 DEF Owned, PoolPartition
<1>7. \A b \in Block : TierOf[b] # GPU => refCount'[b] <= 1
  BY DEF Owned, PoolPartition
<1> QED BY <1>1, <1>2, <1>4, <1>5, <1>6, <1>7 DEF Owned, PoolPartition

LEMMA OwnedUnreserve ==
  ASSUME TypeOK, Owned, table' = table, plan' = NoPlan,
         PlanTargets \subseteq Block, \A b \in PlanTargets : Holders(b) = {},
         refCount' = [b \in Block |-> IF b \in PlanTargets THEN 0 ELSE refCount[b]],
         free' = free \cup PlanTargets,
         used' = used \ PlanTargets
  PROVE  Owned'
<1>1. \A b : Holders(b)' = Holders(b)
  BY DEF Holders, Held
<1>2. ASSUME NEW b \in Block
      PROVE  refCount'[b] = Cardinality(Holders(b)') + InFlight(b)'
  <2>1. InFlight(b)' = 0
    BY QuietTargetsNext
  <2>2. refCount[b] = Cardinality(Holders(b)) + (IF b \in PlanTargets THEN 1 ELSE 0)
    BY DEF Owned, RefCountsExact, InFlight
  <2>3. Cardinality(Holders(b)) \in Nat
    BY HoldersFinite
  <2>4. b \in PlanTargets => Cardinality(Holders(b)) = 0
    BY FS_EmptySet
  <2> QED BY <1>1, <2>1, <2>2, <2>3, <2>4
<1>3. RefCountsExact'
  BY <1>2 DEF Owned, RefCountsExact
<1>4. free' = {b \in Block : refCount'[b] = 0}
  BY DEF Owned, PoolPartition
<1>5. used' = {b \in Block : TierOf[b] = GPU} \ free'
  BY DEF Owned, PoolPartition
<1>6. \A b \in Block : TierOf[b] # GPU => refCount'[b] <= 1
  BY DEF Owned, PoolPartition
<1> QED BY <1>3, <1>4, <1>5, <1>6 DEF Owned, PoolPartition

(* The table a commit installs. *)
Moved(s) == [i \in DOMAIN table[s] |->
               IF i \in DOMAIN plan.dst THEN plan.dst[i] ELSE table[s][i]]

LEMMA OwnedCommit ==
  ASSUME TypeOK, Owned, PlanSound, plan # NoPlan, plan' = NoPlan,
         table' = [table EXCEPT ![plan.seq] = Moved(plan.seq)],
         refCount' = RefAfterDrop(ImageOf(plan.src)),
         free' = free \cup Freed(ImageOf(plan.src)),
         used' = used \ Freed(ImageOf(plan.src))
  PROVE  Owned'
<1> DEFINE s == plan.seq
           I == DOMAIN plan.dst
           source == ImageOf(plan.src)
<1>1. /\ s \in Seqs /\ I \subseteq DOMAIN table[s]
      /\ source = {table[s][i] : i \in I}
      /\ PlanTargets \subseteq Block /\ Injective(plan.dst)
      /\ Injective(table[s]) /\ table[s] \in Seq(Block)
      /\ \A b \in PlanTargets : b \notin Held(s)
  <2>1. s \in Seqs /\ I \subseteq DOMAIN table[s] /\ PlanTargets \subseteq Block
    BY DEF TypeOK, PlanTargets, ImageOf
  <2>2. source = {table[s][i] : i \in I} /\ Injective(plan.dst)
    <3>1. plan.src = [i \in I |-> table[s][i]]
      BY DEF PlanSound
    <3> QED BY <3>1 DEF PlanSound, ImageOf
  <2>3. Injective(table[s]) /\ table[s] \in Seq(Block)
    BY <2>1 DEF TypeOK, Owned, RefCountsExact
  <2>4. \A b \in PlanTargets : b \notin Held(s)
    BY <2>1 DEF PlanSound, Holders
  <2> QED BY <2>1, <2>2, <2>3, <2>4
<1>2. ImageOf(Moved(s)) = (Held(s) \ source) \cup PlanTargets
  <2>1. Held(s) \ source = {table[s][i] : i \in DOMAIN table[s] \ I}
    BY <1>1 DEF Held, Injective
  <2>2. DOMAIN Moved(s) = DOMAIN table[s]
    BY DEF Moved
  <2>3. \A i \in I : Moved(s)[i] = plan.dst[i]
    BY <1>1 DEF Moved
  <2>4. \A i \in DOMAIN table[s] \ I : Moved(s)[i] = table[s][i]
    BY DEF Moved
  <2>5. ImageOf(Moved(s)) = {plan.dst[i] : i \in I} \cup {table[s][i] : i \in DOMAIN table[s] \ I}
    BY <1>1, <2>2, <2>3, <2>4 DEF ImageOf
  <2> QED BY <2>1, <2>5 DEF PlanTargets, ImageOf
<1>3. source \subseteq Held(s) /\ source \subseteq Block /\ Held(s) \subseteq Block
  BY <1>1 DEF Held
<1>4. ASSUME NEW b \in Block
      PROVE  Cardinality(Holders(b)') = Cardinality(Holders(b))
               + (IF b \in PlanTargets THEN 1 ELSE 0) - (IF b \in source THEN 1 ELSE 0)
  <2>1. Cardinality(Holders(b)') = Cardinality(Holders(b))
          + (IF b \in ImageOf(Moved(s)) /\ b \notin Held(s) THEN 1 ELSE 0)
          - (IF b \notin ImageOf(Moved(s)) /\ b \in Held(s) THEN 1 ELSE 0)
    BY <1>1, HoldersCount DEF TypeOK
  <2>2. (b \in ImageOf(Moved(s)) /\ b \notin Held(s)) <=> b \in PlanTargets
    BY <1>1, <1>2
  <2>3. (b \notin ImageOf(Moved(s)) /\ b \in Held(s)) <=> b \in source
    BY <1>1, <1>2, <1>3
  <2> QED BY <2>1, <2>2, <2>3
<1>5. ASSUME NEW b \in Block
      PROVE  /\ refCount[b] = Cardinality(Holders(b)) + (IF b \in PlanTargets THEN 1 ELSE 0)
             /\ Cardinality(Holders(b)) \in Nat /\ refCount[b] \in Nat
             /\ b \in source => refCount[b] >= 1 /\ (TierOf[b] # GPU => refCount[b] = 1)
  <2>1. refCount[b] = Cardinality(Holders(b)) + (IF b \in PlanTargets THEN 1 ELSE 0)
    BY DEF Owned, RefCountsExact, InFlight
  <2>2. Cardinality(Holders(b)) \in Nat
    BY HoldersFinite
  <2>3. b \in source => Cardinality(Holders(b)) # 0
    BY <1>1, <1>3, HoldersEmpty
  <2>4. b \in source => refCount[b] >= 1
    BY <2>1, <2>2, <2>3
  <2>5. TierOf[b] # GPU => refCount[b] <= 1
    BY DEF Owned, PoolPartition
  <2> QED BY <2>1, <2>2, <2>4, <2>5 DEF TypeOK
<1>6. ASSUME NEW b \in Block
      PROVE  refCount'[b] = refCount[b] - (IF b \in source THEN 1 ELSE 0)
  BY <1>5 DEF RefAfterDrop
<1>7. ASSUME NEW b \in Block
      PROVE  refCount'[b] = Cardinality(Holders(b)') + InFlight(b)'
  <2>1. InFlight(b)' = 0
    BY QuietTargetsNext
  <2> QED BY <1>4, <1>5, <1>6, <2>1
<1>8. ASSUME NEW q \in Seqs PROVE Injective(table'[q])
  <2>1. Injective(Moved(s))
    BY <1>1 DEF Moved, Injective, Held, PlanTargets, ImageOf
  <2> QED BY <1>1, <2>1 DEF Owned, RefCountsExact, TypeOK
<1>9. free' = {b \in Block : refCount'[b] = 0}
  <2>1. ASSUME NEW b \in Block
        PROVE  b \in free' <=> refCount'[b] = 0
    <3>1. b \in Freed(source) <=> b \in source /\ refCount[b] = 1
      BY <1>5 DEF Freed
    <3>2. b \in free <=> refCount[b] = 0
      BY DEF Owned, PoolPartition
    <3> QED BY <1>5, <1>6, <3>1, <3>2
  <2>2. free' \subseteq Block
    BY <1>3 DEF Freed, TypeOK
  <2> QED BY <2>1, <2>2
<1>10. used' = {b \in Block : TierOf[b] = GPU} \ free'
  BY DEF Owned, PoolPartition
<1>11. \A b \in Block : TierOf[b] # GPU => refCount'[b] <= 1
  BY <1>5, <1>6 DEF Owned, PoolPartition
<1>12. RefCountsExact'
  BY <1>7, <1>8 DEF RefCountsExact
<1> QED BY <1>9, <1>10, <1>11, <1>12 DEF Owned, PoolPartition

-----------------------------------------------------------------------------
(***************************************************************************)
(* What the invariant says of one request, which only its own fields can   *)
(* change.                                                                 *)
(***************************************************************************)
Shape(s) == TagsOf(s) /\ CoverOf(s) /\ ScheduleOf(s)

LEMMA ShapeFrame ==
  ASSUME NEW t \in Seqs, Shape(t),
         tokens'[t] = tokens[t], numCached'[t] = numCached[t],
         numSched'[t] = numSched[t], status'[t] = status[t],
         table'[t] = table[t], tiers'[t] = tiers[t], tableTier'[t] = tableTier[t],
         t \in computed' => t \in computed
  PROVE  Shape(t)'
BY DEF Shape, TagsOf, CoverOf, ScheduleOf, AllOn, NumBlocks, BlocksSpanned,
       EndOf, Active

LEMMA ShapeAll ==
  (TagsAgree /\ TableCoversTokens /\ ScheduleSound) <=> \A s \in Seqs : Shape(s)
BY DEF TagsAgree, TableCoversTokens, ScheduleSound, Shape

(* The fields of one request, typed. *)
LEMMA SeqTypes ==
  ASSUME TypeOK, NEW s \in Seqs
  PROVE  /\ tokens[s] \in Seq(Token) /\ Len(tokens[s]) \in Nat
         /\ numCached[s] \in Nat /\ numSched[s] \in Nat
         /\ table[s] \in Seq(Block) /\ tiers[s] \in Seq(Tier)
         /\ NumBlocks(s) \in Nat /\ BlocksSpanned(numCached[s]) \in Nat
         /\ BlockSize \in Nat /\ BlockSize > 1
<1>1. BlockSize \in Nat /\ BlockSize > 1
  BY ConstantsAssumption
<1>2. /\ tokens[s] \in Seq(Token) /\ numCached[s] \in Nat /\ numSched[s] \in Nat
      /\ table[s] \in Seq(Block) /\ tiers[s] \in Seq(Tier)
  BY DEF TypeOK
<1>3. Len(tokens[s]) \in Nat
  BY <1>2
<1>4. NumBlocks(s) \in Nat /\ BlocksSpanned(numCached[s]) \in Nat
  BY <1>1, <1>2, <1>3, SpanBounds DEF NumBlocks, BlocksSpanned
<1> QED BY <1>1, <1>2, <1>3, <1>4

LEMMA IndInvParts ==
  IndInv <=> TypeOK /\ Owned /\ (\A s \in Seqs : Shape(s)) /\ PlanSound /\ IndexOnGpu
BY ShapeAll DEF IndInv, Owned

LEMMA IndInvNext ==
  ASSUME TypeOK', Owned', \A s \in Seqs : Shape(s)', PlanSound', IndexOnGpu'
  PROVE  IndInv'
BY DEF IndInv, Owned, TagsAgree, TableCoversTokens, ScheduleSound, Shape

(* PlanSound says nothing while no transfer is in flight. *)
LEMMA QuietPlan == ASSUME plan' = NoPlan PROVE PlanSound'
BY DEF PlanSound

-----------------------------------------------------------------------------
LEMMA AddPreserves ==
  ASSUME IndInv, NEW s \in Seqs, Add(s) PROVE IndInv'
<1> USE DEF Add, Quiet, placeVars, poolVars
<1>1. TypeOK'
  BY DEF IndInv, TypeOK
<1>2. Owned'
  BY OwnedFrame, IndInvParts DEF PlanTargets
<1>3. Shape(s)'
  <2>1. Shape(s) /\ Len(tokens[s]) \in Nat /\ numCached[s] \in Nat
        /\ numSched[s] \in Nat /\ NumBlocks(s) \in Nat
    BY IndInvParts, SeqTypes
  <2>2. /\ UNCHANGED <<tokens[s], numCached[s], table[s], tiers[s], tableTier[s]>>
        /\ NumBlocks(s)' = NumBlocks(s)
        /\ status[s] = "new" /\ status'[s] = "waiting" /\ UNCHANGED <<numSched[s], computed>>
    BY DEF IndInv, TypeOK, NumBlocks
  <2>3. TagsOf(s)'
    BY <2>1, <2>2 DEF Shape, TagsOf, AllOn, ScheduleOf
  <2>4. CoverOf(s)'
    BY <2>1, <2>2 DEF Shape, CoverOf, ScheduleOf, Active, BlocksSpanned
  <2>5. ScheduleOf(s)'
    <3>1. tiers[s] = << >> /\ tiers[s] \in Seq(Tier)
      BY <2>1, <2>2, SeqTypes, IndInvParts DEF Shape, CoverOf, TagsOf
    <3> QED BY <2>1, <2>2, <3>1 DEF Shape, ScheduleOf, AllOn, EndOf, Active
  <2> QED BY <2>3, <2>4, <2>5 DEF Shape
<1>4. ASSUME NEW t \in Seqs, t # s PROVE Shape(t)'
  BY <1>4, IndInvParts, ShapeFrame DEF TypeOK
<1>5. IndexOnGpu'
  BY IndInvParts DEF IndexOnGpu
<1> QED BY <1>1, <1>2, <1>3, <1>4, <1>5, QuietPlan, IndInvNext

LEMMA PrefillMorePreserves ==
  ASSUME IndInv, NEW s \in Seqs, NEW c, PrefillMore(s, c) PROVE IndInv'
<1> USE DEF PrefillMore, ScheduleChunk, Quiet, placeVars, poolVars
<1>1. TypeOK'
  BY DEF IndInv, TypeOK
<1>2. Owned'
  BY OwnedFrame, IndInvParts DEF PlanTargets
<1>3. Shape(s)'
  <2>1. Shape(s) /\ Len(tokens[s]) \in Nat /\ numCached[s] \in Nat
        /\ numSched[s] \in Nat /\ NumBlocks(s) \in Nat
    BY IndInvParts, SeqTypes
  <2>2. /\ UNCHANGED <<tokens[s], numCached[s], table[s], tiers[s], tableTier[s]>>
        /\ NumBlocks(s)' = NumBlocks(s)
        /\ status[s] = "waiting" /\ numSched[s] = 0 /\ table[s] # << >>
        /\ c \in Nat /\ c > 0 /\ numSched'[s] = c /\ UNCHANGED computed
        /\ numCached[s] + c <= Len(tokens[s])
        /\ status'[s] = IF numCached[s] + c = Len(tokens[s]) THEN "running" ELSE "waiting"
    BY DEF IndInv, TypeOK, NumBlocks
  <2>3. TagsOf(s)'
    BY <2>1, <2>2 DEF Shape, TagsOf, AllOn, ScheduleOf
  <2>4. CoverOf(s)'
    BY <2>1, <2>2 DEF Shape, CoverOf, ScheduleOf, Active, BlocksSpanned
  <2>5. ScheduleOf(s)'
    <3>1. AllOn(s, GPU)' /\ numCached[s] + c = EndOf(s)'
      BY <2>1, <2>2 DEF Shape, ScheduleOf, AllOn, EndOf
    <3>2. s \notin computed
      BY <2>1, <2>2 DEF Shape, ScheduleOf
    <3>3. EndOf(s)' <= Len(tokens[s])
      BY <2>2, <3>1
    <3>4. \/ status'[s] = "running" /\ EndOf(s)' = Len(tokens[s])
          \/ status'[s] = "waiting" /\ EndOf(s)' < Len(tokens[s])
      BY <2>1, <2>2, <3>1
    <3>5. numSched'[s] > 0 /\ table'[s] # << >> /\ s \notin computed' /\ tokens'[s] = tokens[s]
      BY <2>2, <3>2
    <3> QED BY <3>1, <3>3, <3>4, <3>5 DEF ScheduleOf
  <2> QED BY <2>3, <2>4, <2>5 DEF Shape
<1>4. ASSUME NEW t \in Seqs, t # s PROVE Shape(t)'
  BY <1>4, IndInvParts, ShapeFrame DEF TypeOK
<1>5. IndexOnGpu'
  BY IndInvParts DEF IndexOnGpu
<1> QED BY <1>1, <1>2, <1>3, <1>4, <1>5, QuietPlan, IndInvNext

LEMMA RunPreserves ==
  ASSUME IndInv, NEW s \in Seqs, Run(s) PROVE IndInv'
<1> USE DEF Run, Quiet, placeVars, poolVars
<1>1. TypeOK'
  <2>1. ASSUME NEW i \in Nat
        PROVE  SubSeq(tokens[s], 1, Min2(EndOf(s), i * BlockSize)) \in Seq(Token)
    <3>1. tokens[s] \in Seq(Token) /\ EndOf(s) \in Nat /\ EndOf(s) <= Len(tokens[s])
      BY IndInvParts, SeqTypes DEF Shape, ScheduleOf, EndOf
    <3>2. i * BlockSize \in Nat
      BY ConstantsAssumption
    <3>3. Min2(EndOf(s), i * BlockSize) \in 0 .. Len(tokens[s])
      BY <3>1, <3>2 DEF Min2
    <3> QED BY <3>1, <3>3
  <2>2. WrittenIdx(s) \subseteq Nat
    <3>1. /\ Len(table[s]) \in Nat /\ numCached[s] \in Nat /\ EndOf(s) \in Nat
          /\ BlockSize \in Nat \ {0}
      BY ConstantsAssumption, IndInvParts, SeqTypes DEF EndOf
    <3>2. numCached[s] \div BlockSize \in Nat
      BY <3>1, DivMonotone
    <3> QED BY <3>1, <3>2 DEF WrittenIdx
  <2>3. kv \in [Block -> Seq(Token)] /\ Garbage \in Seq(Token)
    BY DEF IndInv, TypeOK, Garbage
  <2>4. kv' \in [Block -> Seq(Token)]
    BY <2>1, <2>2, <2>3
  <2>5. computed' \subseteq Seqs
    BY DEF IndInv, TypeOK
  <2> QED BY <2>4, <2>5 DEF IndInv, TypeOK
<1>2. Owned'
  BY OwnedFrame, IndInvParts DEF PlanTargets
<1>3. Shape(s)'
  <2>1. Shape(s) /\ Len(tokens[s]) \in Nat /\ numCached[s] \in Nat
        /\ numSched[s] \in Nat /\ NumBlocks(s) \in Nat
    BY IndInvParts, SeqTypes
  <2>2. /\ UNCHANGED <<tokens[s], numCached[s], table[s], tiers[s], tableTier[s]>>
        /\ NumBlocks(s)' = NumBlocks(s)
        /\ UNCHANGED <<status[s], numSched[s]>> /\ numSched[s] > 0
    BY DEF IndInv, TypeOK, NumBlocks
  <2>3. TagsOf(s)'
    BY <2>1, <2>2 DEF Shape, TagsOf, AllOn, ScheduleOf
  <2>4. CoverOf(s)'
    BY <2>1, <2>2 DEF Shape, CoverOf, ScheduleOf, Active, BlocksSpanned
  <2>5. ScheduleOf(s)'
    BY <2>1, <2>2 DEF Shape, TagsOf, ScheduleOf, AllOn, EndOf
  <2> QED BY <2>3, <2>4, <2>5 DEF Shape
<1>4. ASSUME NEW t \in Seqs, t # s PROVE Shape(t)'
  BY <1>4, IndInvParts, ShapeFrame DEF TypeOK
<1>5. IndexOnGpu'
  BY IndInvParts DEF IndexOnGpu
<1> QED BY <1>1, <1>2, <1>3, <1>4, <1>5, QuietPlan, IndInvNext

-----------------------------------------------------------------------------
(***************************************************************************)
(* hash_blocks only touches blocks of the request's own table.             *)
(***************************************************************************)
LEMMA FullBlocksFit ==
  ASSUME NEW n \in Nat, NEW m \in Nat, n <= m, NEW b \in Nat, b > 1,
         NEW i \in Nat, i <= n \div b
  PROVE  i * b <= m /\ i <= (m + b - 1) \div b
OBVIOUS

LEMMA FilledInTable ==
  ASSUME IndInv, NEW s \in Seqs, s \in computed
  PROVE  /\ Len(table[s]) = NumBlocks(s)
         /\ FilledIdx(s) \subseteq DOMAIN table[s]
         /\ \A i \in DOMAIN table[s] : table[s][i] \in Block /\ TierOf[table[s][i]] = GPU
         /\ \A i \in FilledIdx(s) : ChainHash(s, i) \in Seq(Token)
<1>1. /\ tokens[s] \in Seq(Token) /\ Len(tokens[s]) \in Nat
      /\ numCached[s] \in Nat /\ numSched[s] \in Nat /\ table[s] \in Seq(Block)
      /\ tiers[s] \in Seq(Tier)
      /\ BlockSize \in Nat /\ BlockSize > 1 /\ Shape(s) /\ EndOf(s) \in Nat
  BY IndInvParts, SeqTypes DEF EndOf
<1>2. numSched[s] > 0 /\ EndOf(s) <= Len(tokens[s]) /\ table[s] # << >>
  BY <1>1 DEF Shape, ScheduleOf
<1>3. Len(table[s]) = NumBlocks(s)
  BY <1>1, <1>2 DEF Shape, ScheduleOf, CoverOf, Active
<1>4. \A i \in DOMAIN table[s] : table[s][i] \in Block /\ TierOf[table[s][i]] = GPU
  BY <1>1, <1>2 DEF Shape, TagsOf, AllOn
<1>5. numCached[s] \div BlockSize \in Nat /\ EndOf(s) \div BlockSize \in Nat
      /\ numCached[s] \div BlockSize <= EndOf(s) \div BlockSize
  <2>1. BlockSize \in Nat \ {0} /\ numCached[s] <= EndOf(s)
    BY <1>1 DEF EndOf
  <2> QED BY <1>1, <2>1, DivMonotone
<1>6. EndOf(s) \div BlockSize <= NumBlocks(s)
  <2>0. BlockSize \in Nat \ {0}
    BY <1>1
  <2>1. EndOf(s) \div BlockSize <= Len(tokens[s]) \div BlockSize
    BY <1>1, <1>2, <2>0, DivMonotone
  <2>2. Len(tokens[s]) \div BlockSize <= NumBlocks(s)
    BY <1>1, SpanBounds DEF NumBlocks
  <2>3. Len(tokens[s]) \div BlockSize \in Nat /\ NumBlocks(s) \in Nat
    <3>1. Len(tokens[s]) \div BlockSize \in Nat
      BY <1>1, <2>0, DivNat
    <3> QED BY <3>1, SeqTypes, IndInvParts
  <2> QED BY <1>5, <2>1, <2>2, <2>3
<1>7. FilledIdx(s) \subseteq DOMAIN table[s]
  BY <1>1, <1>3, <1>5, <1>6 DEF FilledIdx
<1>8. ASSUME NEW i \in FilledIdx(s)
      PROVE  ChainHash(s, i) \in Seq(Token)
  <2> DEFINE start == numCached[s] \div BlockSize
  <2>1. start > 0 => blockHash[table[s][start]] \in Seq(Token)
    <3>1. start \in Nat /\ start <= Len(table[s])
      BY <1>1, <1>3, <1>5, <1>6
    <3>2. start > 0 => table[s][start] \in Block
      BY <1>1, <1>4, <3>1
    <3> QED BY <3>2 DEF IndInv, TypeOK, Hash
  <2>2. i \in Nat /\ i <= EndOf(s) \div BlockSize
    BY <1>5 DEF FilledIdx
  <2>3. i * BlockSize \in Nat /\ i * BlockSize <= Len(tokens[s]) /\ start * BlockSize \in Nat
    <3>1. i * BlockSize <= Len(tokens[s])
      BY <1>1, <1>2, <2>2, FullBlocksFit
    <3>2. i * BlockSize \in Nat /\ start * BlockSize \in Nat
      BY <1>1, <1>5, <2>2
    <3> QED BY <3>1, <3>2
  <2>4. SubSeq(tokens[s], start * BlockSize + 1, i * BlockSize) \in Seq(Token)
    BY <1>1, <2>3
  <2>5. NoHash \in Seq(Token)
    BY DEF NoHash
  <2> QED BY <2>1, <2>4, <2>5 DEF ChainHash
<1> QED BY <1>3, <1>4, <1>7, <1>8

LEMMA HashBlocksTypes ==
  ASSUME IndInv, NEW s \in Seqs, s \in computed
  PROVE  /\ HashedBlocks(s) \in [Block -> Hash]
         /\ DOMAIN IndexWithChunk(s) \subseteq Hash
         /\ \A h \in DOMAIN IndexWithChunk(s) :
              /\ IndexWithChunk(s)[h] \in Block
              /\ TierOf[IndexWithChunk(s)[h]] = GPU
<1>1. ASSUME NEW b \in Block, NEW i \in FilledIdx(s), table[s][i] = b
      PROVE  ChainHash(s, IdxOf(s, b)) \in Hash
  <2>1. IdxOf(s, b) \in DOMAIN table[s] /\ table[s][IdxOf(s, b)] = b
    BY <1>1, FilledInTable DEF IdxOf
  <2>2. IdxOf(s, b) = i
    BY <1>1, <2>1, FilledInTable DEF IndInv, RefCountsExact, Injective
  <2> QED BY <2>2, FilledInTable DEF Hash
<1>2. HashedBlocks(s) \in [Block -> Hash]
  BY <1>1 DEF HashedBlocks, IndInv, TypeOK
<1> DEFINE chunk == [h \in {ChainHash(s, i) : i \in FilledIdx(s)} |->
                       table[s][CHOOSE i \in FilledIdx(s) : ChainHash(s, i) = h]]
<1>3. ASSUME NEW h \in DOMAIN chunk
      PROVE  h \in Hash /\ chunk[h] \in Block /\ TierOf[chunk[h]] = GPU
  <2> DEFINE k == CHOOSE i \in FilledIdx(s) : ChainHash(s, i) = h
  <2>1. PICK i \in FilledIdx(s) : ChainHash(s, i) = h
    BY <1>3
  <2>2. k \in FilledIdx(s)
    BY <2>1
  <2> HIDE DEF k
  <2>3. chunk[h] = table[s][k]
    BY <1>3 DEF k
  <2> QED BY <2>1, <2>2, <2>3, FilledInTable DEF Hash
<1>4. /\ DOMAIN hashToBlock \subseteq Hash
      /\ \A h \in DOMAIN hashToBlock : hashToBlock[h] \in Block /\ TierOf[hashToBlock[h]] = GPU
  BY DEF IndInv, TypeOK, ImageOf, IndexOnGpu
<1>5. CASE EnablePrefixCache
  <2>1. IndexWithChunk(s) = Override(hashToBlock, chunk)
    BY <1>5 DEF IndexWithChunk
  <2> HIDE DEF chunk
  <2> QED BY <1>2, <1>3, <1>4, <2>1 DEF Override
<1>6. CASE ~ EnablePrefixCache
  BY <1>2, <1>4, <1>6 DEF IndexWithChunk
<1> QED BY <1>5, <1>6

LEMMA PostChunkPreserves ==
  ASSUME IndInv, NEW s \in Seqs, PostChunk(s) PROVE IndInv'
<1> USE DEF PostChunk, Quiet, placeVars
<1>1. TypeOK'
  <2>1. blockHash' \in [Block -> Hash] /\ DOMAIN hashToBlock' \subseteq Hash
        /\ ImageOf(hashToBlock') \subseteq Block
    BY HashBlocksTypes DEF ImageOf
  <2>2. EndOf(s) \in Nat
    BY IndInvParts, SeqTypes DEF EndOf
  <2>3. numCached' \in [Seqs -> Nat] /\ numSched' \in [Seqs -> Nat] /\ computed' \subseteq Seqs
    BY <2>2 DEF IndInv, TypeOK
  <2> QED BY <2>1, <2>3 DEF IndInv, TypeOK
<1>2. Owned'
  BY OwnedFrame, IndInvParts DEF PlanTargets
<1>3. Shape(s)'
  <2>1. Shape(s) /\ Len(tokens[s]) \in Nat /\ numCached[s] \in Nat
        /\ numSched[s] \in Nat /\ NumBlocks(s) \in Nat
    BY IndInvParts, SeqTypes
  <2>2. /\ UNCHANGED <<tokens[s], table[s], tiers[s], tableTier[s], status[s]>>
        /\ NumBlocks(s)' = NumBlocks(s) /\ numSched[s] > 0
        /\ numCached'[s] = EndOf(s) /\ numSched'[s] = 0 /\ s \notin computed'
        /\ EndOf(s) < Len(tokens[s])
    BY <2>1 DEF IndInv, TypeOK, NumBlocks, Shape, ScheduleOf
  <2>3. TagsOf(s)'
    BY <2>1, <2>2 DEF Shape, TagsOf, AllOn, ScheduleOf
  <2>4. CoverOf(s)'
    BY <2>1, <2>2 DEF Shape, CoverOf, ScheduleOf, Active, BlocksSpanned
  <2>5. ScheduleOf(s)'
    BY <2>1, <2>2 DEF Shape, TagsOf, ScheduleOf, AllOn, EndOf
  <2> QED BY <2>3, <2>4, <2>5 DEF Shape
<1>4. ASSUME NEW t \in Seqs, t # s PROVE Shape(t)'
  BY <1>4, IndInvParts, ShapeFrame DEF TypeOK
<1>5. IndexOnGpu'
  BY HashBlocksTypes DEF IndexOnGpu
<1> QED BY <1>1, <1>2, <1>3, <1>4, <1>5, QuietPlan, IndInvNext

LEMMA PostTokenPreserves ==
  ASSUME IndInv, NEW s \in Seqs, NEW t \in Token, PostToken(s, t) PROVE IndInv'
<1> USE DEF PostToken, Quiet, placeVars
<1>1. TypeOK'
  <2>1. blockHash' \in [Block -> Hash] /\ DOMAIN hashToBlock' \subseteq Hash
        /\ ImageOf(hashToBlock') \subseteq Block
    BY HashBlocksTypes DEF ImageOf
  <2>2. EndOf(s) \in Nat /\ Append(tokens[s], t) \in Seq(Token)
    BY IndInvParts, SeqTypes DEF EndOf
  <2>3. numCached' \in [Seqs -> Nat] /\ numSched' \in [Seqs -> Nat]
        /\ computed' \subseteq Seqs /\ tokens' \in [Seqs -> Seq(Token)]
    BY <2>2 DEF IndInv, TypeOK
  <2> QED BY <2>1, <2>3 DEF IndInv, TypeOK
<1>2. Owned'
  BY OwnedFrame, IndInvParts DEF PlanTargets
<1>3. Shape(s)'
  <2>1. Shape(s) /\ Len(tokens[s]) \in Nat /\ numCached[s] \in Nat
        /\ numSched[s] \in Nat /\ NumBlocks(s) \in Nat /\ Len(table[s]) = NumBlocks(s)
    BY IndInvParts, SeqTypes, FilledInTable
  <2>2. /\ UNCHANGED <<table[s], tiers[s], tableTier[s], status[s]>>
        /\ numSched[s] > 0 /\ status[s] = "running" /\ table[s] # << >>
        /\ numCached'[s] = Len(tokens[s]) /\ numSched'[s] = 0 /\ s \notin computed'
        /\ Len(tokens'[s]) = Len(tokens[s]) + 1
        /\ BlocksSpanned(numCached[s])' = NumBlocks(s)
    BY <2>1 DEF IndInv, TypeOK, NumBlocks, BlocksSpanned, Shape, ScheduleOf
  <2>3. TagsOf(s)'
    BY <2>1, <2>2 DEF Shape, TagsOf, AllOn, ScheduleOf
  <2>4. CoverOf(s)'
    BY <2>1, <2>2 DEF CoverOf, Active
  <2>5. ScheduleOf(s)'
    BY <2>1, <2>2 DEF Shape, TagsOf, ScheduleOf, AllOn, EndOf
  <2> QED BY <2>3, <2>4, <2>5 DEF Shape
<1>4. ASSUME NEW r \in Seqs, r # s PROVE Shape(r)'
  BY <1>4, IndInvParts, ShapeFrame DEF TypeOK
<1>5. IndexOnGpu'
  BY HashBlocksTypes DEF IndexOnGpu
<1> QED BY <1>1, <1>2, <1>3, <1>4, <1>5, QuietPlan, IndInvNext

-----------------------------------------------------------------------------
LEMMA ClearPreserves ==
  ASSUME IndInv, ClearPrefixCache PROVE IndInv'
<1> USE DEF ClearPrefixCache, Quiet, placeVars, seqVars
<1>1. TypeOK'
  <2>1. blockHash' \in [Block -> Hash]
    BY DEF IndInv, TypeOK, NoHash, Hash
  <2>2. DOMAIN hashToBlock' = {} /\ ImageOf(hashToBlock') = {}
    BY DEF ImageOf
  <2> QED BY <2>1, <2>2 DEF IndInv, TypeOK
<1>2. Owned'
  BY OwnedFrame, IndInvParts DEF PlanTargets
<1>3. ASSUME NEW t \in Seqs PROVE Shape(t)'
  BY IndInvParts, ShapeFrame
<1>4. IndexOnGpu'
  BY DEF IndexOnGpu
<1> QED BY <1>1, <1>2, <1>3, <1>4, QuietPlan, IndInvNext

LEMMA CopyPreserves ==
  ASSUME IndInv, CopyBlocks PROVE IndInv'
<1> USE DEF CopyBlocks, placeVars, seqVars, poolVars
<1>1. /\ plan.op \in {"swap", "move"} /\ plan.seq \in Seqs /\ plan.to \in Tier
      /\ plan.dst \in [DOMAIN plan.dst -> Block] /\ plan # NoPlan
      /\ DOMAIN plan.dst \subseteq DOMAIN table[plan.seq]
      /\ plan.src = [i \in DOMAIN plan.dst |-> table[plan.seq][i]]
      /\ table[plan.seq] \in Seq(Block)
  BY DEF IndInv, TypeOK, PlanSound
<1>2. /\ plan'.op = plan.op /\ plan'.seq = plan.seq /\ plan'.to = plan.to
      /\ plan'.dst = plan.dst /\ plan'.src = plan.src /\ plan'.copied = TRUE
  BY DEF IndInv, TypeOK, PlanSound
<1>3. kv' \in [Block -> Seq(Token)]
  <2>1. ASSUME NEW b \in Block, NEW i \in DOMAIN plan.dst, plan.dst[i] = b
        PROVE  kv[plan.src[CHOOSE j \in DOMAIN plan.dst : plan.dst[j] = b]] \in Seq(Token)
    <3> DEFINE k == CHOOSE j \in DOMAIN plan.dst : plan.dst[j] = b
    <3>1. k \in DOMAIN plan.dst
      BY <2>1
    <3> HIDE DEF k
    <3>2. plan.src[k] \in Block
      BY <1>1, <3>1
    <3> QED BY <3>2 DEF k, IndInv, TypeOK
  <2> QED BY <2>1 DEF Copied, IndInv, TypeOK
<1>4. TypeOK'
  BY <1>1, <1>2, <1>3 DEF IndInv, TypeOK
<1>5. Owned'
  BY <1>2, OwnedFrame, IndInvParts DEF PlanTargets
<1>6. ASSUME NEW t \in Seqs PROVE Shape(t)'
  BY IndInvParts, ShapeFrame
<1>7. PlanSound'
  BY <1>1, <1>2 DEF IndInv, PlanSound, PlanTargets, Holders, Held, Active, Prepared
<1>8. IndexOnGpu'
  BY IndInvParts DEF IndexOnGpu
<1> QED BY <1>4, <1>5, <1>6, <1>7, <1>8, IndInvNext

-----------------------------------------------------------------------------
(* deallocate, for both of its callers. *)
LEMMA DeallocateFacts ==
  ASSUME IndInv, NEW s \in Seqs, NEW hash \in [Block -> Hash], plan = NoPlan,
         plan' = plan, Deallocate(s, hash)
  PROVE  /\ Owned'
         /\ numCached' \in [Seqs -> Nat]
         /\ table' \in [Seqs -> Seq(Block)] /\ tiers' \in [Seqs -> Seq(Tier)]
         /\ tableTier' \in [Seqs -> Tier \cup {"none"}]
         /\ refCount' \in [Block -> Nat] /\ blockHash' \in [Block -> Hash]
         /\ free' \subseteq Block /\ used' \subseteq Block
         /\ table'[s] = << >> /\ tiers'[s] = << >> /\ tableTier'[s] = GPU
         /\ numCached'[s] = 0
<1> USE DEF Deallocate
<1>1. Owned'
  BY OwnedRelease DEF IndInv, Owned
<1>2. GPU \in Tier
  BY ConstantsAssumption DEF Tier
<1>3. /\ numCached' \in [Seqs -> Nat]
      /\ table' \in [Seqs -> Seq(Block)] /\ tiers' \in [Seqs -> Seq(Tier)]
      /\ tableTier' \in [Seqs -> Tier \cup {"none"}]
  BY <1>2 DEF IndInv, TypeOK
<1>4. blockHash' \in [Block -> Hash]
  BY DEF NoHash, Hash
<1>5. refCount' \in [Block -> Nat]
  <2>1. \A b \in Block : refCount'[b] = Cardinality(Holders(b)') + InFlight(b)'
    BY <1>1 DEF Owned, RefCountsExact
  <2>2. ASSUME NEW b \in Held(s), b \in Block PROVE refCount[b] >= 1
    <3>1. Cardinality(Holders(b)) # 0 /\ Cardinality(Holders(b)) \in Nat
      BY HoldersEmpty, HoldersFinite
    <3> QED BY <2>2, <3>1, QuietTargets DEF IndInv, RefCountsExact
  <2> QED BY <2>2 DEF RefAfterDrop, IndInv, TypeOK
<1>6. free' \subseteq Block /\ used' \subseteq Block
  BY DEF Freed, Held, IndInv, TypeOK
<1>7. table'[s] = << >> /\ tiers'[s] = << >> /\ tableTier'[s] = GPU /\ numCached'[s] = 0
  BY DEF IndInv, TypeOK
<1> QED BY <1>1, <1>3, <1>4, <1>5, <1>6, <1>7

LEMMA RecomputePreserves ==
  ASSUME IndInv, NEW s \in Seqs, Recompute(s) PROVE IndInv'
<1> USE DEF Recompute, Quiet
<1>1. blockHash \in [Block -> Hash]
  BY DEF IndInv, TypeOK
<1>2. TypeOK'
  BY <1>1, DeallocateFacts DEF IndInv, TypeOK
<1>3. Shape(s)'
  <2>1. /\ table'[s] = << >> /\ tiers'[s] = << >> /\ tableTier'[s] = GPU /\ numCached'[s] = 0
        /\ numSched'[s] = 0 /\ status'[s] = "waiting" /\ s \notin computed'
        /\ Len(tokens'[s]) \in Nat
    <3>1. /\ table'[s] = << >> /\ tiers'[s] = << >> /\ tableTier'[s] = GPU
          /\ numCached'[s] = 0
      BY <1>1, DeallocateFacts
    <3>2. numSched'[s] = 0 /\ status'[s] = "waiting" /\ Len(tokens'[s]) \in Nat
      BY DEF IndInv, TypeOK
    <3>3. s \notin computed
      BY SeqTypes, IndInvParts DEF Shape, ScheduleOf
    <3> QED BY <3>1, <3>2, <3>3
  <2> QED BY <2>1 DEF Shape, TagsOf, CoverOf, ScheduleOf, AllOn, Active, EndOf
<1>4. ASSUME NEW t \in Seqs, t # s PROVE Shape(t)'
  BY <1>4, IndInvParts, ShapeFrame DEF TypeOK, Deallocate
<1>5. IndexOnGpu'
  BY IndInvParts DEF IndexOnGpu
<1> QED BY <1>1, <1>2, <1>3, <1>4, <1>5, DeallocateFacts, QuietPlan, IndInvNext

LEMMA PostFinishPreserves ==
  ASSUME IndInv, NEW s \in Seqs, NEW t \in Token, PostFinish(s, t) PROVE IndInv'
<1> USE DEF PostFinish, Quiet
<1>1. HashedBlocks(s) \in [Block -> Hash]
  BY HashBlocksTypes
<1>2. TypeOK'
  <2>1. DOMAIN hashToBlock' \subseteq Hash /\ ImageOf(hashToBlock') \subseteq Block
    BY HashBlocksTypes DEF ImageOf
  <2>2. tokens' \in [Seqs -> Seq(Token)]
    BY DEF IndInv, TypeOK
  <2>3. /\ numSched' \in [Seqs -> Nat] /\ computed' \subseteq Seqs
        /\ status' \in [Seqs -> {"new", "waiting", "running", "swapped", "finished"}]
    BY DEF IndInv, TypeOK
  <2> QED BY <1>1, <2>1, <2>2, <2>3, DeallocateFacts DEF IndInv, TypeOK
<1>3. Shape(s)'
  <2>1. /\ table'[s] = << >> /\ tiers'[s] = << >> /\ tableTier'[s] = GPU /\ numCached'[s] = 0
    BY <1>1, DeallocateFacts
  <2>2. /\ numSched'[s] = 0 /\ status'[s] = "finished" /\ s \notin computed'
        /\ Len(tokens'[s]) \in Nat
    BY <1>2 DEF IndInv, TypeOK
  <2> QED BY <2>1, <2>2 DEF Shape, TagsOf, CoverOf, ScheduleOf, AllOn, Active, EndOf
<1>4. ASSUME NEW r \in Seqs, r # s PROVE Shape(r)'
  BY <1>4, IndInvParts, ShapeFrame DEF TypeOK, Deallocate
<1>5. IndexOnGpu'
  BY HashBlocksTypes DEF IndexOnGpu
<1> QED BY <1>1, <1>2, <1>3, <1>4, <1>5, DeallocateFacts, QuietPlan, IndInvNext

-----------------------------------------------------------------------------
(***************************************************************************)
(* Actions that take blocks from the GPU pool for a request.               *)
(***************************************************************************)
LEMMA IndexWithoutSub ==
  ASSUME TypeOK, IndexOnGpu, NEW popped
  PROVE  /\ DOMAIN IndexWithout(popped) \subseteq Hash
         /\ \A h \in DOMAIN IndexWithout(popped) :
              IndexWithout(popped)[h] \in Block /\ TierOf[IndexWithout(popped)[h]] = GPU
         /\ ImageOf(IndexWithout(popped)) \subseteq Block
BY DEF TypeOK, IndexOnGpu, IndexWithout, ImageOf

LEMMA MayAppendFacts ==
  ASSUME IndInv, NEW s \in Seqs, NEW b, plan = NoPlan, plan' = plan,
         Active(s), numSched[s] = 0, AllOn(s, GPU), UNCHANGED tokens,
         b \in IF NeedsBlock(s) THEN FreeIn(GPU) ELSE Block, MayAppend(s, b)
  PROVE  /\ Owned' /\ IndexOnGpu'
         /\ table' \in [Seqs -> Seq(Block)] /\ tiers' \in [Seqs -> Seq(Tier)]
         /\ refCount' \in [Block -> Nat] /\ blockHash' \in [Block -> Hash]
         /\ free' \subseteq Block /\ used' \subseteq Block
         /\ DOMAIN hashToBlock' \subseteq Hash /\ ImageOf(hashToBlock') \subseteq Block
         /\ \A t \in Seqs \ {s} : table'[t] = table[t] /\ tiers'[t] = tiers[t]
         /\ Len(table'[s]) = NumBlocks(s) /\ NumBlocks(s) > 0
         /\ DOMAIN tiers'[s] = DOMAIN table'[s]
         /\ \A i \in DOMAIN table'[s] : TierOf[table'[s][i]] = GPU /\ tiers'[s][i] = GPU
         /\ numCached[s] = Len(tokens[s]) - 1 /\ Len(tokens[s]) > 0
<1>1. /\ Shape(s) /\ tokens[s] \in Seq(Token) /\ Len(tokens[s]) \in Nat
      /\ numCached[s] \in Nat /\ table[s] \in Seq(Block) /\ tiers[s] \in Seq(Tier)
      /\ BlockSize \in Nat /\ BlockSize > 1 /\ TypeOK /\ Owned /\ IndexOnGpu
  BY SeqTypes, IndInvParts
<1>2. /\ numCached[s] = Len(tokens[s]) - 1 /\ Len(tokens[s]) > 0
      /\ Len(table[s]) = BlocksSpanned(Len(tokens[s]) - 1)
      /\ DOMAIN tiers[s] = DOMAIN table[s]
      /\ \A i \in DOMAIN table[s] : TierOf[table[s][i]] = GPU /\ tiers[s][i] = GPU
  BY <1>1 DEF Shape, CoverOf, TagsOf, AllOn
<1>3. NumBlocks(s) = Len(table[s]) + (IF NeedsBlock(s) THEN 1 ELSE 0) /\ NumBlocks(s) > 0
  <2>1. NumBlocks(s) = BlocksSpanned(Len(tokens[s]) - 1)
                          + (IF Len(tokens[s]) % BlockSize = 1 THEN 1 ELSE 0)
    BY <1>1, <1>2, SpanOfNext DEF NumBlocks, BlocksSpanned
  <2>2. NumBlocks(s) > 0
    BY <1>1, <1>2, SpanBounds DEF NumBlocks
  <2> QED BY <1>2, <2>1, <2>2 DEF NeedsBlock
<1>4. CASE ~ NeedsBlock(s)
  <2>1. UNCHANGED <<table, tiers, refCount, blockHash, free, used, hashToBlock>>
    BY <1>4 DEF MayAppend, poolVars
  <2>2. Owned'
    BY <1>1, <2>1, OwnedFrame DEF PlanTargets
  <2> QED BY <1>1, <1>2, <1>3, <1>4, <2>1, <2>2 DEF TypeOK, IndexOnGpu
<1>5. CASE NeedsBlock(s)
  <2> DEFINE f == Append(table[s], b)
  <2>1. /\ table' = [table EXCEPT ![s] = f]
        /\ tiers' = [tiers EXCEPT ![s] = Append(tiers[s], GPU)]
        /\ refCount' = [refCount EXCEPT ![b] = 1]
        /\ blockHash' = [blockHash EXCEPT ![b] = NoHash]
        /\ free' = free \ {b} /\ used' = used \cup {b}
        /\ hashToBlock' = IndexWithout({b})
    BY <1>5 DEF MayAppend
  <2>2. b \in free /\ b \in Block /\ TierOf[b] = GPU /\ refCount[b] = 0
    BY <1>1, <1>5 DEF FreeIn, Owned, PoolPartition
  <2>3. b \notin Held(s)
    <3>1. refCount[b] = Cardinality(Holders(b)) + 0
      BY <2>2, QuietTargets DEF IndInv, RefCountsExact
    <3>2. Cardinality(Holders(b)) = 0
      BY <2>2, <3>1, HoldersFinite
    <3> QED BY <3>2, HoldersEmpty
  <2>4. DOMAIN f = 1 .. Len(table[s]) + 1 /\ f \in Seq(Block)
        /\ (\A i \in DOMAIN table[s] : f[i] = table[s][i]) /\ f[Len(table[s]) + 1] = b
        /\ Len(f) = Len(table[s]) + 1
    BY <1>1, <2>2
  <2> HIDE DEF f
  <2>5. ImageOf(f) = Held(s) \cup {b}
    <3>1. DOMAIN table[s] = 1 .. Len(table[s]) /\ Len(table[s]) \in Nat
      BY <1>1
    <3>2. DOMAIN f = DOMAIN table[s] \cup {Len(table[s]) + 1}
      BY <2>4, <3>1
    <3>3. ImageOf(f) = {f[i] : i \in DOMAIN table[s]} \cup {f[Len(table[s]) + 1]}
      BY <3>2 DEF ImageOf
    <3>4. {f[i] : i \in DOMAIN table[s]} = Held(s)
      BY <2>4 DEF Held
    <3> QED BY <2>4, <3>3, <3>4
  <2>6. Injective(f)
    <3>1. Injective(table[s])
      BY DEF IndInv, RefCountsExact
    <3> QED BY <1>1, <2>3, <2>4, <3>1 DEF Injective, Held
  <2>7. ImageOf(f) \ Held(s) = {b} /\ ImageOf(f) \subseteq Block
    BY <1>1, <2>2, <2>3, <2>5 DEF Held
  <2>8. refCount' = [c \in Block |-> IF c \in ImageOf(f) \ Held(s)
                                     THEN refCount[c] + 1 ELSE refCount[c]]
    <3>1. refCount \in [Block -> Nat]
      BY <1>1 DEF TypeOK
    <3>2. \A c \in Block : c \in ImageOf(f) \ Held(s) <=> c = b
      BY <2>7, <2>2
    <3>3. refCount[b] + 1 = 1
      BY <2>2
    <3> QED BY <2>1, <2>2, <3>1, <3>2, <3>3
  <2>9. Owned'
    BY <1>1, <2>1, <2>2, <2>5, <2>6, <2>7, <2>8, OwnedAcquire
  <2>10. GPU \in Tier
    BY ConstantsAssumption DEF Tier
  <2>11. table' \in [Seqs -> Seq(Block)] /\ tiers' \in [Seqs -> Seq(Tier)]
    BY <1>1, <2>1, <2>4, <2>10 DEF TypeOK
  <2>12. refCount' \in [Block -> Nat] /\ blockHash' \in [Block -> Hash]
         /\ free' \subseteq Block /\ used' \subseteq Block
    BY <1>1, <2>1, <2>2 DEF TypeOK, NoHash, Hash
  <2>13. IndexOnGpu' /\ DOMAIN hashToBlock' \subseteq Hash /\ ImageOf(hashToBlock') \subseteq Block
    BY <1>1, <2>1, IndexWithoutSub DEF IndexOnGpu
  <2>14. table'[s] = f /\ tiers'[s] = Append(tiers[s], GPU)
         /\ \A t \in Seqs \ {s} : table'[t] = table[t] /\ tiers'[t] = tiers[t]
    BY <1>1, <2>1 DEF TypeOK
  <2>15. DOMAIN tiers'[s] = DOMAIN table'[s]
    BY <1>1, <1>2, <2>4, <2>10, <2>14
  <2>16. \A i \in DOMAIN table'[s] : TierOf[table'[s][i]] = GPU /\ tiers'[s][i] = GPU
    BY <1>1, <1>2, <2>2, <2>4, <2>10, <2>14
  <2> QED BY <1>2, <1>3, <1>5, <2>4, <2>9, <2>11, <2>12, <2>13, <2>14, <2>15, <2>16
<1> QED BY <1>4, <1>5

(* Decode and Resume leave the request scheduled for one token. *)
LEMMA OneTokenScheduled ==
  ASSUME IndInv, NEW s \in Seqs, NEW b, plan = NoPlan, plan' = plan,
         Active(s), numSched[s] = 0, AllOn(s, GPU),
         UNCHANGED <<tokens, numCached, computed, tableTier, kv>>,
         b \in IF NeedsBlock(s) THEN FreeIn(GPU) ELSE Block, MayAppend(s, b),
         numSched' = [numSched EXCEPT ![s] = 1],
         status' = [status EXCEPT ![s] = "running"],
         tableTier[s] \in Tier => tableTier[s] = GPU
  PROVE  IndInv'
<1>1. TypeOK'
  BY MayAppendFacts DEF IndInv, TypeOK
<1>2. Shape(s)'
  <2>1. /\ Len(table'[s]) = NumBlocks(s) /\ NumBlocks(s) > 0
        /\ DOMAIN tiers'[s] = DOMAIN table'[s]
        /\ \A i \in DOMAIN table'[s] : TierOf[table'[s][i]] = GPU /\ tiers'[s][i] = GPU
        /\ numCached[s] = Len(tokens[s]) - 1 /\ Len(tokens[s]) > 0
        /\ table'[s] \in Seq(Block)
    BY MayAppendFacts
  <2>2. /\ numCached'[s] = numCached[s] /\ numSched'[s] = 1 /\ status'[s] = "running"
        /\ tokens'[s] = tokens[s] /\ NumBlocks(s)' = NumBlocks(s) /\ Len(tokens[s]) \in Nat
        /\ NumBlocks(s) \in Nat /\ tableTier'[s] = tableTier[s]
    BY SeqTypes, IndInvParts DEF IndInv, TypeOK, NumBlocks
  <2>3. s \notin computed'
    BY SeqTypes, IndInvParts DEF Shape, ScheduleOf
  <2>4. TagsOf(s)'
    BY <2>1, <2>2 DEF TagsOf, AllOn
  <2>5. CoverOf(s)'
    BY <2>1, <2>2 DEF CoverOf, Active
  <2>6. table'[s] # << >>
    BY <2>1
  <2>7. ScheduleOf(s)'
    BY <2>1, <2>2, <2>3, <2>6 DEF ScheduleOf, EndOf
  <2> QED BY <2>4, <2>5, <2>7 DEF Shape
<1>3. ASSUME NEW t \in Seqs, t # s PROVE Shape(t)'
  BY <1>3, IndInvParts, ShapeFrame, MayAppendFacts DEF IndInv, TypeOK
<1> QED BY <1>1, <1>2, <1>3, MayAppendFacts, QuietPlan, IndInvNext

LEMMA ActiveOnGpu ==
  ASSUME IndInv, NEW s \in Seqs, Active(s), numSched[s] = 0, AllOn(s, GPU)
  PROVE  tableTier[s] \in Tier => tableTier[s] = GPU
<1>1. table[s] # << >> /\ table[s] \in Seq(Block) /\ DOMAIN tiers[s] = DOMAIN table[s]
  BY SeqTypes, IndInvParts DEF Shape, ScheduleOf, TagsOf
<1>2. 1 \in DOMAIN tiers[s]
  BY <1>1
<1> QED BY <1>2, IndInvParts DEF Shape, TagsOf, AllOn

LEMMA DecodePreserves ==
  ASSUME IndInv, NEW s \in Seqs, NEW b, Decode(s, b) PROVE IndInv'
<1>1. Active(s) /\ AllOn(s, GPU) /\ numSched[s] = 0
  BY IndInvParts DEF Decode, Active, Shape, TagsOf
<1>2. status' = [status EXCEPT ![s] = "running"]
  BY DEF Decode, IndInv, TypeOK
<1> QED BY <1>1, <1>2, ActiveOnGpu, OneTokenScheduled DEF Decode, Quiet

LEMMA ResumePreserves ==
  ASSUME IndInv, NEW s \in Seqs, NEW b, Resume(s, b) PROVE IndInv'
<1>1. Active(s) /\ AllOn(s, GPU) /\ numSched[s] = 0
  BY IndInvParts, SeqTypes DEF Resume, Active, Shape, ScheduleOf
<1> QED BY <1>1, ActiveOnGpu, OneTokenScheduled DEF Resume, Quiet

(* Different prefixes are cached in different blocks. *)
LEMMA HitsDistinct ==
  ASSUME IndInv, NEW s \in Seqs, NEW n \in Nat, n * BlockSize < Len(tokens[s]),
         \A i \in 1 .. n : IsIndexed(s, i)
  PROVE  /\ \A i \in 1 .. n : CachedBlock(s, i) \in Block /\ TierOf[CachedBlock(s, i)] = GPU
         /\ \A i, j \in 1 .. n : CachedBlock(s, i) = CachedBlock(s, j) => i = j
<1>1. tokens[s] \in Seq(Token) /\ Len(tokens[s]) \in Nat /\ BlockSize \in Nat /\ BlockSize > 1
  BY SeqTypes, IndInvParts
<1>2. ASSUME NEW i \in 1 .. n
      PROVE  CachedBlock(s, i) \in Block /\ TierOf[CachedBlock(s, i)] = GPU
  BY DEF IsIndexed, CachedBlock, IndInv, TypeOK, ImageOf, IndexOnGpu
<1>3. ASSUME NEW i \in 1 .. n
      PROVE  Len(Prefix(s, i)) = i * BlockSize
  <2>1. i \in Nat /\ i <= n
    OBVIOUS
  <2>2. i * BlockSize \in Nat /\ i * BlockSize <= n * BlockSize
    BY <1>1, <2>1, TimesMonotone
  <2>3. i * BlockSize <= Len(tokens[s])
    BY <1>1, <2>2
  <2> QED BY <1>1, <2>2, <2>3 DEF Prefix
<1>4. ASSUME NEW i \in 1 .. n, NEW j \in 1 .. n, CachedBlock(s, i) = CachedBlock(s, j)
      PROVE  i = j
  <2>1. Prefix(s, i) = Prefix(s, j)
    BY <1>4 DEF IsIndexed
  <2>2. i * BlockSize = j * BlockSize
    BY <1>3, <2>1
  <2> QED BY <1>1, <2>2, TimesInjective
<1> QED BY <1>2, <1>4

LEMMA PrefillNewPreserves ==
  ASSUME IndInv, NEW s \in Seqs, NEW n, NEW fresh, NEW c, PrefillNew(s, n, fresh, c)
  PROVE  IndInv'
<1> DEFINE hit == {CachedBlock(s, i) : i \in 1 .. n}
           new == ImageOf(fresh)
           size == NumBlocks(s)
           f == [i \in 1 .. size |-> IF i <= n THEN CachedBlock(s, i) ELSE fresh[i]]
<1>1. /\ plan = NoPlan /\ plan' = plan /\ status[s] = "waiting" /\ table[s] = << >>
      /\ numSched[s] = 0 /\ n \in 0 .. size - 1 /\ (\A i \in 1 .. n : IsIndexed(s, i))
      /\ fresh \in [n + 1 .. size -> FreeIn(GPU) \ hit] /\ Injective(fresh)
      /\ table' = [table EXCEPT ![s] = f]
      /\ tiers' = [tiers EXCEPT ![s] = [i \in 1 .. size |-> GPU]]
      /\ numCached' = [numCached EXCEPT ![s] = n * BlockSize]
      /\ c \in 1 .. Len(tokens[s]) - n * BlockSize
      /\ numSched' = [numSched EXCEPT ![s] = c]
      /\ status' = [status EXCEPT ![s] =
                      IF n * BlockSize + c = Len(tokens[s]) THEN "running" ELSE "waiting"]
      /\ hashToBlock' = IndexWithout(new)
      /\ UNCHANGED <<tokens, computed, tableTier, kv>>
  BY DEF PrefillNew, Quiet, CanAllocate, ScheduleChunk
<1>2. /\ refCount' = [b \in Block |->
                        IF b \in hit THEN (IF b \in used THEN refCount[b] + 1 ELSE 1)
                        ELSE IF b \in new THEN 1 ELSE refCount[b]]
      /\ blockHash' = [b \in Block |-> IF b \in new THEN NoHash ELSE blockHash[b]]
      /\ free' = free \ (hit \cup new)
      /\ used' = used \cup hit \cup new
  BY DEF PrefillNew
<1>3. /\ TypeOK /\ Owned /\ IndexOnGpu /\ Shape(s) /\ size \in Nat
      /\ Len(tokens[s]) \in Nat /\ BlockSize \in Nat /\ BlockSize > 1
  BY SeqTypes, IndInvParts
<1>4. n \in Nat /\ n * BlockSize \in Nat /\ n * BlockSize < Len(tokens[s])
  BY <1>1, <1>3
<1>5. /\ \A i \in 1 .. n : CachedBlock(s, i) \in Block /\ TierOf[CachedBlock(s, i)] = GPU
      /\ \A i, j \in 1 .. n : CachedBlock(s, i) = CachedBlock(s, j) => i = j
  BY <1>1, <1>4, HitsDistinct
<1>6. \A b \in new : b \in Block /\ b \in free /\ TierOf[b] = GPU /\ b \notin hit
  <2>1. DOMAIN fresh = n + 1 .. size
        /\ \A i \in n + 1 .. size : fresh[i] \in FreeIn(GPU) /\ fresh[i] \notin hit
    BY <1>1
  <2>2. \A b \in FreeIn(GPU) : b \in Block /\ b \in free /\ TierOf[b] = GPU
    BY <1>3 DEF FreeIn, TypeOK
  <2> HIDE DEF hit
  <2> QED BY <2>1, <2>2 DEF ImageOf
<1>7. /\ DOMAIN f = 1 .. size /\ f \in Seq(Block) /\ Len(f) = size
      /\ (\A i \in 1 .. n : f[i] = CachedBlock(s, i)) /\ (\A i \in n + 1 .. size : f[i] = fresh[i])
  <2>1. \A i \in n + 1 .. size : fresh[i] \in Block
    BY <1>1, <1>3 DEF FreeIn, TypeOK
  <2>2. \A i \in 1 .. n : CachedBlock(s, i) \in Block
    BY <1>5
  <2>3. \A i \in 1 .. size : i \in 1 .. n \/ i \in n + 1 .. size
    BY <1>3, <1>4
  <2>4. f \in [1 .. size -> Block]
    BY <1>3, <1>4, <2>1, <2>2, <2>3
  <2>5. (\A i \in 1 .. n : f[i] = CachedBlock(s, i)) /\ (\A i \in n + 1 .. size : f[i] = fresh[i])
    BY <1>1, <1>3, <1>4
  <2> HIDE DEF f
  <2>6. f \in Seq(Block) /\ Len(f) = size /\ DOMAIN f = 1 .. size
    BY <1>3, <2>4
  <2> QED BY <2>5, <2>6
<1>8. Injective(f) /\ ImageOf(f) = hit \cup new
  <2>1. \A i \in n + 1 .. size : f[i] \in new
    BY <1>1, <1>7 DEF ImageOf
  <2>2. \A i, j \in n + 1 .. size : f[i] = f[j] => i = j
    BY <1>1, <1>7 DEF Injective
  <2>3. 1 .. size = (1 .. n) \cup (n + 1 .. size)
    BY <1>1, <1>3, <1>4
  <2>4. Injective(f)
    BY <1>5, <1>6, <1>7, <2>1, <2>2, <2>3 DEF Injective
  <2>5. new = {f[i] : i \in n + 1 .. size}
    BY <1>1, <1>7 DEF ImageOf
  <2>6. hit = {f[i] : i \in 1 .. n}
    BY <1>7
  <2>7. ImageOf(f) = {f[i] : i \in 1 .. n} \cup {f[i] : i \in n + 1 .. size}
    BY <1>7, <2>3 DEF ImageOf
  <2> QED BY <2>4, <2>5, <2>6, <2>7
<1> HIDE DEF f
<1>9. Held(s) = {}
  BY <1>1 DEF Held
<1>10. \A b \in hit \cup new : b \in Block /\ TierOf[b] = GPU
  BY <1>5, <1>6
<1>11. refCount' = [b \in Block |-> IF b \in ImageOf(f) \ Held(s)
                                    THEN refCount[b] + 1 ELSE refCount[b]]
  <2>1. ASSUME NEW b \in hit, b \notin used PROVE refCount[b] = 0
    BY <1>3, <1>10, <2>1 DEF Owned, PoolPartition
  <2>2. ASSUME NEW b \in new PROVE refCount[b] = 0
    BY <1>3, <1>6 DEF Owned, PoolPartition
  <2> QED BY <1>2, <1>8, <1>9, <2>1, <2>2
<1>12. free' = free \ (ImageOf(f) \ Held(s)) /\ used' = used \cup (ImageOf(f) \ Held(s))
  BY <1>2, <1>8, <1>9
<1>13. Owned'
  <2>1. Held(s) \subseteq ImageOf(f) /\ ImageOf(f) \subseteq Block
        /\ \A b \in ImageOf(f) \ Held(s) : TierOf[b] = GPU
    BY <1>8, <1>9, <1>10
  <2> QED BY <1>1, <1>3, <1>8, <1>11, <1>12, <2>1, OwnedAcquire
<1>14. TypeOK'
  <2>1. GPU \in Tier
    BY ConstantsAssumption DEF Tier
  <2>2. table' \in [Seqs -> Seq(Block)] /\ tiers' \in [Seqs -> Seq(Tier)]
    <3>1. [i \in 1 .. size |-> GPU] \in Seq(Tier)
      BY <1>3, <2>1
    <3> QED BY <1>1, <1>3, <1>7, <3>1 DEF TypeOK
  <2>3. numCached' \in [Seqs -> Nat] /\ numSched' \in [Seqs -> Nat]
        /\ status' \in [Seqs -> {"new", "waiting", "running", "swapped", "finished"}]
    BY <1>1, <1>3, <1>4 DEF TypeOK
  <2>4. refCount' \in [Block -> Nat]
    BY <1>3, <1>11 DEF TypeOK
  <2>5. blockHash' \in [Block -> Hash] /\ free' \subseteq Block /\ used' \subseteq Block
    BY <1>2, <1>3, <1>10 DEF TypeOK, NoHash, Hash
  <2>6. DOMAIN hashToBlock' \subseteq Hash /\ ImageOf(hashToBlock') \subseteq Block
    BY <1>1, <1>3, IndexWithoutSub
  <2> QED BY <1>1, <1>3, <2>2, <2>3, <2>4, <2>5, <2>6 DEF TypeOK
<1>15. Shape(s)'
  <2>1. /\ table'[s] = f /\ tiers'[s] = [i \in 1 .. size |-> GPU]
        /\ numCached'[s] = n * BlockSize /\ numSched'[s] = c /\ tokens'[s] = tokens[s]
        /\ status'[s] = (IF n * BlockSize + c = Len(tokens[s]) THEN "running" ELSE "waiting")
        /\ tableTier'[s] = tableTier[s] /\ computed' = computed /\ NumBlocks(s)' = size
    BY <1>1, <1>3 DEF TypeOK, NumBlocks
  <2>2. s \notin computed
    BY <1>1, <1>3 DEF Shape, ScheduleOf
  <2>3. tableTier[s] = GPU
    BY <1>1, <1>3 DEF Shape, ScheduleOf
  <2>4. size > 0 /\ c \in Nat /\ c > 0 /\ n * BlockSize + c <= Len(tokens[s])
    BY <1>1, <1>3, <1>4
  <2>5. \A i \in 1 .. size : TierOf[f[i]] = GPU
    BY <1>7, <1>8, <1>10 DEF ImageOf
  <2>6. TagsOf(s)'
    BY <1>7, <2>1, <2>3, <2>5 DEF TagsOf, AllOn
  <2>7. CoverOf(s)'
    BY <1>7, <2>1, <2>4 DEF CoverOf, Active
  <2>8. f # << >>
    BY <1>7, <2>4
  <2>9. ScheduleOf(s)'
    <3>1. EndOf(s)' = n * BlockSize + c
      BY <2>1 DEF EndOf
    <3>2. AllOn(s, GPU)'
      BY <2>1 DEF AllOn
    <3>3. Len(tokens[s])' = Len(tokens[s])
      BY <2>1
    <3>4. \/ status'[s] = "running" /\ EndOf(s)' = Len(tokens[s])
          \/ status'[s] = "waiting" /\ EndOf(s)' < Len(tokens[s])
      BY <2>1, <2>4, <3>1, <1>4
    <3>5. EndOf(s)' <= Len(tokens[s])
      BY <2>4, <3>1
    <3>6. numSched'[s] > 0 /\ table'[s] # << >> /\ s \notin computed'
      BY <2>1, <2>2, <2>4, <2>8
    <3> QED BY <3>2, <3>3, <3>4, <3>5, <3>6 DEF ScheduleOf
  <2> QED BY <2>6, <2>7, <2>9 DEF Shape
<1>16. ASSUME NEW t \in Seqs, t # s PROVE Shape(t)'
  <2>1. /\ table'[t] = table[t] /\ tiers'[t] = tiers[t] /\ numCached'[t] = numCached[t]
        /\ numSched'[t] = numSched[t] /\ status'[t] = status[t]
    BY <1>1, <1>3, <1>16 DEF TypeOK
  <2> QED BY <1>1, <2>1, IndInvParts, ShapeFrame
<1>17. IndexOnGpu'
  BY <1>1, <1>3, IndexWithoutSub DEF IndexOnGpu
<1> QED BY <1>1, <1>13, <1>14, <1>15, <1>16, <1>17, QuietPlan, IndInvNext

-----------------------------------------------------------------------------
(***************************************************************************)
(* Transfers.                                                              *)
(***************************************************************************)
LEMMA PreparePreserves ==
  ASSUME IndInv, NEW s \in Seqs, NEW t \in Tier, NEW I, NEW dst, NEW op,
         plan = NoPlan, Active(s), numSched[s] = 0, I \subseteq DOMAIN table[s],
         dst \in [I -> FreeIn(t)], Injective(dst), op \in {"swap", "move"},
         op = "swap" => I = DOMAIN table[s],
         PopTargets(s, dst, t), StartPlan(op, s, dst, t),
         UNCHANGED <<seqVars, placeVars, kv>>
  PROVE  IndInv'
<1> USE DEF seqVars, placeVars
<1>1. TypeOK /\ Owned /\ IndexOnGpu /\ table[s] \in Seq(Block)
  BY IndInvParts, SeqTypes
<1>2. \A i \in I : dst[i] \in Block /\ dst[i] \in free /\ TierOf[dst[i]] = t
  BY <1>1 DEF FreeIn, TypeOK
<1>3. /\ plan'.op = op /\ plan'.seq = s /\ plan'.to = t /\ plan'.copied = FALSE
      /\ plan'.dst = dst /\ plan'.src = [i \in I |-> table[s][i]] /\ DOMAIN dst = I
  BY DEF StartPlan
<1>4. PlanTargets' = ImageOf(dst)
  BY <1>3 DEF PlanTargets, ImageOf
<1>5. \A b \in ImageOf(dst) : b \in Block /\ b \in free /\ TierOf[b] = t
  BY <1>2, <1>3 DEF ImageOf
<1>6. /\ refCount' = [b \in Block |-> IF b \in ImageOf(dst) THEN 1 ELSE refCount[b]]
      /\ free' = free \ ImageOf(dst)
      /\ used' = (IF t = GPU THEN used \cup ImageOf(dst) ELSE used)
      /\ hashToBlock' = (IF t = GPU THEN IndexWithout(ImageOf(dst)) ELSE hashToBlock)
  BY DEF PopTargets
<1>7. Owned' /\ \A b \in PlanTargets' : Holders(b)' = {}
  BY <1>1, <1>4, <1>5, <1>6, OwnedReserve
<1>8. TypeOK'
  <2>1. blockHash' \in [Block -> Hash]
    <3>1. ASSUME NEW b \in ImageOf(dst)
          PROVE  blockHash[table[s][CHOOSE i \in DOMAIN dst : dst[i] = b]] \in Hash
      <4> DEFINE k == CHOOSE i \in DOMAIN dst : dst[i] = b
      <4>1. k \in DOMAIN dst
        BY DEF ImageOf
      <4> HIDE DEF k
      <4>2. table[s][k] \in Block
        BY <1>1, <1>3, <4>1
      <4> QED BY <1>1, <4>2 DEF k, TypeOK
    <3> QED BY <1>1, <3>1 DEF PopTargets, TypeOK
  <2>2. refCount' \in [Block -> Nat] /\ free' \subseteq Block /\ used' \subseteq Block
    BY <1>1, <1>5, <1>6 DEF TypeOK
  <2>3. DOMAIN hashToBlock' \subseteq Hash /\ ImageOf(hashToBlock') \subseteq Block
    BY <1>1, <1>6, IndexWithoutSub DEF TypeOK
  <2>4. plan'.dst \in [DOMAIN plan'.dst -> Block] /\ DOMAIN plan'.dst \subseteq DOMAIN table'[s]
    BY <1>2, <1>3
  <2> QED BY <1>1, <1>3, <2>1, <2>2, <2>3, <2>4 DEF TypeOK
<1>9. ASSUME NEW q \in Seqs PROVE Shape(q)'
  BY IndInvParts, ShapeFrame
<1>10. PlanSound'
  BY <1>3, <1>4, <1>5, <1>7 DEF PlanSound, Active
<1>11. IndexOnGpu'
  BY <1>1, <1>6, IndexWithoutSub DEF IndexOnGpu
<1> QED BY <1>7, <1>8, <1>9, <1>10, <1>11, IndInvNext

LEMMA PrepareSwapPreserves ==
  ASSUME IndInv, NEW s \in Seqs, NEW t \in Tier, NEW dst, PrepareSwap(s, t, dst)
  PROVE  IndInv'
BY PreparePreserves DEF PrepareSwap, Movable, Quiet

LEMMA PrepareMovePreserves ==
  ASSUME IndInv, NEW s \in Seqs, NEW t \in Tier, NEW I, NEW dst, PrepareMove(s, t, I, dst)
  PROVE  IndInv'
BY PreparePreserves DEF PrepareMove, Movable, Quiet

(* A plan in flight, unfolded. *)
LEMMA PlanFacts ==
  ASSUME IndInv, plan # NoPlan
  PROVE  /\ plan.op \in {"swap", "move"} /\ plan.seq \in Seqs /\ plan.to \in Tier
         /\ plan.dst \in [DOMAIN plan.dst -> Block]
         /\ DOMAIN plan.dst \subseteq DOMAIN table[plan.seq]
         /\ plan.src = [i \in DOMAIN plan.dst |-> table[plan.seq][i]]
         /\ table[plan.seq] \in Seq(Block)
         /\ PlanTargets \subseteq Block
         /\ \A i \in DOMAIN plan.dst : TierOf[plan.dst[i]] = plan.to /\ plan.dst[i] \in Block
         /\ \A b \in PlanTargets : TierOf[b] = plan.to /\ Holders(b) = {}
         /\ Active(plan.seq) /\ numSched[plan.seq] = 0
         /\ plan.op = "swap" => DOMAIN plan.dst = DOMAIN table[plan.seq]
         /\ PlanSound /\ TypeOK /\ Owned /\ IndexOnGpu /\ Shape(plan.seq)
<1>1. /\ plan.op \in {"swap", "move"} /\ plan.seq \in Seqs /\ plan.to \in Tier
      /\ plan.dst \in [DOMAIN plan.dst -> Block]
      /\ DOMAIN plan.dst \subseteq DOMAIN table[plan.seq]
      /\ table[plan.seq] \in Seq(Block)
  BY DEF IndInv, TypeOK
<1>2. PlanSound /\ TypeOK /\ Owned /\ IndexOnGpu /\ Shape(plan.seq)
  BY <1>1, IndInvParts
<1>3. /\ plan.src = [i \in DOMAIN plan.dst |-> table[plan.seq][i]]
      /\ Active(plan.seq) /\ numSched[plan.seq] = 0
      /\ \A b \in PlanTargets : TierOf[b] = plan.to /\ Holders(b) = {}
      /\ plan.op = "swap" => DOMAIN plan.dst = DOMAIN table[plan.seq]
  BY <1>2 DEF PlanSound
<1>4. \A i \in DOMAIN plan.dst : plan.dst[i] \in PlanTargets /\ plan.dst[i] \in Block
  BY <1>1 DEF PlanTargets, ImageOf
<1>5. PlanTargets \subseteq Block
  BY <1>1 DEF PlanTargets, ImageOf
<1> QED BY <1>1, <1>2, <1>3, <1>4, <1>5

LEMMA CopiedType ==
  ASSUME IndInv, plan # NoPlan, NEW W, W \subseteq DOMAIN plan.dst
  PROVE  Copied(W) \in [Block -> Seq(Token)]
<1>1. ASSUME NEW b \in Block, NEW i \in W, plan.dst[i] = b
      PROVE  kv[plan.src[CHOOSE j \in W : plan.dst[j] = b]] \in Seq(Token)
  <2> DEFINE k == CHOOSE j \in W : plan.dst[j] = b
  <2>1. k \in W
    BY <1>1
  <2> HIDE DEF k
  <2>2. plan.src[k] \in Block
    BY <2>1, PlanFacts
  <2> QED BY <2>2 DEF k, IndInv, TypeOK
<1> QED BY <1>1 DEF Copied, IndInv, TypeOK

LEMMA AbortPreserves ==
  ASSUME IndInv, NEW W, AbortTransfer(W) PROVE IndInv'
<1> USE DEF seqVars, placeVars
<1>1. /\ plan # NoPlan /\ W \subseteq DOMAIN plan.dst /\ plan' = NoPlan
      /\ kv' = Copied(W)
      /\ refCount' = [b \in Block |-> IF b \in PlanTargets THEN 0 ELSE refCount[b]]
      /\ blockHash' = [b \in Block |-> IF b \in PlanTargets THEN NoHash ELSE blockHash[b]]
      /\ free' = free \cup PlanTargets /\ used' = used \ PlanTargets
      /\ UNCHANGED <<seqVars, placeVars, hashToBlock>>
  BY DEF AbortTransfer, PlanTargets
<1>2. Owned'
  BY <1>1, PlanFacts, OwnedUnreserve
<1>3. TypeOK'
  <2>1. blockHash' \in [Block -> Hash] /\ refCount' \in [Block -> Nat]
        /\ free' \subseteq Block /\ used' \subseteq Block
    BY <1>1, PlanFacts DEF TypeOK, NoHash, Hash
  <2>2. kv' \in [Block -> Seq(Token)]
    BY <1>1, CopiedType
  <2> QED BY <1>1, <2>1, <2>2 DEF IndInv, TypeOK
<1>4. ASSUME NEW q \in Seqs PROVE Shape(q)'
  BY <1>1, IndInvParts, ShapeFrame
<1>5. IndexOnGpu'
  BY <1>1, IndInvParts DEF IndexOnGpu
<1> QED BY <1>1, <1>2, <1>3, <1>4, <1>5, QuietPlan, IndInvNext

-----------------------------------------------------------------------------
LEMMA IndexOverrideTypes ==
  ASSUME TypeOK, NEW index, DOMAIN index \subseteq Hash,
         \A h \in DOMAIN index : index[h] \in Block /\ TierOf[index[h]] = GPU,
         plan.to = GPU => \A b \in PlanTargets : b \in Block /\ TierOf[b] = GPU
  PROVE  /\ DOMAIN IndexWithTargets(index) \subseteq Hash
         /\ \A h \in DOMAIN IndexWithTargets(index) :
              /\ IndexWithTargets(index)[h] \in Block
              /\ TierOf[IndexWithTargets(index)[h]] = GPU
<1> DEFINE g == IndexOf(PlanTargets, blockHash)
<1>1. CASE plan.to # GPU
  BY <1>1 DEF IndexWithTargets
<1>2. CASE plan.to = GPU
  <2>1. ASSUME NEW h \in DOMAIN g
        PROVE  h \in Hash /\ g[h] \in PlanTargets
    <3>1. EnablePrefixCache
      BY <2>1 DEF IndexOf
    <3>2. g = [x \in {blockHash[b] : b \in PlanTargets} \ {NoHash} |->
                 CHOOSE b \in PlanTargets : blockHash[b] = x]
      BY <3>1 DEF IndexOf
    <3>3. PICK b \in PlanTargets : blockHash[b] = h
      BY <2>1, <3>2
    <3>4. h \in Hash
      BY <1>2, <3>3 DEF TypeOK
    <3>5. g[h] = CHOOSE x \in PlanTargets : blockHash[x] = h
      BY <2>1, <3>2
    <3> QED BY <3>3, <3>4, <3>5
  <2>2. IndexWithTargets(index) = Override(index, g)
    BY <1>2 DEF IndexWithTargets, PlanTargets
  <2> HIDE DEF g
  <2> QED BY <1>2, <2>1, <2>2 DEF Override
<1> QED BY <1>1, <1>2

(* What commit_swap and commit_block_move have in common. *)
LEMMA FunctionIsSeq ==
  ASSUME NEW S, NEW n \in Nat, NEW g \in [1 .. n -> S] PROVE g \in Seq(S)
  OBVIOUS

LEMMA CommitPreserves ==
  ASSUME IndInv, plan # NoPlan, plan' = NoPlan, NEW index,
         DOMAIN index \subseteq Hash,
         \A h \in DOMAIN index : index[h] \in Block /\ TierOf[index[h]] = GPU,
         refCount' = RefAfterDrop(ImageOf(plan.src)),
         free' = free \cup Freed(ImageOf(plan.src)),
         used' = used \ Freed(ImageOf(plan.src)),
         blockHash' \in [Block -> Hash],
         table' = [table EXCEPT ![plan.seq] = Moved(plan.seq)],
         tiers' = [tiers EXCEPT ![plan.seq] =
                     [i \in DOMAIN table[plan.seq] |->
                        IF i \in DOMAIN plan.dst THEN plan.to ELSE tiers[plan.seq][i]]],
         NEW tag \in Tier \cup {"none"}, tableTier' = [tableTier EXCEPT ![plan.seq] = tag],
         tag \in Tier => \A i \in DOMAIN table[plan.seq] :
                           (IF i \in DOMAIN plan.dst THEN plan.to ELSE tiers[plan.seq][i]) = tag,
         hashToBlock' = IndexWithTargets(index),
         status' = StatusAfterMove,
         UNCHANGED <<tokens, numCached, numSched, computed, kv>>
  PROVE  IndInv'
<1>0. PICK s \in Seqs : s = plan.seq
  BY PlanFacts
<1> DEFINE f == Moved(s)
           tags == [i \in DOMAIN table[s] |->
                      IF i \in DOMAIN plan.dst THEN plan.to ELSE tiers[s][i]]
<1>1. /\ s \in Seqs /\ plan.to \in Tier /\ table[s] \in Seq(Block)
      /\ plan.dst \in [DOMAIN plan.dst -> Block]
      /\ DOMAIN plan.dst \subseteq DOMAIN table[s]
      /\ \A i \in DOMAIN plan.dst : TierOf[plan.dst[i]] = plan.to /\ plan.dst[i] \in Block
      /\ \A b \in PlanTargets : TierOf[b] = plan.to
      /\ PlanTargets \subseteq Block
      /\ Active(s) /\ numSched[s] = 0
      /\ PlanSound /\ TypeOK /\ Owned /\ Shape(s) /\ s = plan.seq
  BY <1>0, PlanFacts
<1>2. tiers[s] \in Seq(Tier) /\ DOMAIN tiers[s] = DOMAIN table[s]
  BY <1>1 DEF TypeOK, Shape, TagsOf
<1>3. /\ f \in Seq(Block) /\ Len(f) = Len(table[s]) /\ DOMAIN f = DOMAIN table[s]
  <2>1. DOMAIN table[s] = 1 .. Len(table[s]) /\ Len(table[s]) \in Nat
    BY <1>1
  <2>2. DOMAIN f = DOMAIN table[s]
    BY DEF Moved
  <2>3. \A i \in DOMAIN table[s] : f[i] \in Block
    BY <1>1 DEF Moved
  <2>4. f \in [1 .. Len(table[s]) -> Block]
    <3>1. f = [i \in DOMAIN table[s] |-> f[i]]
      BY DEF Moved
    <3> HIDE DEF f
    <3> QED BY <2>1, <2>3, <3>1
  <2> HIDE DEF f
  <2> QED BY <2>1, <2>2, <2>4
<1>4. tags \in Seq(Tier) /\ DOMAIN tags = DOMAIN table[s]
  <2>1. DOMAIN table[s] = 1 .. Len(table[s]) /\ Len(table[s]) \in Nat
    BY <1>1
  <2>2. tags = [i \in DOMAIN table[s] |-> tags[i]]
    OBVIOUS
  <2>3. \A i \in DOMAIN table[s] : tiers[s][i] \in Tier
    BY <1>2, <1>1
  <2>4. \A i \in DOMAIN table[s] : tags[i] \in Tier
    BY <1>1, <2>3
  <2>5. DOMAIN tags = DOMAIN table[s]
    OBVIOUS
  <2> HIDE DEF tags
  <2>6. tags \in [1 .. Len(table[s]) -> Tier]
    BY <2>1, <2>2, <2>4
  <2>7. tags \in Seq(Tier)
    BY <2>1, <2>6, FunctionIsSeq
  <2> QED BY <2>5, <2>7
<1>5. \A i \in DOMAIN table[s] : TierOf[f[i]] = tags[i]
  BY <1>1 DEF Moved, Shape, TagsOf
<1> HIDE DEF f, tags
<1>6. Owned'
  BY <1>1, OwnedCommit
<1>7. DOMAIN hashToBlock' \subseteq Hash
      /\ \A h \in DOMAIN hashToBlock' : hashToBlock'[h] \in Block /\ TierOf[hashToBlock'[h]] = GPU
  BY <1>1, IndexOverrideTypes
<1>8. TypeOK'
  <2>1. table' \in [Seqs -> Seq(Block)]
    BY <1>1, <1>3 DEF TypeOK, f
  <2>2. tiers' \in [Seqs -> Seq(Tier)]
    BY <1>1, <1>4 DEF TypeOK, tags
  <2>3. tableTier' \in [Seqs -> Tier \cup {"none"}]
        /\ status' \in [Seqs -> {"new", "waiting", "running", "swapped", "finished"}]
    BY <1>1 DEF TypeOK, StatusAfterMove
  <2>4. refCount' \in [Block -> Nat]
    <3>1. ASSUME NEW b \in ImageOf(plan.src), b \in Block
          PROVE  refCount[b] >= 1
      <4>1. b \in Held(s)
        BY <1>1, PlanFacts DEF ImageOf, Held
      <4>2. Cardinality(Holders(b)) # 0 /\ Cardinality(Holders(b)) \in Nat
        BY <1>1, <4>1, HoldersEmpty, HoldersFinite
      <4>3. refCount[b] = Cardinality(Holders(b)) + InFlight(b)
            /\ (InFlight(b) = 0 \/ InFlight(b) = 1)
        BY <3>1, <1>1 DEF Owned, RefCountsExact, InFlight
      <4> QED BY <4>2, <4>3
    <3> QED BY <1>1, <3>1 DEF RefAfterDrop, TypeOK
  <2>5. free' \subseteq Block /\ used' \subseteq Block
    <3>1. ImageOf(plan.src) \subseteq Block
      BY PlanFacts DEF ImageOf
    <3> QED BY <1>1, <3>1 DEF Freed, TypeOK
  <2>6. ImageOf(hashToBlock') \subseteq Block
    BY <1>7 DEF ImageOf
  <2> QED BY <1>1, <1>7, <2>1, <2>2, <2>3, <2>4, <2>5, <2>6 DEF TypeOK
<1>9. Shape(s)'
  <2>1. /\ table'[s] = f /\ tiers'[s] = tags /\ tableTier'[s] = tag
        /\ tokens'[s] = tokens[s] /\ numCached'[s] = numCached[s] /\ numSched'[s] = 0
        /\ status'[s] = (IF plan.to = GPU THEN status[s] ELSE "swapped")
        /\ computed' = computed
    BY <1>1 DEF TypeOK, StatusAfterMove, f, tags
  <2>2. s \notin computed /\ table[s] # << >>
    BY <1>1 DEF Shape, ScheduleOf
  <2>3. tag \in Tier => \A i \in DOMAIN tags : tags[i] = tag
    BY <1>1 DEF tags
  <2>4. status'[s] = "running" => \A i \in DOMAIN tags : tags[i] = GPU
    BY <1>1, <1>2, <2>1 DEF tags, Shape, TagsOf, AllOn
  <2>5. Active(s)' /\ status'[s] # "waiting" /\ status'[s] \notin {"new", "finished"}
    BY <1>1, <2>1 DEF Active
  <2>6. TagsOf(s)'
    BY <1>3, <1>4, <1>5, <2>1, <2>3, <2>4 DEF TagsOf, AllOn
  <2>7. CoverOf(s)'
    BY <1>1, <1>3, <2>1, <2>5 DEF Shape, CoverOf, BlocksSpanned, Active
  <2>8. f # << >>
    BY <1>1, <1>3, <2>2
  <2>9. ScheduleOf(s)'
    BY <1>1, <2>1, <2>2, <2>5, <2>8 DEF Shape, ScheduleOf, EndOf
  <2> QED BY <2>6, <2>7, <2>9 DEF Shape
<1>10. ASSUME NEW q \in Seqs, q # s PROVE Shape(q)'
  <2>1. /\ table'[q] = table[q] /\ tiers'[q] = tiers[q] /\ tableTier'[q] = tableTier[q]
        /\ status'[q] = status[q]
    BY <1>1, <1>10 DEF TypeOK, StatusAfterMove
  <2> QED BY <2>1, IndInvParts, ShapeFrame
<1>11. IndexOnGpu'
  BY <1>7 DEF IndexOnGpu
<1> QED BY <1>6, <1>8, <1>9, <1>10, <1>11, QuietPlan, IndInvNext

LEMMA CommitSwapPreserves == ASSUME IndInv, CommitSwap PROVE IndInv'
<1> DEFINE s == plan.seq
<1>1. plan # NoPlan
  BY DEF CommitSwap, NoPlan
<1>2. /\ s \in Seqs /\ plan.to \in Tier /\ DOMAIN plan.dst = DOMAIN table[s]
      /\ plan.dst \in [DOMAIN plan.dst -> Block] /\ TypeOK
  BY <1>1, PlanFacts DEF CommitSwap
<1>3. Moved(s) = plan.dst
  BY <1>2 DEF Moved
<1>4. [i \in DOMAIN table[s] |-> IF i \in DOMAIN plan.dst THEN plan.to ELSE tiers[s][i]]
        = [i \in DOMAIN plan.dst |-> plan.to]
  BY <1>2
<1>5. blockHash' \in [Block -> Hash]
  BY <1>2 DEF CommitSwap, HashAfterDrop, NoHash, Hash, TypeOK
<1>6. /\ DOMAIN hashToBlock \subseteq Hash
      /\ \A h \in DOMAIN hashToBlock : hashToBlock[h] \in Block /\ TierOf[hashToBlock[h]] = GPU
  BY DEF IndInv, TypeOK, IndexOnGpu, ImageOf
<1>7. /\ plan' = NoPlan /\ refCount' = RefAfterDrop(ImageOf(plan.src))
      /\ free' = free \cup Freed(ImageOf(plan.src))
      /\ used' = used \ Freed(ImageOf(plan.src))
      /\ table' = [table EXCEPT ![s] = plan.dst]
      /\ tableTier' = [tableTier EXCEPT ![s] = plan.to]
      /\ tiers' = [tiers EXCEPT ![s] = [i \in DOMAIN plan.dst |-> plan.to]]
      /\ hashToBlock' = IndexWithTargets(hashToBlock) /\ status' = StatusAfterMove
      /\ UNCHANGED <<tokens, numCached, numSched, computed, kv>>
  BY DEF CommitSwap
<1>8. \A i \in DOMAIN table[s] : (IF i \in DOMAIN plan.dst THEN plan.to ELSE tiers[s][i]) = plan.to
  BY <1>2
<1> QED BY <1>1, <1>2, <1>3, <1>4, <1>5, <1>6, <1>7, <1>8, CommitPreserves

LEMMA CommitMovePreserves == ASSUME IndInv, CommitMove PROVE IndInv'
<1> DEFINE s == plan.seq
           index == IndexWithout(Freed(ImageOf(plan.src)))
           tag == IF \A i \in DOMAIN table[s] : i \in DOMAIN plan.dst \/ tiers[s][i] = plan.to
                  THEN plan.to ELSE "none"
<1>1. plan # NoPlan
  BY DEF CommitMove, NoPlan
<1>2. s \in Seqs /\ plan.to \in Tier /\ TypeOK /\ IndexOnGpu /\ Shape(s)
      /\ table[s] \in Seq(Block)
  BY <1>1, PlanFacts
<1>3. DOMAIN tiers[s] = DOMAIN table[s]
  BY <1>2 DEF Shape, TagsOf
<1>4. /\ DOMAIN index \subseteq Hash
      /\ \A h \in DOMAIN index : index[h] \in Block /\ TierOf[index[h]] = GPU
  BY <1>2, IndexWithoutSub
<1>5. blockHash' \in [Block -> Hash]
  BY <1>2 DEF CommitMove, NoHash, Hash, TypeOK
<1>6. table' = [table EXCEPT ![s] = Moved(s)]
  BY <1>2 DEF CommitMove, Moved, TypeOK
<1>7. tiers' = [tiers EXCEPT ![s] =
        [i \in DOMAIN table[s] |-> IF i \in DOMAIN plan.dst THEN plan.to ELSE tiers[s][i]]]
  BY <1>2, <1>3 DEF CommitMove, TypeOK
<1>8. tableTier' = [tableTier EXCEPT ![s] = tag] /\ tag \in Tier \cup {"none"}
  BY <1>2 DEF CommitMove, TierAfterMove
<1>9. tag \in Tier => \A i \in DOMAIN table[s] :
        (IF i \in DOMAIN plan.dst THEN plan.to ELSE tiers[s][i]) = tag
  <2>1. "none" \notin Tier
    <3>1. CacheTiers \in [1 .. Len(CacheTiers) -> TierName]
      BY ConstantsAssumption
    <3>2. \A i \in DOMAIN CacheTiers : CacheTiers[i] \in TierName
      BY <3>1
    <3> QED BY <3>2 DEF Tier, TierName
  <2> QED BY <2>1
<1>10. /\ plan' = NoPlan /\ refCount' = RefAfterDrop(ImageOf(plan.src))
       /\ free' = free \cup Freed(ImageOf(plan.src))
       /\ used' = used \ Freed(ImageOf(plan.src))
       /\ hashToBlock' = IndexWithTargets(index) /\ status' = StatusAfterMove
       /\ UNCHANGED <<tokens, numCached, numSched, computed, kv>>
  BY DEF CommitMove
<1> HIDE DEF tag, index
<1> QED BY <1>1, <1>4, <1>5, <1>6, <1>7, <1>8, <1>9, <1>10, CommitPreserves

-----------------------------------------------------------------------------
LEMMA InitEstablishes == ASSUME Init PROVE IndInv
<1>1. GPU \in Tier
  BY ConstantsAssumption DEF Tier
<1>2. TypeOK
  BY <1>1, ConstantsAssumption DEF Init, TypeOK, NoHash, Hash, Garbage, ImageOf
<1>3. \A b : Holders(b) = {} /\ Cardinality(Holders(b)) = 0 /\ InFlight(b) = 0
  <2>1. \A b : Holders(b) = {}
    BY DEF Init, Holders, Held
  <2> QED BY <2>1, FS_EmptySet, QuietTargets DEF Init
<1>4. RefCountsExact
  BY <1>3 DEF Init, RefCountsExact, Injective
<1>5. PoolPartition
  BY DEF Init, PoolPartition
<1>6. ASSUME NEW s \in Seqs PROVE Shape(s)
  <2>1. /\ table[s] = << >> /\ tiers[s] = << >> /\ tableTier[s] = GPU /\ numCached[s] = 0
        /\ numSched[s] = 0 /\ status[s] = "new" /\ s \notin computed /\ Len(tokens[s]) \in Nat
    BY <1>2, SeqTypes DEF Init
  <2> QED BY <2>1 DEF Shape, TagsOf, CoverOf, ScheduleOf, AllOn, Active, EndOf
<1>7. PlanSound
  BY DEF Init, PlanSound
<1>8. IndexOnGpu
  BY DEF Init, IndexOnGpu
<1> QED BY <1>2, <1>4, <1>5, <1>6, <1>7, <1>8, IndInvParts DEF Owned

LEMMA StepPreserves == ASSUME IndInv, [Next]_vars PROVE IndInv'
<1>1. CASE UNCHANGED vars
  <2> USE <1>1 DEF vars, seqVars, placeVars, poolVars
  <2>1. TypeOK'
    BY DEF IndInv, TypeOK
  <2>2. Owned'
    BY IndInvParts, OwnedFrame DEF PlanTargets
  <2>3. ASSUME NEW q \in Seqs PROVE Shape(q)'
    BY IndInvParts, ShapeFrame
  <2>4. PlanSound'
    BY IndInvParts DEF PlanSound, PlanTargets, Holders, Held, Active, Prepared
  <2>5. IndexOnGpu'
    BY IndInvParts DEF IndexOnGpu
  <2> QED BY <2>1, <2>2, <2>3, <2>4, <2>5, IndInvNext
<1>2. ASSUME NEW s \in Seqs, Add(s) PROVE IndInv'
  BY <1>2, AddPreserves
<1>3. ASSUME NEW s \in Seqs, Prefill(s) PROVE IndInv'
  BY <1>3, PrefillNewPreserves, PrefillMorePreserves DEF Prefill
<1>4. ASSUME NEW s \in Seqs, Run(s) PROVE IndInv'
  BY <1>4, RunPreserves
<1>5. ASSUME NEW s \in Seqs, Post(s) PROVE IndInv'
  BY <1>5, PostChunkPreserves, PostTokenPreserves, PostFinishPreserves DEF Post
<1>6. ASSUME NEW s \in Seqs, Recompute(s) PROVE IndInv'
  BY <1>6, RecomputePreserves
<1>7. ASSUME NEW s \in Seqs, Prepare(s) PROVE IndInv'
  BY <1>7, PrepareSwapPreserves, PrepareMovePreserves DEF Prepare
<1>8. ASSUME NEW s \in Seqs, NEW b \in Block, Decode(s, b) \/ Resume(s, b) PROVE IndInv'
  BY <1>8, DecodePreserves, ResumePreserves
<1>9. ASSUME Transfer PROVE IndInv'
  BY <1>9, CopyPreserves, CommitSwapPreserves, CommitMovePreserves, AbortPreserves DEF Transfer
<1>10. ASSUME ClearPrefixCache PROVE IndInv'
  BY <1>10, ClearPreserves
<1> QED BY <1>1, <1>2, <1>3, <1>4, <1>5, <1>6, <1>7, <1>8, <1>9, <1>10 DEF Next

(* The inductive invariant holds in every reachable state. *)
THEOREM Invariance == Spec => []IndInv
<1>1. Init => IndInv
  BY InitEstablishes
<1>2. IndInv /\ [Next]_vars => IndInv'
  BY StepPreserves
<1> QED BY <1>1, <1>2, PTL DEF Spec

(* Every variable keeps its type, for any instance. *)
THEOREM TypeCorrect == Spec => []TypeOK
<1>1. IndInv => TypeOK
  BY DEF IndInv
<1> QED BY <1>1, Invariance, PTL

(* No block is leaked, freed while named, or named twice by one table:     *)
(* allocate, deallocate, may_append, prepare/commit/abort of swaps and of  *)
(* block moves keep ref_count equal to the number of references.           *)
THEOREM ReferenceCounting == Spec => []RefCountsExact
<1>1. IndInv => RefCountsExact
  BY DEF IndInv
<1> QED BY <1>1, Invariance, PTL

(* The pools and the reference counts agree, so that the assertions of     *)
(* _allocate_block, _deallocate_block and _release_offload_block hold.     *)
THEOREM Pools == Spec => []PoolPartition
<1>1. IndInv => PoolPartition
  BY DEF IndInv
<1> QED BY <1>1, Invariance, PTL

(* block_tiers is truthful and whatever is scheduled is on the GPU: the    *)
(* RuntimeError of ModelRunner.run is never raised.                        *)
THEOREM Placement == Spec => []TagsAgree
<1>1. IndInv => TagsAgree
  BY DEF IndInv
<1> QED BY <1>1, Invariance, PTL

(* The block table has exactly one slot per token at every model run.      *)
THEOREM Coverage == Spec => []TableCoversTokens
<1>1. IndInv => TableCoversTokens
  BY DEF IndInv
<1> QED BY <1>1, Invariance, PTL
=============================================================================
