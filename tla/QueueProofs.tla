----------------------------- MODULE QueueProofs -----------------------------
(***************************************************************************)
(* Theorems about the queues of Scheduler: a request is in the queue its   *)
(* status names, exactly once; the model's batch is what has tokens;       *)
(* swapped requests can always be readmitted; an exception loses only      *)
(* requests of the running batch.                                          *)
(***************************************************************************)
EXTENDS SchedulerProofs, ContentProofs

-----------------------------------------------------------------------------
(***************************************************************************)
(* Queues as sets.  No request is twice in a queue, so removing one is     *)
(* removing it from the set.                                               *)
(***************************************************************************)
LEMMA SetOfSeq ==
  ASSUME NEW S, NEW q \in Seq(S)
  PROVE  /\ ToSet(q) = {q[i] : i \in 1 .. Len(q)} /\ ToSet(q) \subseteq S
         /\ Len(q) \in Nat /\ (ToSet(q) = {} <=> q = << >>)
         /\ ToSet(<< >>) = {} /\ Injective(<< >>)
<1>1. DOMAIN q = 1 .. Len(q) /\ Len(q) \in Nat /\ \A i \in 1 .. Len(q) : q[i] \in S
  OBVIOUS
<1>2. ToSet(q) = {q[i] : i \in 1 .. Len(q)} /\ ToSet(q) \subseteq S
  BY <1>1 DEF ToSet
<1>3. q = << >> <=> Len(q) = 0
  OBVIOUS
<1>4. ToSet(q) = {} <=> q = << >>
  <2>1. Len(q) > 0 => q[1] \in ToSet(q)
    BY <1>1, <1>2
  <2>2. Len(q) = 0 => ToSet(q) = {}
    BY <1>2
  <2> QED BY <1>1, <1>3, <2>1, <2>2
<1>5. ToSet(<< >>) = {} /\ Injective(<< >>)
  BY DEF ToSet, Injective
<1> QED BY <1>1, <1>2, <1>4, <1>5

LEMMA AppendSet ==
  ASSUME NEW S, NEW q \in Seq(S), NEW s \in S
  PROVE  /\ Append(q, s) \in Seq(S)
         /\ ToSet(Append(q, s)) = ToSet(q) \cup {s}
         /\ Injective(q) /\ s \notin ToSet(q) => Injective(Append(q, s))
<1> DEFINE r == Append(q, s)
<1>1. /\ r \in Seq(S) /\ Len(r) = Len(q) + 1 /\ r[Len(q) + 1] = s
      /\ \A i \in 1 .. Len(q) : r[i] = q[i]
  OBVIOUS
<1>2. Len(q) \in Nat /\ DOMAIN q = 1 .. Len(q) /\ DOMAIN r = 1 .. Len(r)
  BY <1>1
<1> HIDE DEF r
<1>3. ToSet(r) = ToSet(q) \cup {s}
  <2>1. ASSUME NEW x \in ToSet(q) PROVE x \in ToSet(r)
    BY <1>1, <1>2 DEF ToSet
  <2>2. s \in ToSet(r)
    BY <1>1, <1>2 DEF ToSet
  <2>3. ASSUME NEW x \in ToSet(r) PROVE x \in ToSet(q) \cup {s}
    <3>1. PICK i \in 1 .. Len(q) + 1 : x = r[i]
      BY <1>1, <1>2 DEF ToSet
    <3>2. CASE i = Len(q) + 1
      BY <1>1, <3>1, <3>2
    <3>3. CASE i \in 1 .. Len(q)
      BY <1>1, <1>2, <3>1, <3>3 DEF ToSet
    <3> QED BY <1>2, <3>1, <3>2, <3>3
  <2> QED BY <2>1, <2>2, <2>3
<1>4. ASSUME Injective(q), s \notin ToSet(q) PROVE Injective(r)
  BY <1>1, <1>2, <1>4 DEF Injective, ToSet
<1> QED BY <1>1, <1>3, <1>4 DEF r

LEMMA ConcatSet ==
  ASSUME NEW S, NEW p \in Seq(S), NEW q \in Seq(S)
  PROVE  /\ p \o q \in Seq(S) /\ Len(p \o q) = Len(p) + Len(q)
         /\ ToSet(p \o q) = ToSet(p) \cup ToSet(q)
         /\ Injective(p) /\ Injective(q) /\ ToSet(p) \cap ToSet(q) = {} => Injective(p \o q)
<1> DEFINE r == p \o q
<1>1. /\ r \in Seq(S) /\ Len(r) = Len(p) + Len(q)
      /\ \A i \in 1 .. Len(p) : r[i] = p[i]
      /\ \A i \in 1 .. Len(q) : r[Len(p) + i] = q[i]
  OBVIOUS
<1>2. /\ Len(p) \in Nat /\ DOMAIN p = 1 .. Len(p) /\ Len(q) \in Nat /\ DOMAIN q = 1 .. Len(q)
      /\ DOMAIN r = 1 .. Len(r)
  BY <1>1
<1> HIDE DEF r
<1>3. ASSUME NEW i \in DOMAIN r
      PROVE  \/ i \in DOMAIN p /\ r[i] = p[i]
             \/ i > Len(p) /\ i - Len(p) \in DOMAIN q /\ r[i] = q[i - Len(p)]
  <2>1. CASE i <= Len(p)
    BY <1>1, <1>2, <2>1
  <2>2. CASE i > Len(p)
    <3>1. i - Len(p) \in 1 .. Len(q) /\ Len(p) + (i - Len(p)) = i
      BY <1>1, <1>2, <2>2
    <3> QED BY <1>1, <1>2, <2>2, <3>1
  <2> QED BY <1>1, <1>2, <2>1, <2>2
<1>4. ToSet(r) = ToSet(p) \cup ToSet(q)
  <2>1. ASSUME NEW x \in ToSet(r) PROVE x \in ToSet(p) \cup ToSet(q)
    BY <1>3 DEF ToSet
  <2>2. ASSUME NEW x \in ToSet(p) PROVE x \in ToSet(r)
    BY <1>1, <1>2 DEF ToSet
  <2>3. ASSUME NEW x \in ToSet(q) PROVE x \in ToSet(r)
    <3>1. PICK i \in 1 .. Len(q) : x = q[i]
      BY <1>2 DEF ToSet
    <3>2. Len(p) + i \in DOMAIN r
      BY <1>1, <1>2
    <3> QED BY <1>1, <3>1, <3>2 DEF ToSet
  <2> QED BY <2>1, <2>2, <2>3
<1>5. ASSUME Injective(p), Injective(q), ToSet(p) \cap ToSet(q) = {} PROVE Injective(r)
  <2> SUFFICES ASSUME NEW i \in DOMAIN r, NEW j \in DOMAIN r, r[i] = r[j] PROVE i = j
    BY DEF Injective
  <2>0. i \in Nat /\ j \in Nat
    BY <1>1, <1>2
  <2>1. CASE i \in DOMAIN p /\ r[i] = p[i] /\ j \in DOMAIN p /\ r[j] = p[j]
    BY <1>5, <2>1 DEF Injective
  <2>2. CASE /\ i > Len(p) /\ i - Len(p) \in DOMAIN q /\ r[i] = q[i - Len(p)]
             /\ j > Len(p) /\ j - Len(p) \in DOMAIN q /\ r[j] = q[j - Len(p)]
    <3>1. i - Len(p) = j - Len(p)
      BY <1>5, <2>2 DEF Injective
    <3> QED BY <1>2, <2>0, <3>1
  <2>3. CASE \/ r[i] \in ToSet(p) /\ r[j] \in ToSet(q)
             \/ r[i] \in ToSet(q) /\ r[j] \in ToSet(p)
    BY <1>5, <2>3
  <2> QED BY <1>3, <2>1, <2>2, <2>3 DEF ToSet
<1> QED BY <1>1, <1>4, <1>5 DEF r

LEMMA SingletonSet ==
  ASSUME NEW S, NEW s \in S
  PROVE  <<s>> \in Seq(S) /\ ToSet(<<s>>) = {s} /\ Injective(<<s>>) /\ Len(<<s>>) = 1
BY DEF ToSet, Injective

LEMMA PushSet ==
  ASSUME NEW S, NEW q \in Seq(S), NEW s \in S
  PROVE  /\ <<s>> \o q \in Seq(S) /\ ToSet(<<s>> \o q) = {s} \cup ToSet(q)
         /\ Injective(q) /\ s \notin ToSet(q) => Injective(<<s>> \o q)
<1> DEFINE p == <<s>>
<1>1. p \in Seq(S) /\ ToSet(p) = {s} /\ Injective(p)
  BY SingletonSet
<1> HIDE DEF p
<1>2. p \o q \in Seq(S) /\ ToSet(p \o q) = {s} \cup ToSet(q)
  BY <1>1, ConcatSet
<1>3. ASSUME Injective(q), s \notin ToSet(q) PROVE Injective(p \o q)
  <2>1. ToSet(p) \cap ToSet(q) = {}
    BY <1>1, <1>3
  <2> QED BY <1>1, <1>3, <2>1, ConcatSet
<1> QED BY <1>2, <1>3 DEF p

LEMMA HeadTailSet ==
  ASSUME NEW S, NEW q \in Seq(S), q # << >>
  PROVE  /\ Head(q) \in S /\ Tail(q) \in Seq(S) /\ Head(q) \in ToSet(q)
         /\ ToSet(q) = {Head(q)} \cup ToSet(Tail(q))
         /\ Injective(q) => Injective(Tail(q)) /\ ToSet(Tail(q)) = ToSet(q) \ {Head(q)}
<1> DEFINE h == Head(q)  t == Tail(q)
<1>1. h \in S /\ t \in Seq(S) /\ q = <<h>> \o t
  OBVIOUS
<1>2. Len(q) = Len(t) + 1 /\ Len(t) \in Nat /\ q[1] = h /\ \A i \in 1 .. Len(t) : t[i] = q[i + 1]
  OBVIOUS
<1>3. DOMAIN q = 1 .. Len(q) /\ DOMAIN t = 1 .. Len(t)
  BY <1>1
<1> HIDE DEF h, t
<1>4. ToSet(q) = {h} \cup ToSet(t)
  BY <1>1, PushSet
<1>5. ASSUME Injective(q) PROVE Injective(t) /\ h \notin ToSet(t)
  <2>1. Injective(t)
    BY <1>2, <1>3, <1>5 DEF Injective
  <2>2. ASSUME NEW i \in 1 .. Len(t) PROVE t[i] # h
    BY <1>2, <1>3, <1>5 DEF Injective
  <2> QED BY <1>3, <2>1, <2>2 DEF ToSet
<1> QED BY <1>1, <1>4, <1>5 DEF h, t

LEMMA WithoutSet ==
  ASSUME NEW S, NEW q \in Seq(S), NEW s, NEW r \in Without(q, s)
  PROVE  /\ s \in ToSet(q) /\ r \in Seq(S) /\ Len(r) = Len(q) - 1
         /\ Injective(q) => Injective(r) /\ ToSet(r) = ToSet(q) \ {s}
<1>1. PICK k \in DOMAIN q : q[k] = s /\ r = SubSeq(q, 1, k - 1) \o SubSeq(q, k + 1, Len(q))
  BY DEF Without, RemoveAt
<1>2. k \in 1 .. Len(q) /\ Len(q) \in Nat /\ DOMAIN q = 1 .. Len(q)
  BY <1>1
<1> DEFINE a == SubSeq(q, 1, k - 1)  b == SubSeq(q, k + 1, Len(q))
<1>3. /\ a \in Seq(S) /\ Len(a) = k - 1 /\ \A i \in 1 .. k - 1 : a[i] = q[i]
      /\ b \in Seq(S) /\ Len(b) = Len(q) - k /\ \A i \in 1 .. Len(q) - k : b[i] = q[k + i]
  BY <1>2
<1>4. DOMAIN a = 1 .. k - 1 /\ DOMAIN b = 1 .. Len(q) - k
  BY <1>3
<1>5. r = a \o b
  BY <1>1
<1> HIDE DEF a, b
<1>6. r \in Seq(S) /\ Len(r) = Len(q) - 1 /\ ToSet(r) = ToSet(a) \cup ToSet(b)
  <2>1. /\ a \o b \in Seq(S) /\ Len(a \o b) = Len(a) + Len(b)
        /\ ToSet(a \o b) = ToSet(a) \cup ToSet(b)
    BY <1>3, ConcatSet
  <2>2. Len(a) + Len(b) = Len(q) - 1
    BY <1>2, <1>3
  <2> QED BY <1>5, <2>1, <2>2
<1>7. ASSUME Injective(q) PROVE Injective(r) /\ ToSet(r) = ToSet(q) \ {s}
  <2>1. Injective(a) /\ Injective(b)
    <3>1. Injective(a)
      BY <1>2, <1>3, <1>4, <1>7 DEF Injective
    <3>2. ASSUME NEW i \in DOMAIN b, NEW j \in DOMAIN b, b[i] = b[j] PROVE i = j
      <4>0. i \in 1 .. Len(q) - k /\ j \in 1 .. Len(q) - k
        BY <1>4
      <4>1. k + i \in DOMAIN q /\ k + j \in DOMAIN q /\ q[k + i] = q[k + j]
        <5>1. k + i \in DOMAIN q /\ k + j \in DOMAIN q
          BY <1>2, <4>0
        <5>2. b[i] = q[k + i] /\ b[j] = q[k + j]
          BY <1>3, <4>0
        <5> QED BY <3>2, <5>1, <5>2
      <4>2. k + i = k + j
        BY <1>7, <4>1 DEF Injective
      <4> QED BY <1>2, <1>4, <4>2
    <3> QED BY <3>1, <3>2 DEF Injective
  <2>2. ASSUME NEW i \in DOMAIN a, NEW j \in DOMAIN b PROVE a[i] # b[j]
    <3>1. i \in DOMAIN q /\ k + j \in DOMAIN q /\ i # k + j
      BY <1>2, <1>4
    <3> QED BY <1>2, <1>3, <1>4, <1>7, <3>1 DEF Injective
  <2>3. ToSet(a) \cap ToSet(b) = {}
    BY <2>2 DEF ToSet
  <2>4. ASSUME NEW x \in ToSet(r) PROVE x \in ToSet(q) \ {s}
    <3>1. CASE x \in ToSet(a)
      <4>1. PICK i \in DOMAIN a : x = a[i]
        BY <3>1 DEF ToSet
      <4>2. i \in DOMAIN q /\ i # k /\ q[i] = x
        BY <1>2, <1>3, <1>4, <4>1
      <4> QED BY <1>1, <1>7, <4>2 DEF ToSet, Injective
    <3>2. CASE x \in ToSet(b)
      <4>1. PICK i \in DOMAIN b : x = b[i]
        BY <3>2 DEF ToSet
      <4>2. k + i \in DOMAIN q /\ k + i # k /\ q[k + i] = x
        BY <1>2, <1>3, <1>4, <4>1
      <4> QED BY <1>1, <1>7, <4>2 DEF ToSet, Injective
    <3> QED BY <1>6, <3>1, <3>2
  <2>5. ASSUME NEW x \in ToSet(q) \ {s} PROVE x \in ToSet(r)
    <3>1. PICK i \in DOMAIN q : x = q[i]
      BY DEF ToSet
    <3>2. i # k
      BY <1>1, <3>1
    <3>3. CASE i < k
      <4>1. i \in DOMAIN a /\ a[i] = x
        BY <1>2, <1>3, <1>4, <3>1, <3>3
      <4> QED BY <1>6, <4>1 DEF ToSet
    <3>4. CASE i > k
      <4>1. i - k \in DOMAIN b /\ b[i - k] = q[k + (i - k)] /\ k + (i - k) = i
        BY <1>2, <1>3, <1>4, <3>1, <3>4
      <4> QED BY <1>6, <3>1, <4>1 DEF ToSet
    <3> QED BY <1>2, <3>2, <3>3, <3>4
  <2> QED BY <1>3, <1>5, <2>1, <2>3, <2>4, <2>5, ConcatSet
<1>8. s \in ToSet(q)
  BY <1>1 DEF ToSet
<1> QED BY <1>6, <1>7, <1>8

(* The length of a queue is the number of requests in it. *)
LEMMA QueueSize ==
  ASSUME NEW S, NEW q \in Seq(S), Injective(q)
  PROVE  IsFiniteSet(ToSet(q)) /\ Cardinality(ToSet(q)) = Len(q)
<1>1. /\ q \in [1 .. Len(q) -> ToSet(q)] /\ Len(q) \in Nat
      /\ \A i, j \in 1 .. Len(q) : q[i] = q[j] => i = j
      /\ \A x \in ToSet(q) : \E i \in 1 .. Len(q) : q[i] = x
  BY DEF ToSet, Injective
<1>2. ExistsBijection(1 .. Len(q), ToSet(q))
  BY <1>1 DEF ExistsBijection, Bijection, Injection, Surjection, IsInjective
<1>3. IsFiniteSet(1 .. Len(q)) /\ Cardinality(1 .. Len(q)) = Len(q)
  <2>1. 1 \in Int /\ Len(q) \in Int
    BY <1>1
  <2>2. Cardinality(1 .. Len(q)) = IF 1 > Len(q) THEN 0 ELSE Len(q) - 1 + 1
    BY <2>1, FS_Interval
  <2>3. IsFiniteSet(1 .. Len(q))
    BY <2>1, FS_Interval
  <2> QED BY <1>1, <2>2, <2>3
<1> QED BY <1>2, <1>3, FS_Bijection

LEMMA ByAgeSet ==
  ASSUME \A s \in Seqs : <<s, s>> \notin older, NEW S \in SUBSET Seqs, NEW q \in ByAge(S)
  PROVE  q \in Seq(Seqs) /\ ToSet(q) \subseteq S /\ Injective(q)
<1>1. IsFiniteSet(S) /\ Cardinality(S) \in Nat
  BY ConstantsAssumption, FS_Subset, FS_CardinalityType
<1>2. /\ q \in [1 .. Cardinality(S) -> S] /\ q \in Seq(Seqs)
      /\ \A i, j \in DOMAIN q : i < j => <<q[i], q[j]>> \in older
  BY ByAgeType DEF ByAge
<1>3. ASSUME NEW i \in DOMAIN q, NEW j \in DOMAIN q, q[i] = q[j] PROVE i = j
  <2>1. i \in Nat /\ j \in Nat /\ q[i] \in Seqs /\ q[j] \in Seqs
    BY <1>1, <1>2
  <2>2. ~ i < j /\ ~ j < i
    BY <1>2, <1>3, <2>1
  <2> QED BY <2>1, <2>2
<1> QED BY <1>2, <1>3 DEF ToSet, Injective

(* The GPU is above every other tier. *)
LEMMA BelowGpu ==
  ASSUME NEW t \in Tier PROVE GPU \notin ToSet(LowerSeq(t))
<1>1. CacheTiers \in Seq(TierName) /\ Len(CacheTiers) \in Nat
  BY ConstantsAssumption
<1>2. PICK i \in DOMAIN CacheTiers : i = CHOOSE j \in DOMAIN CacheTiers : CacheTiers[j] = t
  BY DEF Tier
<1>3. i \in 1 .. Len(CacheTiers)
  BY <1>1, <1>2
<1> DEFINE q == SubSeq(CacheTiers, i + 1, Len(CacheTiers))
<1>4. /\ q \in Seq(TierName) /\ Len(q) = Len(CacheTiers) - i
      /\ \A k \in 1 .. Len(CacheTiers) - i : q[k] = CacheTiers[i + k]
  BY <1>1, <1>3
<1>5. ASSUME NEW k \in DOMAIN q PROVE q[k] # GPU
  <2>1. k \in 1 .. Len(CacheTiers) - i
    BY <1>4
  <2>2. i + k \in DOMAIN CacheTiers /\ 1 \in DOMAIN CacheTiers /\ i + k # 1
    BY <1>1, <1>3, <2>1
  <2>3. CacheTiers[i + k] # CacheTiers[1]
    BY <2>2, ConstantsAssumption
  <2> QED BY <1>4, <2>1, <2>3, ConstantsAssumption
<1>6. LowerSeq(t) = q
  BY <1>2 DEF LowerSeq
<1> HIDE DEF q
<1> QED BY <1>5, <1>6 DEF ToSet

-----------------------------------------------------------------------------
(***************************************************************************)
(* Pending calls.                                                          *)
(***************************************************************************)
LEMMA NoCalls ==
  ASSUME calls' = << >>, victim' = NoSeq, cur' # NoSeq => phase' = "decode"
  PROVE  CallsInv'
BY DEF CallsInv

LEMMA CallsQuiet ==
  ASSUME CallsInv, calls = << >>, calls' = calls, victim' = victim,
         cur' # NoSeq => phase' = "decode"
  PROVE  CallsInv'
<1>1. victim = NoSeq
  BY DEF CallsInv
<1> QED BY <1>1, NoCalls

Pending == DownCall \cup FreeCall

LEMMA CallOkKept ==
  ASSUME NEW f, NEW o, CallOk(f, o), phase' = phase, victim' = victim,
         ToSet(swapped) \subseteq ToSet(swapped)'
  PROVE  CallOk(f, o)'
BY DEF CallOk

(* The top of the stack is replaced by the calls of p, the others stay. *)
LEMMA StackUpdate ==
  ASSUME SchedTypeOK, calls # << >>, NEW p \in Seq(Pending), calls' = p \o Tail(calls),
         \A i \in DOMAIN calls : CallOk(calls[i], i = Len(calls)),
         phase' = phase, victim' = victim, ToSet(swapped) \subseteq ToSet(swapped)',
         \A i \in 1 .. Len(p) : CallOk(p[i], i = Len(p) /\ Outermost)
  PROVE  \A i \in DOMAIN calls' : CallOk(calls[i], i = Len(calls))'
<1> DEFINE t == Tail(calls)  r == p \o t
<1>1. /\ calls \in Seq(Pending) /\ t \in Seq(Pending) /\ Len(calls) = Len(t) + 1
      /\ \A i \in 1 .. Len(t) : t[i] = calls[i + 1]
  BY DEF SchedTypeOK, QueueTypes, CallTypes, Pending
<1>2. Len(t) \in Nat /\ Len(p) \in Nat /\ DOMAIN calls = 1 .. Len(t) + 1
  BY <1>1
<1> HIDE DEF t
<1>3. /\ DOMAIN r = 1 .. Len(p) + Len(t) /\ Len(r) = Len(p) + Len(t)
      /\ \A i \in 1 .. Len(p) : r[i] = p[i]
      /\ \A i \in 1 .. Len(t) : r[Len(p) + i] = t[i]
  BY <1>1
<1> HIDE DEF r
<1>4. calls' = r
  BY DEF r, t
<1> SUFFICES ASSUME NEW i \in 1 .. Len(p) + Len(t)
             PROVE  CallOk(r[i], i = Len(p) + Len(t))
  BY <1>3, <1>4, CallOkKept
<1>5. CASE i <= Len(p)
  <2>1. i \in 1 .. Len(p) /\ r[i] = p[i]
    BY <1>2, <1>3, <1>5
  <2>2. (i = Len(p) + Len(t)) <=> (i = Len(p) /\ Outermost)
    BY <1>1, <1>2, <1>5 DEF Outermost
  <2> DEFINE last == i = Len(p) /\ Outermost
             end == i = Len(p) + Len(t)
  <2>3. CallOk(p[i], last)
    BY <2>1
  <2>4. end = last
    BY <2>2
  <2> QED BY <2>1, <2>3, <2>4
<1>6. CASE i > Len(p)
  <2> DEFINE k == i - Len(p)
  <2>1. k \in 1 .. Len(t) /\ Len(p) + k = i
    BY <1>2, <1>6
  <2> HIDE DEF k
  <2>2. r[i] = calls[k + 1] /\ k + 1 \in DOMAIN calls
    <3>1. r[Len(p) + k] = t[k] /\ t[k] = calls[k + 1]
      BY <1>1, <1>3, <2>1
    <3> QED BY <1>2, <2>1, <3>1
  <2>3. (k + 1 = Len(calls)) = (i = Len(p) + Len(t))
    BY <1>1, <1>2, <2>1
  <2>4. CallOk(calls[k + 1], k + 1 = Len(calls))
    BY <2>2
  <2> QED BY <2>2, <2>3, <2>4
<1> QED BY <1>2, <1>5, <1>6

(* When nothing is pending no transfer goes down and there is no victim. *)
LEMMA PhaseFacts ==
  ASSUME CallsInv, PlanInv
  PROVE  /\ phase \notin {"cool", "gpu", "decode"} => calls = << >>
         /\ calls = << >> => victim = NoSeq
         /\ phase # "decode" => cur = NoSeq
         /\ phase # "swapin" /\ calls = << >> => plan = NoPlan
BY DEF CallsInv, PlanInv

(* Nothing is pending between the loops of schedule(): only preempt has a  *)
(* victim, only the decode loop a request in its hand, and only the loops  *)
(* that place blocks have a transfer in flight.                            *)
HandsFree ==
  /\ phase \in {"idle", "prefill", "run", "post"} => calls = << >>
  /\ calls = << >> => victim = NoSeq
  /\ phase # "decode" => cur = NoSeq
  /\ phase \notin {"swapin", "restore"} /\ calls = << >> => plan = NoPlan

LEMMA HandsOfScheduler == ASSUME CallsInv, PlanInv PROVE HandsFree
BY DEF CallsInv, PlanInv, HandsFree

(* Steps that start with nothing pending and leave it at that, and steps   *)
(* after which nothing is pending any more. *)
LEMMA OtherCalls ==
  ASSUME CallsInv, PlanInv,
         \/ ResetStats \/ StartStep \/ \E s \in Seqs : Arrive(s)
         \/ VisitTier \/ EndTier \/ VisitGpu \/ EndWatermarks
         \/ KeepRunning \/ RecomputeVictim \/ CommitUp \/ FailTransfer \/ SwapIn
         \/ PrefillPhase \/ Model
         \/ TakeRunning \/ DecodeCur \/ DecodeTooLarge \/ EndDecode
  PROVE  CallsInv'
<1> USE PhaseFacts
<1>1. CASE ResetStats \/ StartStep \/ \E s \in Seqs : Arrive(s)
  BY <1>1, CallsQuiet DEF ResetStats, StartStep, Arrive, control
<1>2. CASE VisitTier \/ EndTier \/ VisitGpu \/ EndWatermarks
  BY <1>2, CallsQuiet DEF VisitTier, EndTier, VisitGpu, EndWatermarks
<1>3. CASE KeepRunning \/ RecomputeVictim
  BY <1>3, NoCalls DEF KeepRunning, RecomputeVictim
<1>4. CASE CommitUp \/ FailTransfer
  BY <1>4, CallsQuiet, NoCalls DEF CommitUp, FailTransfer, Raise, control
<1>5. CASE SwapIn
  BY <1>5, CallsQuiet DEF SwapIn, SkipSwapped, MoveUp, Readmit, EndSwapIn, InSwapIn, SwapInDone,
                          schedVars, control
<1>6. CASE PrefillPhase
  BY <1>6, CallsQuiet, NoCalls DEF PrefillPhase, AdmitNew, AdmitMore, PrefillTooLarge, EndPrefill,
                                   Scheduled, Raise
<1>7. CASE Model
  BY <1>7, CallsQuiet DEF Model, RunNext, EndRun, PostNext, EndStep
<1>8. CASE TakeRunning \/ DecodeCur \/ DecodeTooLarge \/ EndDecode
  BY <1>8, CallsQuiet, NoCalls DEF TakeRunning, DecodeCur, DecodeTooLarge, EndDecode, InDecode,
                                   Raise
<1> QED BY <1>1, <1>2, <1>3, <1>4, <1>5, <1>6, <1>7, <1>8

(* The first call of a loop: of the victim, or of a swapped request. *)
LEMMA FirstCall ==
  ASSUME NEW s \in Seqs, NEW t \in Tier, calls' = <<Down(s, t)>>,
         phase' \in {"cool", "gpu", "decode"},
         IF phase' = "cool" THEN victim' = NoSeq /\ cur' = NoSeq /\ s \in ToSet(swapped)'
         ELSE /\ victim' = s
              /\ cur' # NoSeq => phase' = "decode"
              /\ IF phase' = "gpu" THEN running' # << >>
                 ELSE cur' # NoSeq /\ (cur' = s => ~ TooManyBlocks(Size(cur) + 1)')
  PROVE  CallsInv'
<1>1. s # NoSeq /\ GPU \notin ToSet(LowerSeq(t))
  BY ConstantsAssumption, BelowGpu
<1>2. calls' # << >> /\ DOMAIN calls' = {1} /\ Len(calls') = 1 /\ calls'[1] = Down(s, t)
  OBVIOUS
<1>3. CallOk(Down(s, t), TRUE)'
  BY <1>1 DEF CallOk, Down
<1>4. \A i \in DOMAIN calls' : CallOk(calls[i], i = Len(calls))'
  BY <1>2, <1>3
<1> QED BY <1>1, <1>2, <1>4 DEF CallsInv

LEMMA LoopCalls ==
  ASSUME IndInv, SchedTypeOK, CallsInv, TodoInv, PlanInv, HomeInv,
         DemoteNext \/ PreemptForWatermark \/ PreemptOther \/ PreemptSelf
  PROVE  CallsInv'
<1> USE PhaseFacts
<1>1. CASE DemoteNext
  <2>1. Head(todo) \in Seqs /\ Head(todo) \in ToSet(todo) /\ Head(levels) \in Tier
    BY <1>1, HeadTailSet DEF DemoteNext, TierDone, SchedTypeOK, QueueTypes, CallTypes
  <2>2. Head(todo) \in ToSet(swapped)
    BY <1>1, <2>1 DEF DemoteNext, TodoInv
  <2>3. /\ phase' = "cool" /\ victim' = NoSeq /\ cur' = NoSeq /\ swapped' = swapped
        /\ calls' = <<Down(Head(todo), Head(levels))>>
    BY <1>1 DEF DemoteNext, queues
  <2> QED BY <2>1, <2>2, <2>3, FirstCall
<1>2. CASE PreemptForWatermark
  <2> DEFINE s == Head(todo)
  <2>1. CASE ~ Budget(Size(s))
    BY <1>2, <2>1, CallsQuiet DEF PreemptForWatermark
  <2>2. CASE Budget(Size(s))
    <3>1. s \in Seqs /\ Len(running) > 1 /\ running \in Seq(Seqs)
      BY <1>2, HeadTailSet DEF PreemptForWatermark, GpuDone, SchedTypeOK, QueueTypes, CallTypes
    <3>2. running' \in Without(running, s) /\ calls' = <<Down(s, GPU)>> /\ victim' = s
      BY <1>2, <2>2 DEF PreemptForWatermark, RunningWithout
    <3>3. Len(running') = Len(running) - 1
      BY <3>1, <3>2, WithoutSet
    <3>4. running' # << >>
      BY <3>1, <3>3
    <3>5. phase' = "gpu" /\ cur' = NoSeq
      BY <1>2 DEF PreemptForWatermark
    <3> QED BY <3>1, <3>2, <3>4, <3>5, GpuIsTier, FirstCall
  <2> QED BY <2>1, <2>2
<1>3. CASE PreemptOther
  <2>1. /\ phase' = "decode" /\ cur' = cur /\ cur # NoSeq /\ phase = "decode"
        /\ calls' = <<Down(victim', GPU)>>
    BY <1>3 DEF PreemptOther, InDecode
  <2>2. victim' \in ToSet(running)
    BY <1>3 DEF PreemptOther, Oldest
  <2>3. victim' # cur /\ victim' \in Seqs
    <3>1. running \in Seq(Seqs) /\ ToSet(running) \cap Handled = {} /\ cur \in Handled
      BY <2>1 DEF HomeInv, Handled, SchedTypeOK, QueueTypes, CallTypes
    <3> QED BY <2>2, <3>1, SetOfSeq
  <2> QED BY <2>1, <2>3, GpuIsTier, FirstCall
<1>4. CASE PreemptSelf
  <2>1. /\ phase' = "decode" /\ cur' = cur /\ cur \in Seqs /\ cur # NoSeq /\ victim' = cur
        /\ calls' = <<Down(cur, GPU)>>
    BY <1>4 DEF PreemptSelf, InDecode, SchedTypeOK, QueueTypes, CallTypes
  <2>2. ~ TooManyBlocks(Size(cur) + 1)'
    BY <1>4 DEF PreemptSelf, TooManyBlocks, Size, Capacity, vars, placeVars
  <2> QED BY <2>1, <2>2, GpuIsTier, FirstCall
<1> QED BY <1>1, <1>2, <1>3, <1>4

LEMMA StackStep ==
  ASSUME SchedTypeOK, CallsInv, calls # << >>, NEW p \in Seq(Pending), calls' = p \o Tail(calls),
         UNCHANGED <<phase, victim, cur, running, swapped>>,
         cur = victim => table'[cur] = table[cur],
         p # << >> \/ ~ Outermost \/ phase = "cool",
         \A i \in 1 .. Len(p) : CallOk(p[i], i = Len(p) /\ Outermost)
  PROVE  CallsInv'
<1>1. \A i \in DOMAIN calls' : CallOk(calls[i], i = Len(calls))'
  BY StackUpdate DEF CallsInv
<1>2. calls' = << >> => phase = "cool"
  <2>1. Tail(calls) \in Seq(Pending) /\ Len(calls) = Len(Tail(calls)) + 1 /\ Len(calls) \in Nat
    BY DEF SchedTypeOK, QueueTypes, CallTypes, Pending
  <2>2. calls' = << >> => Len(p) = 0 /\ Len(Tail(calls)) = 0
    <3>1. Len(calls') = Len(p) + Len(Tail(calls)) /\ Len(p) \in Nat /\ Len(Tail(calls)) \in Nat
      BY <2>1, ConcatSet
    <3>2. calls' = << >> => Len(calls') = 0
      OBVIOUS
    <3>3. \A m, n \in Nat : m + n = 0 => m = 0 /\ n = 0
      OBVIOUS
    <3> QED BY <3>1, <3>2, <3>3
  <2>3. calls' = << >> => p = << >> /\ Outermost
    BY <2>1, <2>2 DEF Outermost
  <2> QED BY <2>3
<1>3. cur = victim => (TooManyBlocks(Size(cur) + 1)' <=> TooManyBlocks(Size(cur) + 1))
  BY DEF TooManyBlocks, Size, Capacity
<1> QED BY <1>1, <1>2, <1>3 DEF CallsInv

LEMMA TopOk ==
  ASSUME SchedTypeOK, CallsInv, calls # << >>
  PROVE  CallOk(Top, Outermost)
<1>1. 1 \in DOMAIN calls /\ Top = calls[1] /\ (1 = Len(calls)) = Outermost
  BY DEF SchedTypeOK, QueueTypes, CallTypes, Top, Outermost
<1> QED BY <1>1 DEF CallsInv

LEMMA OneCall ==
  ASSUME NEW f, CallOk(f, Outermost)
  PROVE  \A i \in 1 .. Len(<<f>>) : CallOk(<<f>>[i], i = Len(<<f>>) /\ Outermost)
<1> SUFFICES ASSUME NEW i \in 1 .. Len(<<f>>)
             PROVE  CallOk(<<f>>[i], i = Len(<<f>>) /\ Outermost)
  OBVIOUS
<1>1. i = Len(<<f>>) /\ <<f>>[i] = f
  OBVIOUS
<1> QED BY <1>1 DEF CallOk

LEMMA TwoCalls ==
  ASSUME NEW e, NEW f, CallOk(e, FALSE), CallOk(f, Outermost)
  PROVE  \A i \in 1 .. Len(<<e, f>>) : CallOk(<<e, f>>[i], i = Len(<<e, f>>) /\ Outermost)
<1> DEFINE p == <<e, f>>
<1>1. Len(p) = 2 /\ p[1] = e /\ p[2] = f
  OBVIOUS
<1> HIDE DEF p
<1>2. ASSUME NEW i \in 1 .. Len(p) PROVE CallOk(p[i], i = Len(p) /\ Outermost)
  <2>1. i = 1 \/ i = 2
    BY <1>1
  <2> QED BY <1>1, <2>1 DEF CallOk
<1> QED BY <1>2 DEF p

LEMMA TargetCalls ==
  ASSUME TypeOK, SchedTypeOK, CallsInv, TodoInv,
         MakeRoom \/ NextTarget \/ EvictNext \/ EndFree \/ StayThere
  PROVE  CallsInv'
<1>0. calls # << >> /\ CallOk(Top, Outermost)
  BY TopOk DEF MakeRoom, NextTarget, EvictNext, EndFree, StayThere, InDown, InFree
<1>u. UNCHANGED <<phase, victim, cur, running, swapped, table>>
  BY DEF MakeRoom, NextTarget, EvictNext, EndFree, StayThere, queues, vars, placeVars
<1>e. << >> \in Seq(Pending) /\ << >> \o Tail(calls) = Tail(calls)
  BY <1>0 DEF SchedTypeOK, QueueTypes, CallTypes, Pending
<1>1. CASE MakeRoom
  <2> DEFINE s == Top.seq
             t == Head(Top.to)
             f == [Top EXCEPT !.cleared = TRUE]
  <2>1. Top \in DownCall /\ Top.op = "down" /\ Top.to # << >>
    BY <1>1, TopType DEF MakeRoom, InDown
  <2>2. s \in Seqs /\ t \in Tier /\ f \in DownCall
    <3>1. s \in Seqs /\ t \in Tier
      BY <2>1 DEF DownCall
    <3> QED BY <2>1, <3>1, CallUpdates
  <2>3. f.op = "down" /\ f.seq = Top.seq /\ f.to = Top.to
    BY <2>1 DEF DownCall
  <2>4. CallOk(f, Outermost)
    BY <1>0, <2>1, <2>3 DEF CallOk
  <2>5. PICK q \in ByAge(SwappedOn(t)) :
          calls' = (IF FreeCount(t) < Size(s) THEN <<Free(t, Size(s), q)>> ELSE << >>)
                     \o <<f>> \o Tail(calls)
    BY <1>1 DEF MakeRoom
  <2>6. SwappedOn(t) \in SUBSET Seqs /\ SwappedOn(t) \subseteq ToSet(swapped)
    BY ToSetType DEF SwappedOn, SchedTypeOK, QueueTypes, CallTypes
  <2>7. q \in Seq(Seqs) /\ ToSet(q) \subseteq ToSet(swapped)
    BY <2>6, ByAgeSet DEF TodoInv
  <2>8. Free(t, Size(s), q) \in FreeCall
    BY <2>2, <2>7, SizeType DEF Free, FreeCall
  <2>9. CallOk(Free(t, Size(s), q), FALSE)
    BY <2>7 DEF CallOk, Free
  <2> DEFINE e == Free(t, Size(s), q)
  <2>10. e \in Pending /\ f \in Pending /\ CallOk(e, FALSE)
    BY <2>2, <2>8, <2>9 DEF Pending
  <2> HIDE DEF e, f, s, t
  <2>11. CASE calls' = <<e>> \o <<f>> \o Tail(calls)
    <3>1. <<e, f>> \in Seq(Pending) /\ Len(<<e, f>>) = 2 /\ <<e, f>> # << >>
      BY <2>10
    <3>2. calls' = <<e, f>> \o Tail(calls)
      BY <2>11, <2>10, <1>0 DEF SchedTypeOK, QueueTypes, CallTypes, Pending
    <3>3. \A i \in 1 .. Len(<<e, f>>) : CallOk(<<e, f>>[i], i = Len(<<e, f>>) /\ Outermost)
      BY <2>4, <2>10, TwoCalls
    <3> QED BY <1>0, <1>u, <3>1, <3>2, <3>3, StackStep
  <2>12. CASE calls' = << >> \o <<f>> \o Tail(calls)
    <3>1. <<f>> \in Seq(Pending) /\ Len(<<f>>) = 1 /\ <<f>> # << >>
      BY <2>10
    <3>2. calls' = <<f>> \o Tail(calls)
      BY <2>12, <2>10, <1>0 DEF SchedTypeOK, QueueTypes, CallTypes, Pending
    <3>3. \A i \in 1 .. Len(<<f>>) : CallOk(<<f>>[i], i = Len(<<f>>) /\ Outermost)
      BY <2>4, OneCall
    <3> QED BY <1>0, <1>u, <3>1, <3>2, <3>3, StackStep
  <2> QED BY <2>5, <2>11, <2>12 DEF e
<1>2. CASE NextTarget
  <2> DEFINE f == [Top EXCEPT !.to = Tail(@), !.cleared = FALSE]
  <2>1. Top \in DownCall /\ Top.op = "down" /\ Top.to # << >> /\ f \in DownCall
    <3>1. Top \in DownCall /\ Top.op = "down" /\ Top.to # << >>
      BY <1>2, TopType DEF NextTarget, InDown
    <3> QED BY <3>1, CallUpdates
  <2>2. f.op = "down" /\ f.seq = Top.seq /\ f.to = Tail(Top.to)
    BY <2>1 DEF DownCall
  <2>3. ToSet(f.to) \subseteq ToSet(Top.to)
    BY <2>1, <2>2, HeadTailSet DEF DownCall
  <2>4. CallOk(f, Outermost)
    BY <1>0, <2>1, <2>2, <2>3 DEF CallOk
  <2>5. calls' = <<f>> \o Tail(calls)
    BY <1>2 DEF NextTarget
  <2>6. f \in Pending
    BY <2>1 DEF Pending
  <2> HIDE DEF f
  <2>7. <<f>> \in Seq(Pending) /\ Len(<<f>>) = 1 /\ <<f>> # << >>
    BY <2>6
  <2>8. \A i \in 1 .. Len(<<f>>) : CallOk(<<f>>[i], i = Len(<<f>>) /\ Outermost)
    BY <2>4, OneCall
  <2> QED BY <1>0, <1>u, <2>5, <2>7, <2>8, StackStep
<1>3. CASE EvictNext
  <2> DEFINE e == Down(Head(Top.seqs), Top.tier)
             f == [Top EXCEPT !.seqs = Tail(@)]
  <2>1. Top \in FreeCall /\ Top.op = "free" /\ Top.seqs # << >> /\ f \in FreeCall
    <3>1. Top \in FreeCall /\ Top.op = "free" /\ Top.seqs # << >>
      BY <1>3, TopType DEF EvictNext, InFree
    <3> QED BY <3>1, CallUpdates
  <2>2. /\ f.op = "free" /\ f.seqs = Tail(Top.seqs) /\ Top.tier \in Tier
        /\ Top.seqs \in Seq(Seqs)
    BY <2>1 DEF FreeCall
  <2>3. Head(Top.seqs) \in ToSet(Top.seqs) /\ ToSet(f.seqs) \subseteq ToSet(Top.seqs)
    BY <2>1, <2>2, HeadTailSet
  <2>4. ~ Outermost /\ ToSet(Top.seqs) \subseteq ToSet(swapped)
    BY <1>0, <2>1 DEF CallOk
  <2>5. CallOk(f, FALSE)
    BY <2>2, <2>3, <2>4 DEF CallOk
  <2>6. CallOk(e, FALSE)
    BY <2>2, <2>3, <2>4, BelowGpu DEF CallOk, Down
  <2>7. e \in Pending /\ f \in Pending
    BY <2>1, <2>2, DownType DEF Pending
  <2>8. calls' = <<e, f>> \o Tail(calls)
    BY <1>3 DEF EvictNext
  <2> HIDE DEF e, f
  <2>9. <<e, f>> \in Seq(Pending) /\ Len(<<e, f>>) = 2 /\ <<e, f>> # << >>
    BY <2>7
  <2>10. \A i \in 1 .. Len(<<e, f>>) : CallOk(<<e, f>>[i], i = Len(<<e, f>>) /\ Outermost)
    <3>1. CallOk(f, Outermost)
      BY <2>4, <2>5 DEF CallOk
    <3> QED BY <2>6, <3>1, TwoCalls
  <2> QED BY <1>0, <1>u, <2>8, <2>9, <2>10, StackStep
<1>4. CASE EndFree \/ StayThere
  <2>1. calls' = << >> \o Tail(calls)
    BY <1>4, <1>e DEF EndFree, StayThere
  <2>2. ~ Outermost \/ phase = "cool"
    BY <1>0, <1>4 DEF EndFree, StayThere, InFree, CallOk
  <2>3. Len(<< >>) = 0
    OBVIOUS
  <2>4. \A i \in 1 .. Len(<< >>) : CallOk(<< >>[i], i = Len(<< >>) /\ Outermost)
    BY <2>3
  <2> QED BY <1>0, <1>u, <1>e, <2>1, <2>2, <2>4, StackStep
<1> QED BY <1>1, <1>2, <1>3, <1>4

(* An outer call has the victim, an inner one a swapped request. *)
LEMMA PlannedCall ==
  ASSUME IndInv, SchedTypeOK, CallsInv, PlanInv, HomeInv, plan # NoPlan, calls # << >>
  PROVE  /\ plan.seq \in Seqs /\ plan.op = "swap" /\ plan.to # GPU /\ Returnable(plan.seq)
         /\ plan.seq = Top.seq /\ Top.op = "down"
         /\ plan.seq = victim => phase \in {"gpu", "decode"} /\ Outermost
         /\ plan.seq # victim => /\ plan.seq \in ToSet(swapped) /\ status[plan.seq] = "swapped"
                                 /\ ~ Outermost \/ phase = "cool"
<1>1. /\ plan.seq \in Seqs /\ plan.op = "swap" /\ plan.to # GPU /\ Returnable(plan.seq)
      /\ plan.seq = Top.seq /\ Top.op = "down" /\ plan.seq # NoSeq
  BY ConstantsAssumption DEF IndInv, TypeOK, PlanInv
<1>2. phase \in {"cool", "gpu", "decode"} /\ CallOk(Top, Outermost)
  BY TopOk DEF CallsInv
<1>3. phase # "cool" => victim # NoSeq /\ victim \in Handled
  BY <1>2 DEF CallsInv, Handled
<1>4. phase # "cool" => victim \in WithStatus("running")
  BY <1>2, <1>3 DEF HomeInv
<1>5. ToSet(swapped) = WithStatus("swapped")
  BY <1>2 DEF HomeInv
<1>6. phase = "cool" => victim = NoSeq
  BY DEF CallsInv
<1>7. Outermost /\ phase # "cool" => Top.seq = victim
  BY <1>1, <1>2 DEF CallOk
<1>8. ~ (Outermost /\ phase # "cool") => Top.seq \in ToSet(swapped)
  BY <1>1, <1>2 DEF CallOk
<1>9. phase # "cool" => status[victim] = "running"
  BY <1>4 DEF WithStatus
<1>10. \A s \in ToSet(swapped) : status[s] = "swapped"
  BY <1>5 DEF WithStatus
<1> QED BY <1>1, <1>2, <1>6, <1>7, <1>8, <1>9, <1>10

LEMMA TransferCalls ==
  ASSUME IndInv, SchedTypeOK, CallsInv, PlanInv, HomeInv, MoveDown \/ Copy \/ CommitDown
  PROVE  CallsInv'
<1>1. CASE MoveDown \/ Copy
  <2>1. UNCHANGED <<phase, calls, victim, cur, running, swapped, table>>
    BY <1>1 DEF MoveDown, Copy, PrepareSwap, CopyBlocks, schedVars, control, queues, placeVars
  <2> QED BY <2>1 DEF CallsInv, CallOk, TooManyBlocks, Size, Capacity
<1>2. CASE CommitDown
  <2>1. /\ calls # << >> /\ plan # NoPlan /\ calls' = Tail(calls)
        /\ UNCHANGED <<phase, running>>
    BY <1>2 DEF CommitDown, CommitSwap, NoPlan
  <2>2. table' = [table EXCEPT ![plan.seq] = plan.dst]
    BY <1>2 DEF CommitDown, CommitSwap
  <2>e. /\ << >> \in Seq(Pending) /\ << >> \o Tail(calls) = Tail(calls) /\ Len(<< >>) = 0
        /\ calls \in Seq(Pending)
    BY <2>1 DEF SchedTypeOK, QueueTypes, CallTypes, Pending
  <2>3. CASE plan.seq = victim
    <3>1. Outermost /\ phase \in {"gpu", "decode"}
      BY <2>1, <2>3, PlannedCall
    <3>2. calls' = << >>
      BY <2>1, <2>e, <3>1 DEF Outermost
    <3>3. victim' = NoSeq /\ (cur' = NoSeq \/ cur' = cur)
      BY <1>2, <2>3 DEF CommitDown
    <3> QED BY <2>1, <3>2, <3>3, NoCalls DEF CallsInv
  <2>4. CASE plan.seq # victim
    <3>1. UNCHANGED <<swapped, victim, cur>>
      BY <1>2, <2>4 DEF CommitDown
    <3>2. ~ Outermost \/ phase = "cool"
      BY <2>1, <2>4, PlannedCall
    <3>3. cur = victim => table'[cur] = table[cur]
      BY <2>2, <2>4
    <3>4. \A i \in 1 .. Len(<< >>) : CallOk(<< >>[i], i = Len(<< >>) /\ Outermost)
      BY <2>e
    <3> QED BY <2>1, <2>e, <3>1, <3>2, <3>3, <3>4, StackStep
  <2> QED BY <2>3, <2>4
<1> QED BY <1>1, <1>2

(* The pending calls are always those of one loop over target tiers. *)
LEMMA CallsPreserved ==
  ASSUME IndInv, SchedTypeOK, CallsInv, TodoInv, PlanInv, HomeInv, SchedNext
  PROVE  CallsInv'
<1>1. TypeOK
  BY DEF IndInv
<1> QED BY <1>1, OtherCalls, LoopCalls, TargetCalls, TransferCalls
        DEF SchedNext, Engine, Watermarks, Targets, Transfers, DecodePhase

-----------------------------------------------------------------------------
(***************************************************************************)
(* What is moved down fits the GPU: its blocks are its own, and another    *)
(* request that is running keeps a block of the GPU.                       *)
(***************************************************************************)
GpuBlocks == {b \in Block : TierOf[b] = GPU}

LEMMA GpuSize == IsFiniteSet(GpuBlocks) /\ Capacity(GPU) = Cardinality(GpuBlocks) /\ Capacity(GPU) \in Nat
<1>1. IsFiniteSet(GpuBlocks)
  BY ConstantsAssumption, FS_Subset DEF GpuBlocks
<1> QED BY <1>1, FS_CardinalityType DEF Capacity, GpuBlocks

LEMMA HeldSize ==
  ASSUME IndInv, NEW s \in Seqs, AllOn(s, GPU)
  PROVE  Held(s) \subseteq GpuBlocks /\ IsFiniteSet(Held(s)) /\ Cardinality(Held(s)) = Size(s)
<1>1. /\ table[s] \in Seq(Block) /\ Injective(table[s]) /\ DOMAIN tiers[s] = DOMAIN table[s]
      /\ \A i \in DOMAIN table[s] : TierOf[table[s][i]] = tiers[s][i]
  BY SeqTypes, IndInvParts DEF IndInv, RefCountsExact, Shape, TagsOf
<1>2. Held(s) = ToSet(table[s])
  BY DEF Held, ToSet
<1>3. Held(s) \subseteq GpuBlocks
  BY <1>1 DEF Held, AllOn, GpuBlocks
<1> QED BY <1>1, <1>2, <1>3, QueueSize DEF Size

LEMMA RunningOnGpu ==
  ASSUME IndInv, NEW r \in Seqs, status[r] = "running"
  PROVE  AllOn(r, GPU) /\ \E b \in GpuBlocks : b \in Held(r)
<1>1. AllOn(r, GPU) /\ table[r] # << >> /\ table[r] \in Seq(Block)
  BY SeqTypes, IndInvParts DEF Shape, TagsOf, ScheduleOf, Active
<1>2. 1 \in DOMAIN table[r]
  BY <1>1
<1>3. table[r][1] \in Held(r)
  BY <1>2 DEF Held
<1>4. Held(r) \subseteq GpuBlocks
  BY <1>1, HeldSize
<1> QED BY <1>1, <1>3, <1>4

LEMMA OneMoreFits ==
  ASSUME IndInv, NEW s \in Seqs, NEW r \in Seqs, r # s, status[r] = "running",
         AllOn(s, GPU), \A b \in Held(s) : refCount[b] = 1
  PROVE  Size(s) + 1 <= Capacity(GPU)
<1>1. PICK b \in GpuBlocks : b \in Held(r)
  BY RunningOnGpu
<1>2. b \notin Held(s)
  <2> SUFFICES ASSUME b \in Held(s) PROVE FALSE
    OBVIOUS
  <2>1. 1 = Cardinality(Holders(b)) + InFlight(b)
    BY <1>1 DEF IndInv, RefCountsExact, GpuBlocks
  <2>2. {r, s} \subseteq Holders(b)
    BY <1>1 DEF Holders
  <2>3. Cardinality({r, s}) = 2
    <3>1. IsFiniteSet({r}) /\ Cardinality({r}) = 1
      BY FS_Singleton
    <3>2. Cardinality({r} \cup {s}) = 1 + 1
      BY <3>1, FS_AddElement
    <3>3. {r, s} = {r} \cup {s}
      OBVIOUS
    <3> QED BY <3>2, <3>3
  <2>4. Cardinality({r, s}) <= Cardinality(Holders(b))
    BY <2>2, HoldersFinite, FS_Subset
  <2>5. InFlight(b) \in {0, 1} /\ Cardinality(Holders(b)) \in Nat
    BY HoldersFinite DEF InFlight
  <2> QED BY <2>1, <2>3, <2>4, <2>5
<1>3. Held(s) \subseteq GpuBlocks /\ IsFiniteSet(Held(s)) /\ Cardinality(Held(s)) = Size(s)
  BY HeldSize
<1>4. Cardinality(Held(s) \cup {b}) = Size(s) + 1
  BY <1>2, <1>3, FS_AddElement
<1>5. Held(s) \cup {b} \in SUBSET GpuBlocks
  BY <1>3
<1> QED BY <1>4, <1>5, GpuSize, FS_Subset

LEMMA MovableReturns ==
  ASSUME IndInv, SchedTypeOK, CallsInv, PlanInv, HomeInv, PlaceInv,
         calls # << >>, Top.op = "down", MayMove(Top)
  PROVE  Top.seq \in Seqs /\ Returnable(Top.seq)
<1> DEFINE s == Top.seq
<1>1. s \in Seqs /\ Size(s) \in Nat /\ phase \in {"cool", "gpu", "decode"}
  <2>1. Top \in DownCall
    BY TopType
  <2>2. s \in Seqs
    BY <2>1 DEF DownCall
  <2> QED BY <2>2, SizeType DEF IndInv, CallsInv
<1>2. CASE s \in ToSet(swapped)
  BY <1>1, <1>2 DEF PlaceInv
<1>3. CASE s \notin ToSet(swapped)
  <2>1. s = victim /\ victim # NoSeq /\ phase # "cool"
    BY <1>1, <1>3, TopOk, ConstantsAssumption DEF CallOk
  <2>2. /\ s \in Handled /\ ToSet(running) \cup ToSet(TakenOut) \cup Handled = WithStatus("running")
        /\ ToSet(running) \cap Handled = {}
    BY <1>1, <2>1 DEF Handled, HomeInv
  <2>3. status[s] = "running" /\ AllOn(s, GPU)
    BY <1>1, <2>2, RunningOnGpu DEF WithStatus
  <2>4. Size(s) + 1 <= Capacity(GPU)
    <3>1. ASSUME NEW r \in Seqs, r # s, status[r] = "running" PROVE Size(s) + 1 <= Capacity(GPU)
      BY <1>1, <2>3, <3>1, OneMoreFits DEF MayMove, CanSwap
    <3>2. CASE phase = "gpu"
      <4>1. running # << >> /\ running \in Seq(Seqs)
        BY <2>1, <3>2 DEF CallsInv, SchedTypeOK, QueueTypes, CallTypes
      <4>2. Head(running) \in ToSet(running) /\ Head(running) \in Seqs
        BY <4>1, HeadTailSet
      <4>3. Head(running) # s /\ status[Head(running)] = "running"
        BY <2>2, <4>2 DEF WithStatus
      <4> QED BY <3>1, <4>2, <4>3
    <3>3. CASE phase = "decode" /\ cur = s
      <4>1. ~ TooManyBlocks(Size(s) + 1)
        BY <2>1, <3>3 DEF CallsInv
      <4> QED BY <1>1, <4>1, GpuSize DEF TooManyBlocks
    <3>4. CASE phase = "decode" /\ cur # s
      <4>1. cur # NoSeq /\ cur \in Seqs
        BY <2>1, <3>4 DEF CallsInv, SchedTypeOK, QueueTypes, CallTypes
      <4>2. cur \in Handled
        BY <4>1 DEF Handled
      <4>3. status[cur] = "running"
        BY <2>2, <4>2 DEF WithStatus
      <4> QED BY <3>1, <3>4, <4>1, <4>3
    <3> QED BY <1>1, <2>1, <3>2, <3>3, <3>4
  <2>5. ~ TooLarge(s)
    <3>1. Extra(s) \in {0, 1}
      BY DEF Extra
    <3> QED BY <1>1, <2>4, <3>1, GpuSize DEF TooLarge, TooManyBlocks
  <2>6. MaxTransfer # -1 => Size(s) <= MaxTransfer
    BY <1>1, SchedulerAssumption DEF MayMove, Budget, SchedTypeOK, QueueTypes, CallTypes
  <2> QED BY <1>1, <2>5, <2>6 DEF Returnable
<1> QED BY <1>1, <1>2, <1>3

-----------------------------------------------------------------------------
(***************************************************************************)
(* The transfer in flight.                                                 *)
(***************************************************************************)
LEMMA NoPlanNext == ASSUME plan' = NoPlan PROVE PlanInv'
BY DEF PlanInv

(* Every step but a transfer finds and leaves no transfer in flight. *)
LEMMA OtherPlans ==
  ASSUME CallsInv, PlanInv, SchedNext, ~ MoveDown, ~ MoveUp, ~ Copy
  PROVE  plan' = NoPlan
<1> USE PhaseFacts DEF vars, placeVars
<1>1. CASE ResetStats \/ StartStep \/ \E s \in Seqs : Arrive(s)
  BY <1>1, QuietSteps DEF ResetStats, StartStep, Arrive, ClearPrefixCache
<1>2. CASE Watermarks
  BY <1>2 DEF Watermarks, VisitTier, DemoteNext, EndTier, VisitGpu, PreemptForWatermark,
              EndWatermarks
<1>3. CASE Targets
  BY <1>3, QuietSteps DEF Targets, MakeRoom, NextTarget, EvictNext, EndFree, StayThere,
     KeepRunning, RecomputeVictim, InDown, InFree
<1>4. CASE CommitDown \/ CommitUp \/ FailTransfer
  BY <1>4 DEF CommitDown, CommitUp, FailTransfer, CommitSwap, AbortTransfer
<1>5. CASE SwapIn
  BY <1>5, QuietSteps DEF SwapIn, SkipSwapped, Readmit, EndSwapIn, SwapInDone, InSwapIn
<1>6. CASE PrefillPhase
  BY <1>6, QuietSteps DEF PrefillPhase, AdmitNew, AdmitMore, PrefillTooLarge, EndPrefill
<1>7. CASE DecodePhase
  BY <1>7, QuietSteps DEF DecodePhase, TakeRunning, DecodeCur, PreemptOther, PreemptSelf,
     DecodeTooLarge, EndDecode, InDecode
<1>8. CASE Model
  BY <1>8, QuietSteps DEF Model, RunNext, EndRun, PostNext, EndStep
<1> QED BY <1>1, <1>2, <1>3, <1>4, <1>5, <1>6, <1>7, <1>8 DEF SchedNext, Engine, Transfers

LEMMA PlanPreserved ==
  ASSUME IndInv, SchedTypeOK, CallsInv, PlanInv, HomeInv, PlaceInv, SchedNext
  PROVE  PlanInv'
<1> USE DEF vars, placeVars
<1>1. CASE MoveDown
  <2>1. calls # << >> /\ Top.op = "down" /\ MayMove(Top) /\ Top.to # << >> /\ Top \in DownCall
    BY <1>1, TopType DEF MoveDown, InDown
  <2>2. PICK dst \in [DOMAIN table[Top.seq] -> FreeIn(Head(Top.to))] :
          PrepareSwap(Top.seq, Head(Top.to), dst)
    BY <1>1 DEF MoveDown
  <2>3. plan'.op = "swap" /\ plan'.seq = Top.seq /\ plan'.to = Head(Top.to)
    BY <2>2 DEF PrepareSwap, StartPlan
  <2>4. Head(Top.to) # GPU
    <3>1. Head(Top.to) \in ToSet(Top.to)
      BY <2>1, HeadTailSet DEF DownCall
    <3> QED BY <2>1, <3>1, TopOk DEF CallOk
  <2>5. UNCHANGED <<tokens, table, calls, phase, todo, running>>
    BY <1>1, <2>2 DEF MoveDown, PrepareSwap, seqVars, schedVars, queues, control
  <2>6. Returnable(Top.seq)
    BY <2>1, MovableReturns
  <2>7. Returnable(Top.seq)'
    BY <2>5, <2>6 DEF Returnable, TooLarge, TooManyBlocks, Size, Extra, NeedsBlock, Capacity, Top
  <2>8. Top' = Top
    BY <2>5 DEF Top
  <2> QED BY <2>1, <2>3, <2>4, <2>5, <2>7, <2>8 DEF PlanInv
<1>2. CASE MoveUp
  <2>1. PICK dst \in [DOMAIN table[Head(todo)] -> FreeIn(GPU)] :
          PrepareSwap(Head(todo), GPU, dst)
    BY <1>2 DEF MoveUp
  <2>2. plan'.op = "swap" /\ plan'.seq = Head(todo) /\ plan'.to = GPU
    BY <2>1 DEF PrepareSwap, StartPlan
  <2>3. UNCHANGED <<calls, phase, todo, running>> /\ phase = "swapin" /\ todo # << >>
    BY <1>2 DEF MoveUp, InSwapIn, schedVars, queues, control
  <2>4. calls = << >>
    BY <2>3 DEF CallsInv
  <2>5. Len(running) < MaxSeqs
    BY <1>2, SchedulerAssumption DEF MoveUp, Full, SchedTypeOK, QueueTypes, CallTypes
  <2> QED BY <2>2, <2>3, <2>4, <2>5 DEF PlanInv
<1>3. CASE Copy
  <2>1. /\ plan # NoPlan /\ plan'.op = plan.op /\ plan'.seq = plan.seq /\ plan'.to = plan.to
    BY <1>3 DEF Copy, CopyBlocks, IndInv, TypeOK
  <2>2. UNCHANGED <<tokens, table, calls, phase, todo, running>>
    BY <1>3 DEF Copy, CopyBlocks, seqVars, schedVars, queues, control
  <2>3. Returnable(plan.seq) => Returnable(plan.seq)'
    BY <2>1, <2>2 DEF Returnable, TooLarge, TooManyBlocks, Size, Extra, NeedsBlock, Capacity
  <2>4. Top' = Top
    BY <2>2 DEF Top
  <2> QED BY <2>1, <2>2, <2>3, <2>4 DEF PlanInv
<1> QED BY <1>1, <1>2, <1>3, OtherPlans, NoPlanNext

LEMMA NeverRaised ==
  ASSUME CallsInv, PlanInv, SchedNext PROVE phase # "raised"
<1> SUFFICES ASSUME phase = "raised" PROVE FALSE
  OBVIOUS
<1>1. calls = << >> /\ plan = NoPlan /\ phase \notin {"idle", "demote", "cool", "gpu", "swapin",
                                                   "prefill", "decode", "run", "post"}
  BY DEF CallsInv, PlanInv
<1>2. ~ (ResetStats \/ StartStep \/ \E s \in Seqs : Arrive(s))
  BY <1>1 DEF ResetStats, StartStep, Arrive
<1>3. ~ Watermarks /\ ~ Targets
  BY <1>1 DEF Watermarks, VisitTier, DemoteNext, EndTier, VisitGpu, PreemptForWatermark,
     EndWatermarks, Targets, MakeRoom, NextTarget, MoveDown, EvictNext, EndFree, StayThere,
     KeepRunning, RecomputeVictim, InDown, InFree
<1>4. ~ Transfers /\ ~ FailTransfer
  BY <1>1 DEF Transfers, Copy, CopyBlocks, CommitDown, CommitUp, CommitSwap, FailTransfer,
     AbortTransfer, NoPlan
<1>5. ~ SwapIn /\ ~ PrefillPhase
  BY <1>1 DEF SwapIn, SkipSwapped, MoveUp, Readmit, EndSwapIn, SwapInDone, InSwapIn,
     PrefillPhase, AdmitNew, AdmitMore, PrefillTooLarge, EndPrefill
<1>6. ~ DecodePhase /\ ~ Model
  BY <1>1 DEF DecodePhase, TakeRunning, DecodeCur, PreemptOther, PreemptSelf, DecodeTooLarge,
     EndDecode, InDecode, Model, RunNext, EndRun, PostNext, EndStep
<1> QED BY <1>2, <1>3, <1>4, <1>5, <1>6 DEF SchedNext, Engine

-----------------------------------------------------------------------------
(***************************************************************************)
(* The candidates of a loop.                                               *)
(***************************************************************************)
LEMMA ByIdIrreflexive == \A s \in Seqs : <<s, s>> \notin ById
<1> SUFFICES ASSUME NEW s \in Seqs, <<s, s>> \in ById PROVE FALSE
  OBVIOUS
<1>1. PICK i, j \in DOMAIN Order : i < j /\ Order[i] = s /\ Order[j] = s
  BY DEF ById
<1>2. i = j /\ i \in Nat
  BY <1>1, SchedulerAssumption DEF Injective
<1> QED BY <1>1, <1>2

(* Steps after which the candidates are none, the same or fewer. *)
LEMMA TodoNext ==
  ASSUME SchedTypeOK, TodoInv, older' = older,
         phase' \in {"cool", "swapin"} =>
           /\ phase' = phase /\ ToSet(swapped) \subseteq ToSet(swapped)'
           /\ todo' = todo \/ (todo # << >> /\ todo' = Tail(todo))
  PROVE  TodoInv'
<1>1. ASSUME todo # << >>
      PROVE  /\ ToSet(Tail(todo)) \subseteq ToSet(todo)
             /\ Injective(todo) => Injective(Tail(todo))
  BY <1>1, HeadTailSet DEF SchedTypeOK, QueueTypes, CallTypes
<1> QED BY <1>1 DEF TodoInv

(* Candidates are collected. *)
LEMMA TodoCollected ==
  ASSUME TodoInv, SchedTypeOK, NEW S, S \subseteq ToSet(swapped),
         todo' \in ByAge(S), older' = older, swapped' = swapped
  PROVE  TodoInv'
<1>1. S \in SUBSET Seqs
  BY SetOfSeq DEF SchedTypeOK, QueueTypes, CallTypes
<1>2. ToSet(todo') \subseteq ToSet(swapped) /\ Injective(todo')
  BY <1>1, ByAgeSet DEF TodoInv
<1> QED BY <1>2 DEF TodoInv

LEMMA TodoPreserved ==
  ASSUME SchedTypeOK, CallsInv, TodoInv, PlanInv, HomeInv, SchedNext
  PROVE  TodoInv'
<1> USE PhaseFacts DEF queues, step
<1>1. CASE ResetStats \/ StartStep \/ \E s \in Seqs : Arrive(s)
  BY <1>1, TodoNext DEF ResetStats, StartStep, Arrive, control
<1>2. CASE VisitTier
  <2>1. CASE todo' \in ByAge(SwappedOn(Head(levels)))
    <3>1. SwappedOn(Head(levels)) \subseteq ToSet(swapped)
      BY DEF SwappedOn
    <3>2. older' = older /\ swapped' = swapped
      BY <1>2 DEF VisitTier
    <3> QED BY <2>1, <3>1, <3>2, TodoCollected
  <2>2. CASE phase' = "demote" /\ older' = older
    BY <2>2, TodoNext
  <2> QED BY <1>2, <2>1, <2>2 DEF VisitTier
<1>3. CASE DemoteNext
  BY <1>3, TodoNext DEF DemoteNext, TierDone
<1>4. CASE EndTier \/ VisitGpu \/ PreemptForWatermark
  BY <1>4, TodoNext DEF EndTier, VisitGpu, PreemptForWatermark
<1>5. CASE EndWatermarks
  <2>1. CASE todo' \in ByAge(ToSet(swapped))
    <3>1. older' = older /\ swapped' = swapped
      BY <1>5 DEF EndWatermarks
    <3> QED BY <2>1, <3>1, TodoCollected
  <2>2. CASE phase' = "prefill" /\ older' = older
    BY <2>2, TodoNext
  <2> QED BY <1>5, <2>1, <2>2 DEF EndWatermarks
<1>6. CASE Targets
  BY <1>6, TodoNext DEF Targets, MakeRoom, NextTarget, MoveDown, EvictNext, EndFree, StayThere,
     KeepRunning, RecomputeVictim, schedVars, control
<1>7. CASE Copy \/ CommitUp \/ FailTransfer
  BY <1>7, TodoNext DEF Copy, CommitUp, FailTransfer, Raise, schedVars, control
<1>8. CASE CommitDown
  <2>1. UNCHANGED <<older, phase, todo>>
    BY <1>8 DEF CommitDown
  <2>2. CASE swapped' = swapped
    BY <2>1, <2>2, TodoNext
  <2>3. CASE swapped' = Append(swapped, plan.seq) /\ plan.seq \in Seqs
    <3>1. ToSet(swapped) \subseteq ToSet(swapped')
      BY <2>3, AppendSet DEF SchedTypeOK, QueueTypes, CallTypes
    <3> QED BY <2>1, <3>1, TodoNext
  <2>4. plan.seq = victim => plan.seq \in Seqs
    <3>1. calls # << >>
      BY <1>8 DEF CommitDown
    <3>2. phase # "swapin"
      BY <3>1 DEF CallsInv
    <3>3. plan # NoPlan
      BY <1>8 DEF CommitDown, CommitSwap, NoPlan
    <3>4. Top.op = "down" /\ plan.seq = Top.seq
      BY <3>1, <3>3 DEF PlanInv
    <3>5. Top \in DownCall
      BY <3>1, <3>4, TopType
    <3> QED BY <3>4, <3>5 DEF DownCall
  <2> QED BY <1>8, <2>2, <2>3, <2>4 DEF CommitDown
<1>9. CASE SkipSwapped \/ MoveUp \/ EndSwapIn
  <2>1. SkipSwapped => todo # << >>
    BY DEF SkipSwapped
  <2> QED BY <1>9, <2>1, TodoNext DEF SkipSwapped, MoveUp, EndSwapIn, schedVars, control
<1>10. CASE Readmit
  <2>1. /\ todo # << >> /\ todo' = Tail(todo) /\ swapped' \in Without(swapped, Head(todo))
        /\ phase = "swapin" /\ phase' = "swapin" /\ older' = older
    BY <1>10 DEF Readmit, InSwapIn
  <2>2. Injective(todo) /\ ToSet(todo) \subseteq ToSet(swapped) /\ Injective(swapped)
    BY <2>1 DEF TodoInv, HomeInv
  <2>3. ToSet(swapped') = ToSet(swapped) \ {Head(todo)}
    BY <2>1, <2>2, WithoutSet DEF SchedTypeOK, QueueTypes, CallTypes
  <2>4. ToSet(todo') = ToSet(todo) \ {Head(todo)} /\ Injective(todo')
    BY <2>1, <2>2, HeadTailSet DEF SchedTypeOK, QueueTypes, CallTypes
  <2> QED BY <2>1, <2>2, <2>3, <2>4 DEF TodoInv
<1>11. CASE PrefillPhase
  BY <1>11, TodoNext DEF PrefillPhase, AdmitNew, AdmitMore, PrefillTooLarge, EndPrefill,
     Scheduled, Raise
<1>12. CASE DecodePhase
  BY <1>12, TodoNext DEF DecodePhase, TakeRunning, DecodeCur, PreemptOther, PreemptSelf,
     DecodeTooLarge, EndDecode, InDecode, Raise
<1>13. CASE RunNext \/ EndRun \/ PostNext
  BY <1>13, TodoNext DEF RunNext, EndRun, PostNext
<1>14. CASE EndStep
  <2>1. \A s \in Seqs : <<s, s>> \notin older /\ <<s, s>> \notin ById
    BY ByIdIrreflexive DEF TodoInv
  <2>2. ASSUME NEW s \in Seqs, NEW S PROVE <<s, s>> \notin Touched(S)
    BY <2>1 DEF Touched
  <2>3. older' = Touched(ToSet(batch)) /\ phase' = "idle"
    BY <1>14 DEF EndStep
  <2> QED BY <2>2, <2>3 DEF TodoInv
<1> QED BY <1>1, <1>2, <1>3, <1>4, <1>5, <1>6, <1>7, <1>8, <1>9, <1>10, <1>11, <1>12, <1>13, <1>14
        DEF SchedNext, Engine, Watermarks, Transfers, SwapIn, Model

-----------------------------------------------------------------------------
(***************************************************************************)
(* The queue of a request is the one its status names.                     *)
(***************************************************************************)
LEMMA HomeFrame ==
  ASSUME HomeInv, phase # "raised",
         UNCHANGED <<status, waiting, running, swapped, cur, victim>>,
         \/ UNCHANGED <<phase, batch>>
         \/ (phase = "decode" => batch = << >>) /\ (phase' = "decode" => batch' = << >>)
  PROVE  HomeInv'
<1>1. TakenOut' = TakenOut
  BY DEF TakenOut
<1> QED BY <1>1 DEF HomeInv, Handled, WithStatus

LEMMA HomeRaised == ASSUME phase' = "raised" PROVE HomeInv'
BY DEF HomeInv

(* A request's status changes. *)
LEMMA NewStatus ==
  ASSUME TypeOK, NEW s \in Seqs, NEW st, status' = [status EXCEPT ![s] = st], NEW x
  PROVE  WithStatus(x)' = IF x = st THEN WithStatus(x) \cup {s} ELSE WithStatus(x) \ {s}
BY DEF TypeOK, WithStatus

LEMMA SameStatus ==
  ASSUME TypeOK, NEW s \in Seqs, status' = [status EXCEPT ![s] = status[s]]
  PROVE  status' = status
BY DEF TypeOK

(* Outside the decode loop no request is taken out, and without pending    *)
(* calls only the loop holds one.                                          *)
LEMMA InHand ==
  ASSUME QueueTypes, HandsFree
  PROVE  /\ phase # "decode" => TakenOut = << >>
         /\ phase = "decode" => TakenOut = batch
         /\ calls = << >> /\ cur = NoSeq => Handled = {}
         /\ calls = << >> /\ cur # NoSeq => Handled = {cur}
         /\ waiting \in Seq(Seqs) /\ running \in Seq(Seqs) /\ swapped \in Seq(Seqs)
         /\ batch \in Seq(Seqs) /\ todo \in Seq(Seqs)
         /\ ToSet(<< >>) = {} /\ NoSeq \notin Seqs
<1>1. ToSet(<< >>) = {} /\ NoSeq \notin Seqs
  BY ConstantsAssumption DEF ToSet
<1> QED BY <1>1 DEF TakenOut, Handled, HandsFree, QueueTypes

LEMMA HomeArrive ==
  ASSUME TypeOK, QueueTypes, HomeInv, NEW s \in Seqs, Arrive(s)
  PROVE  HomeInv'
<1>1. /\ phase = "idle" /\ phase' = "idle" /\ UNCHANGED <<running, swapped, cur, victim>>
      /\ status[s] = "new" /\ status' = [status EXCEPT ![s] = "waiting"]
      /\ waiting' = Append(waiting, s)
  BY DEF Arrive, Add, control
<1>2. TakenOut' = TakenOut /\ Handled' = Handled
  BY <1>1 DEF TakenOut, Handled
<1>3. s \notin ToSet(waiting)
  BY <1>1 DEF HomeInv, WithStatus
<1>4. ToSet(waiting') = ToSet(waiting) \cup {s} /\ (Injective(waiting) => Injective(waiting'))
  BY <1>1, <1>3, AppendSet DEF SchedTypeOK, QueueTypes, CallTypes
<1>5. /\ WithStatus("waiting")' = WithStatus("waiting") \cup {s}
      /\ WithStatus("running")' = WithStatus("running") \ {s}
      /\ WithStatus("swapped")' = WithStatus("swapped") \ {s}
  BY <1>1, NewStatus
<1>6. s \notin WithStatus("running") /\ s \notin WithStatus("swapped")
  BY <1>1 DEF WithStatus
<1>0. /\ Injective(waiting) /\ ToSet(waiting) = WithStatus("waiting")
      /\ Injective(swapped) /\ ToSet(swapped) = WithStatus("swapped")
  BY <1>1 DEF HomeInv
<1>7. /\ Injective(waiting') /\ ToSet(waiting') = WithStatus("waiting")'
      /\ Injective(swapped') /\ ToSet(swapped') = WithStatus("swapped")'
  BY <1>0, <1>1, <1>4, <1>5, <1>6
<1>8. WithStatus("running")' = WithStatus("running")
  BY <1>5, <1>6
<1>9. /\ Injective(running')
      /\ ToSet(running') \cup ToSet(TakenOut') \cup Handled' = WithStatus("running")'
      /\ ToSet(running') \cap ToSet(TakenOut') = {}
      /\ (ToSet(running') \cup ToSet(TakenOut')) \cap Handled' = {}
  BY <1>1, <1>2, <1>8 DEF HomeInv
<1> QED BY <1>7, <1>9 DEF HomeInv

(* A victim is chosen.                                                     *)
LEMMA HomeVictim ==
  ASSUME QueueTypes, HomeInv, phase \in {"gpu", "decode"}, phase' = phase, victim = NoSeq,
         UNCHANGED <<status, waiting, swapped, cur, batch>>,
         NEW s \in Seqs, victim' = s, running' \in Without(running, s)
  PROVE  HomeInv'
<1>1. s # NoSeq /\ Handled' = Handled \cup {s} /\ TakenOut' = TakenOut
  BY ConstantsAssumption DEF Handled, TakenOut
<1>2. /\ Injective(running) /\ running \in Seq(Seqs)
      /\ ToSet(running) \cup ToSet(TakenOut) \cup Handled = WithStatus("running")
      /\ ToSet(running) \cap ToSet(TakenOut) = {}
      /\ (ToSet(running) \cup ToSet(TakenOut)) \cap Handled = {}
  BY DEF HomeInv, QueueTypes
<1>3. s \in ToSet(running) /\ Injective(running') /\ ToSet(running') = ToSet(running) \ {s}
  BY <1>2, WithoutSet
<1>4. ASSUME NEW x PROVE WithStatus(x)' = WithStatus(x)
  BY DEF WithStatus
<1>5. /\ Injective(waiting') /\ ToSet(waiting') = WithStatus("waiting")'
      /\ Injective(swapped') /\ ToSet(swapped') = WithStatus("swapped")'
  BY <1>4 DEF HomeInv
<1>6. ToSet(running') \cup ToSet(TakenOut') \cup Handled' = WithStatus("running")'
  BY <1>1, <1>2, <1>3, <1>4
<1>7. /\ ToSet(running') \cap ToSet(TakenOut') = {}
      /\ (ToSet(running') \cup ToSet(TakenOut')) \cap Handled' = {}
  BY <1>1, <1>2, <1>3
<1> QED BY <1>3, <1>5, <1>6, <1>7 DEF HomeInv

(* It goes on running, is thrown away or swapped out.                      *)
LEMMA HomePutBack ==
  ASSUME QueueTypes, HomeInv, phase = "gpu", phase' \in {"gpu", "cooled"},
         victim \in Seqs, victim # NoSeq, cur = NoSeq,
         UNCHANGED <<status, waiting, swapped, cur>>,
         victim' = NoSeq, running' = <<victim>> \o running
  PROVE  HomeInv'
<1>2. Handled = {victim} /\ Handled' = {} /\ TakenOut' = TakenOut
  BY DEF Handled, TakenOut
<1>3. victim \notin ToSet(running)
  BY <1>2 DEF HomeInv
<1>4. /\ ToSet(running') = {victim} \cup ToSet(running)
      /\ Injective(running) => Injective(running')
  BY <1>3, PushSet DEF QueueTypes
<1>5. WithStatus("waiting")' = WithStatus("waiting") /\ WithStatus("running")' = WithStatus("running")
      /\ WithStatus("swapped")' = WithStatus("swapped")
  BY DEF WithStatus
<1>6. victim \notin ToSet(TakenOut)
  BY <1>2 DEF HomeInv
<1> QED BY <1>2, <1>4, <1>5, <1>6 DEF HomeInv

LEMMA HomeThrown ==
  ASSUME TypeOK, QueueTypes, HomeInv, phase = "decode", phase' = "decode",
         victim \in Seqs, victim # NoSeq, UNCHANGED <<running, swapped, batch>>,
         victim' = NoSeq, waiting' = <<victim>> \o waiting,
         cur' = (IF cur = victim THEN NoSeq ELSE cur),
         status[victim] = "running", status' = [status EXCEPT ![victim] = "waiting"]
  PROVE  HomeInv'
<1>1. victim \in Handled
  BY DEF Handled
<1>2. Handled' = Handled \ {victim} /\ TakenOut' = TakenOut
  BY DEF Handled, TakenOut
<1>3. /\ victim \notin WithStatus("waiting") /\ victim \notin WithStatus("swapped")
  BY DEF WithStatus
<1>4. /\ ToSet(waiting') = {victim} \cup ToSet(waiting)
      /\ Injective(waiting) => Injective(waiting')
  BY <1>3, PushSet DEF QueueTypes, HomeInv
<1>5. /\ WithStatus("waiting")' = WithStatus("waiting") \cup {victim}
      /\ WithStatus("running")' = WithStatus("running") \ {victim}
      /\ WithStatus("swapped")' = WithStatus("swapped") \ {victim}
  BY NewStatus
<1>6. victim \notin ToSet(running) /\ victim \notin ToSet(TakenOut)
  BY <1>1 DEF HomeInv
<1>7. /\ Injective(waiting) /\ ToSet(waiting) = WithStatus("waiting")
      /\ Injective(swapped) /\ ToSet(swapped) = WithStatus("swapped") /\ Injective(running)
  BY DEF HomeInv
<1>8. /\ Injective(waiting') /\ ToSet(waiting') = WithStatus("waiting")'
      /\ Injective(swapped') /\ Injective(running')
  BY <1>4, <1>5, <1>7
<1>9. ToSet(swapped') = WithStatus("swapped")'
  BY <1>3, <1>5, <1>7
<1>10. ToSet(running') \cup ToSet(TakenOut') \cup Handled' = WithStatus("running")'
  BY <1>2, <1>5, <1>6 DEF HomeInv
<1>11. /\ ToSet(running') \cap ToSet(TakenOut') = {}
       /\ (ToSet(running') \cup ToSet(TakenOut')) \cap Handled' = {}
  BY <1>2 DEF HomeInv
<1> QED BY <1>8, <1>9, <1>10, <1>11 DEF HomeInv

LEMMA HomeSwapped ==
  ASSUME TypeOK, QueueTypes, HomeInv, phase # "raised", victim \in Seqs, victim # NoSeq,
         UNCHANGED <<waiting, running, phase, batch>>,
         swapped' = Append(swapped, victim), victim' = NoSeq,
         cur' = (IF cur = victim THEN NoSeq ELSE cur),
         status' = [status EXCEPT ![victim] = "swapped"]
  PROVE  HomeInv'
<1>1. victim \in Handled
  BY DEF Handled
<1>2. Handled' = Handled \ {victim} /\ TakenOut' = TakenOut
  BY DEF Handled, TakenOut
<1>3. status[victim] = "running"
  BY <1>1 DEF HomeInv, WithStatus
<1>4. /\ victim \notin WithStatus("waiting") /\ victim \notin WithStatus("swapped")
  BY <1>3 DEF WithStatus
<1>5. /\ ToSet(swapped') = {victim} \cup ToSet(swapped)
      /\ Injective(swapped) => Injective(swapped')
  BY <1>4, AppendSet DEF QueueTypes, HomeInv
<1>6. ASSUME NEW x
      PROVE  WithStatus(x)' = IF x = "swapped" THEN WithStatus(x) \cup {victim}
                              ELSE WithStatus(x) \ {victim}
  BY NewStatus
<1>7. /\ WithStatus("waiting")' = WithStatus("waiting") \ {victim}
      /\ WithStatus("running")' = WithStatus("running") \ {victim}
      /\ WithStatus("swapped")' = WithStatus("swapped") \cup {victim}
  BY <1>6
<1>8. victim \notin ToSet(running) /\ victim \notin ToSet(TakenOut)
  BY <1>1 DEF HomeInv
<1>9. /\ Injective(waiting') /\ ToSet(waiting') = WithStatus("waiting")'
      /\ Injective(swapped') /\ ToSet(swapped') = WithStatus("swapped")'
      /\ Injective(running')
  <2>1. /\ Injective(waiting) /\ ToSet(waiting) = WithStatus("waiting")
        /\ Injective(swapped) /\ ToSet(swapped) = WithStatus("swapped")
        /\ Injective(running)
    BY DEF HomeInv
  <2>2. Injective(waiting') /\ Injective(running') /\ Injective(swapped')
    BY <1>5, <2>1
  <2>3. ToSet(waiting') = WithStatus("waiting")'
    BY <1>4, <1>7, <2>1
  <2>4. ToSet(swapped') = WithStatus("swapped")'
    BY <1>5, <1>7, <2>1
  <2> QED BY <2>2, <2>3, <2>4
<1>10. ToSet(running') \cup ToSet(TakenOut') \cup Handled' = WithStatus("running")'
  BY <1>2, <1>7, <1>8 DEF HomeInv
<1>11. /\ ToSet(running') \cap ToSet(TakenOut') = {}
       /\ (ToSet(running') \cup ToSet(TakenOut')) \cap Handled' = {}
  BY <1>2 DEF HomeInv
<1> QED BY <1>9, <1>10, <1>11 DEF HomeInv

LEMMA HomeTargets ==
  ASSUME TypeOK, SchedTypeOK, CallsInv, HomeInv, KeepRunning \/ RecomputeVictim
  PROVE  HomeInv'
<1>1. /\ calls # << >> /\ Top.op = "down" /\ Outermost /\ Top.seq = victim
      /\ victim # NoSeq /\ victim \in Seqs /\ QueueTypes
  <2>1. calls # << >> /\ Top.op = "down" /\ Outermost /\ phase # "cool"
    BY DEF KeepRunning, RecomputeVictim, InDown
  <2>2. CallOk(Top, Outermost) /\ victim # NoSeq
    BY <2>1, TopOk DEF CallsInv
  <2> QED BY <2>1, <2>2 DEF CallOk, SchedTypeOK, QueueTypes
<1>2. CASE KeepRunning
  <2>1. /\ phase = "gpu" /\ phase' = "gpu" /\ UNCHANGED <<status, waiting, swapped, cur>>
        /\ victim' = NoSeq /\ running' = <<victim>> \o running /\ cur = NoSeq
    BY <1>1, <1>2 DEF KeepRunning, vars, seqVars, CallsInv
  <2> QED BY <1>1, <2>1, HomePutBack
<1>3. CASE RecomputeVictim
  <2>1. /\ phase = "decode" /\ phase' = "decode" /\ UNCHANGED <<running, swapped, batch>>
        /\ victim' = NoSeq /\ waiting' = <<victim>> \o waiting
        /\ cur' = (IF cur = victim THEN NoSeq ELSE cur)
        /\ status[victim] = "running" /\ status' = [status EXCEPT ![victim] = "waiting"]
    BY <1>1, <1>3 DEF RecomputeVictim, Recompute
  <2> QED BY <1>1, <2>1, HomeThrown
<1> QED BY <1>2, <1>3

LEMMA HomeCommits ==
  ASSUME IndInv, SchedTypeOK, CallsInv, PlanInv, HomeInv, CommitDown \/ CommitUp
  PROVE  HomeInv'
<1>1. /\ plan # NoPlan /\ plan.seq \in Seqs /\ TypeOK
      /\ status' = [status EXCEPT ![plan.seq] = IF plan.to = GPU THEN @ ELSE "swapped"]
  <2>1. /\ plan # NoPlan
        /\ status' = [status EXCEPT ![plan.seq] = IF plan.to = GPU THEN @ ELSE "swapped"]
    BY DEF CommitDown, CommitUp, CommitSwap, NoPlan, StatusAfterMove
  <2> QED BY <2>1 DEF IndInv, TypeOK
<1>2. CASE CommitUp
  <2>1. plan.to = GPU /\ phase = "swapin"
    BY <1>1, <1>2 DEF CommitUp, PlanInv
  <2>2. status' = status
    BY <1>1, <2>1, SameStatus
  <2>3. UNCHANGED <<waiting, running, swapped, cur, victim, phase, batch>>
    BY <1>2 DEF CommitUp, queues, control
  <2> QED BY <2>1, <2>2, <2>3, HomeFrame
<1>3. CASE CommitDown
  <2>1. calls # << >> /\ plan.to # GPU /\ UNCHANGED <<waiting, running, phase, batch>>
    BY <1>1, <1>3, PlannedCall DEF CommitDown
  <2>2. CASE plan.seq # victim
    <3>0. phase # "raised"
      BY <2>1 DEF CallsInv
    <3>1. status[plan.seq] = "swapped"
      BY <1>1, <2>1, <2>2, PlannedCall
    <3>2. status' = status
      BY <1>1, <2>1, <3>1, SameStatus
    <3>3. UNCHANGED <<swapped, cur, victim>>
      BY <1>3, <2>2 DEF CommitDown
    <3> QED BY <2>1, <3>0, <3>2, <3>3, HomeFrame
  <2>3. CASE plan.seq = victim
    <3>1. /\ victim \in Seqs /\ victim # NoSeq /\ phase # "raised"
      BY <1>1, <2>1, <2>3, ConstantsAssumption DEF CallsInv
    <3>2. /\ swapped' = Append(swapped, victim) /\ victim' = NoSeq
          /\ cur' = (IF cur = victim THEN NoSeq ELSE cur)
          /\ status' = [status EXCEPT ![victim] = "swapped"]
      BY <1>1, <1>3, <2>1, <2>3 DEF CommitDown
    <3> QED BY <1>1, <2>1, <3>1, <3>2, HomeSwapped DEF SchedTypeOK
  <2> QED BY <2>2, <2>3
<1> QED BY <1>2, <1>3

(* When no request is in the hands of the decode loop, the queues tell all. *)
LEMMA HomeQuiet ==
  ASSUME TakenOut' = << >>, Handled' = {},
         /\ Injective(waiting') /\ ToSet(waiting') = WithStatus("waiting")'
         /\ Injective(running') /\ ToSet(running') = WithStatus("running")'
         /\ Injective(swapped') /\ ToSet(swapped') = WithStatus("swapped")'
  PROVE  HomeInv'
<1>1. ToSet(TakenOut') = {}
  BY DEF ToSet
<1> QED BY <1>1 DEF HomeInv

(* A swapped request runs again.                                           *)
LEMMA HomeResumed ==
  ASSUME TypeOK, QueueTypes, HandsFree, HomeInv, calls = << >>,
         phase \in {"swapin", "restore"}, phase' = "swapin", UNCHANGED <<waiting, cur, victim>>,
         NEW s \in Seqs, swapped' \in Without(swapped, s), running' = Append(running, s),
         status[s] = "swapped", status' = [status EXCEPT ![s] = "running"]
  PROVE  HomeInv'
<1>2. Handled' = Handled /\ TakenOut' = << >> /\ TakenOut = << >> /\ Handled = {} /\ ToSet(<< >>) = {}
  BY InHand DEF Handled, TakenOut, HandsFree
<1>3. s \notin WithStatus("running") /\ s \notin WithStatus("waiting")
  BY DEF WithStatus
<1>4. /\ ToSet(running) = WithStatus("running") /\ Injective(running)
      /\ ToSet(waiting) = WithStatus("waiting") /\ Injective(waiting)
      /\ ToSet(swapped) = WithStatus("swapped") /\ Injective(swapped)
  BY <1>2 DEF HomeInv
<1>5. ToSet(running') = ToSet(running) \cup {s} /\ Injective(running')
  BY <1>3, <1>4, AppendSet DEF QueueTypes
<1>6. ToSet(swapped') = ToSet(swapped) \ {s} /\ Injective(swapped')
  BY <1>4, WithoutSet DEF QueueTypes
<1>7. ASSUME NEW x
      PROVE  WithStatus(x)' = IF x = "running" THEN WithStatus(x) \cup {s} ELSE WithStatus(x) \ {s}
  BY NewStatus
<1>8. /\ WithStatus("running")' = WithStatus("running") \cup {s}
      /\ WithStatus("waiting")' = WithStatus("waiting") \ {s}
      /\ WithStatus("swapped")' = WithStatus("swapped") \ {s}
  BY <1>7
<1>9. Injective(waiting') /\ ToSet(waiting') = WithStatus("waiting")'
  BY <1>3, <1>4, <1>8
<1>10. ToSet(running') = WithStatus("running")' /\ ToSet(swapped') = WithStatus("swapped")'
  BY <1>4, <1>5, <1>6, <1>8
<1> QED BY <1>2, <1>5, <1>6, <1>9, <1>10, HomeQuiet

LEMMA HomeReadmit ==
  ASSUME IndInv, SchedTypeOK, CallsInv, PlanInv, HomeInv, Readmit
  PROVE  HomeInv'
<1> DEFINE s == Head(todo)
<1>1. /\ phase = "swapin" /\ phase' = "swapin" /\ todo # << >>
      /\ UNCHANGED <<waiting, cur, victim>> /\ s \in Seqs
      /\ swapped' \in Without(swapped, s) /\ running' = Append(running, s)
      /\ status[s] = "swapped" /\ status' = [status EXCEPT ![s] = "running"]
  BY HeadTailSet DEF Readmit, Resume, InSwapIn, SchedTypeOK, QueueTypes
<1> HIDE DEF s
<1>2. TypeOK /\ QueueTypes /\ HandsFree /\ calls = << >>
  BY <1>1, HandsOfScheduler, PhaseFacts DEF IndInv, SchedTypeOK
<1> QED BY <1>1, <1>2, HomeResumed

(* The chunk completes the prompt, or the request stays first in line. *)
LEMMA Chunked ==
  ASSUME QueueTypes, AdmitNew \/ AdmitMore
  PROVE  LET s == Head(waiting) IN
           /\ s \in Seqs /\ s \in ToSet(waiting) /\ waiting # << >> /\ phase = "prefill"
           /\ phase' = "prefill" /\ UNCHANGED <<swapped, cur, victim, todo, calls>>
           /\ status[s] = "waiting" /\ numSched[s] = 0 /\ ActiveAndScheduled < MaxSeqs
           /\ batch' = Append(batch, s)
           /\ \E c \in Nat \ {0} : numSched' = [numSched EXCEPT ![s] = c]
           /\ \/ /\ status' = [status EXCEPT ![s] = "running"]
                 /\ waiting' = Tail(waiting) /\ running' = Append(running, s)
              \/ /\ status' = [status EXCEPT ![s] = "waiting"]
                 /\ UNCHANGED <<waiting, running>>
<1> DEFINE s == Head(waiting)
<1>1. /\ waiting # << >> /\ phase = "prefill" /\ s \in Seqs /\ s \in ToSet(waiting)
      /\ ActiveAndScheduled < MaxSeqs
  BY HeadTailSet DEF AdmitNew, AdmitMore, SchedTypeOK, QueueTypes, CallTypes, AdmitChunk
<1>2. PICK cached, c : /\ ScheduleChunk(s, cached, c) /\ Scheduled(s, c)
                       /\ status[s] = "waiting" /\ numSched[s] = 0
  BY DEF AdmitNew, AdmitMore, PrefillNew, PrefillMore
<1> HIDE DEF s
<1>3. c \in Nat \ {0} /\ numSched' = [numSched EXCEPT ![s] = c]
  BY <1>2 DEF ScheduleChunk
<1>4. /\ phase' = "prefill" /\ UNCHANGED <<swapped, cur, victim, todo, calls>>
      /\ batch' = Append(batch, s)
      /\ IF status'[s] = "running"
         THEN waiting' = Tail(waiting) /\ running' = Append(running, s)
         ELSE UNCHANGED <<waiting, running>>
  BY <1>1, <1>2 DEF Scheduled, BatchWith
<1>5. /\ status' = [status EXCEPT ![s] = "running"] \/ status' = [status EXCEPT ![s] = "waiting"]
  BY <1>2 DEF ScheduleChunk
<1> QED BY <1>1, <1>2, <1>3, <1>4, <1>5 DEF s

LEMMA HomeAdmit ==
  ASSUME IndInv, QueueTypes, HandsFree, HomeInv, AdmitNew \/ AdmitMore
  PROVE  HomeInv'
<1> DEFINE s == Head(waiting)
<1>1. /\ s \in Seqs /\ waiting # << >> /\ phase = "prefill" /\ phase' = "prefill"
      /\ UNCHANGED <<swapped, cur, victim>> /\ status[s] = "waiting"
      /\ \/ /\ status' = [status EXCEPT ![s] = "running"]
            /\ waiting' = Tail(waiting) /\ running' = Append(running, s)
         \/ /\ status' = [status EXCEPT ![s] = "waiting"]
            /\ UNCHANGED <<waiting, running>>
  BY Chunked
<1>2. Injective(waiting) => Injective(Tail(waiting)) /\ ToSet(Tail(waiting)) = ToSet(waiting) \ {s}
  BY <1>1, HeadTailSet DEF SchedTypeOK, QueueTypes, CallTypes
<1> HIDE DEF s
<1>3. TakenOut' = << >> /\ TakenOut = << >> /\ Handled' = {} /\ Handled = {} /\ ToSet(<< >>) = {}
  BY <1>1, InHand DEF Handled, TakenOut, HandsFree
<1>4. /\ ToSet(running) = WithStatus("running") /\ Injective(running)
      /\ ToSet(waiting) = WithStatus("waiting") /\ Injective(waiting)
      /\ ToSet(swapped) = WithStatus("swapped") /\ Injective(swapped)
  BY <1>1, <1>3 DEF HomeInv
<1>5. CASE status' = [status EXCEPT ![s] = "waiting"] /\ UNCHANGED <<waiting, running>>
  <2>1. status' = status
    BY <1>1, <1>5, SameStatus DEF IndInv
  <2>2. ASSUME NEW x PROVE WithStatus(x)' = WithStatus(x)
    BY <2>1 DEF WithStatus
  <2> QED BY <1>1, <1>3, <1>4, <1>5, <2>2, HomeQuiet
<1>6. CASE /\ status' = [status EXCEPT ![s] = "running"]
           /\ waiting' = Tail(waiting) /\ running' = Append(running, s)
  <2>1. ASSUME NEW x
        PROVE  WithStatus(x)' = IF x = "running" THEN WithStatus(x) \cup {s} ELSE WithStatus(x) \ {s}
    BY <1>1, <1>6, NewStatus DEF IndInv
  <2>2. s \notin WithStatus("running") /\ s \notin WithStatus("swapped")
    BY <1>1 DEF WithStatus
  <2>3. ToSet(running') = ToSet(running) \cup {s} /\ Injective(running')
    BY <1>1, <1>4, <1>6, <2>2, AppendSet DEF SchedTypeOK, QueueTypes, CallTypes
  <2>4. ToSet(waiting') = WithStatus("waiting")' /\ Injective(waiting')
    BY <1>2, <1>4, <1>6, <2>1
  <2>5. ToSet(running') = WithStatus("running")'
    BY <1>4, <2>1, <2>3
  <2>6. ToSet(swapped') = WithStatus("swapped")' /\ Injective(swapped')
    BY <1>1, <1>4, <2>1, <2>2
  <2> QED BY <1>3, <2>3, <2>4, <2>5, <2>6, HomeQuiet
<1> QED BY <1>1, <1>5, <1>6

LEMMA HomeDecode ==
  ASSUME QueueTypes, HandsFree, HomeInv, BatchInv, TakeRunning \/ DecodeCur \/ EndDecode
  PROVE  HomeInv'
<1>1. /\ phase = "decode" /\ calls = << >> /\ UNCHANGED <<waiting, swapped, status>>
      /\ TakenOut = batch /\ victim = NoSeq
  BY DEF TakeRunning, DecodeCur, EndDecode, InDecode, TakenOut, vars, seqVars, queues, Decode,
     HandsFree
<1>t. NoSeq \notin Seqs /\ running \in Seq(Seqs)
  BY ConstantsAssumption DEF SchedTypeOK, QueueTypes, CallTypes
<1>2. /\ Injective(running) /\ Injective(batch) /\ ToSet(running) \cap ToSet(batch) = {}
      /\ ToSet(running) \cup ToSet(batch) \cup Handled = WithStatus("running")
      /\ (ToSet(running) \cup ToSet(batch)) \cap Handled = {}
  BY <1>1 DEF HomeInv, BatchInv
<1>3. ASSUME NEW x PROVE WithStatus(x)' = WithStatus(x)
  BY <1>1 DEF WithStatus
<1>4. /\ Injective(waiting') /\ ToSet(waiting') = WithStatus("waiting")'
      /\ Injective(swapped') /\ ToSet(swapped') = WithStatus("swapped")'
  BY <1>1, <1>3 DEF HomeInv
<1>5. CASE TakeRunning
  <2>1. /\ running # << >> /\ cur = NoSeq /\ cur' = Head(running) /\ running' = Tail(running)
        /\ UNCHANGED <<phase, victim, batch>>
    BY <1>5 DEF TakeRunning
  <2>2. /\ cur' \in Seqs /\ cur' # NoSeq /\ cur' \in ToSet(running) /\ Injective(running')
        /\ ToSet(running') = ToSet(running) \ {cur'}
    <3>1. cur' \in Seqs /\ cur' \in ToSet(running)
      BY <1>t, <2>1, HeadTailSet
    <3>2. Injective(running') /\ ToSet(running') = ToSet(running) \ {cur'}
      BY <1>t, <1>2, <2>1, HeadTailSet
    <3> QED BY <1>t, <3>1, <3>2
  <2>3. Handled' = {cur'} /\ Handled = {} /\ TakenOut' = batch
    BY <1>1, <2>1, <2>2 DEF Handled, TakenOut
  <2>4. ToSet(running') \cup ToSet(batch) \cup {cur'} = WithStatus("running")
    BY <1>2, <2>2, <2>3
  <2>5. cur' \notin ToSet(batch) /\ cur' \notin ToSet(running') /\ ToSet(running') \cap ToSet(batch) = {}
    BY <1>2, <2>2
  <2> QED BY <1>3, <1>4, <2>2, <2>3, <2>4, <2>5 DEF HomeInv
<1>6. CASE DecodeCur
  <2>1. /\ cur # NoSeq /\ cur' = NoSeq /\ batch' = Append(batch, cur) /\ cur \in Seqs
        /\ UNCHANGED <<phase, victim, running>>
    BY <1>6 DEF DecodeCur, SchedTypeOK, QueueTypes, CallTypes, queues
  <2>2. Handled = {cur} /\ Handled' = {} /\ TakenOut' = batch'
    BY <1>1, <2>1 DEF Handled, TakenOut
  <2>3. ToSet(batch') = ToSet(batch) \cup {cur}
    BY <2>1, AppendSet DEF SchedTypeOK, QueueTypes, CallTypes
  <2>4. /\ ToSet(running) \cup ToSet(batch') = WithStatus("running")
        /\ ToSet(running) \cap ToSet(batch') = {}
    BY <1>2, <2>2, <2>3
  <2> QED BY <1>2, <1>3, <1>4, <2>1, <2>2, <2>4 DEF HomeInv
<1>9. CASE EndDecode
  <2>1. cur = NoSeq /\ running' = batch \o running /\ phase' = "run" /\ UNCHANGED <<cur, victim>>
    BY <1>9 DEF EndDecode, GivenBack
  <2>2. Handled = {} /\ Handled' = {} /\ TakenOut' = << >>
    BY <1>1, <2>1 DEF Handled, TakenOut
  <2>3. ToSet(running') = ToSet(batch) \cup ToSet(running) /\ Injective(running')
    BY <1>2, <2>1, ConcatSet DEF SchedTypeOK, QueueTypes, CallTypes
  <2>4. ToSet(running') = WithStatus("running")'
    BY <1>2, <1>3, <2>2, <2>3
  <2> QED BY <1>4, <2>2, <2>3, <2>4, HomeQuiet
<1> QED BY <1>5, <1>6, <1>9

LEMMA HomePost ==
  ASSUME IndInv, QueueTypes, HandsFree, HomeInv, PostNext
  PROVE  HomeInv'
<1> DEFINE s == Head(todo)
<1>1. /\ phase = "post" /\ phase' = "post" /\ todo # << >> /\ s \in Seqs
      /\ UNCHANGED <<waiting, swapped, cur, victim, batch>>
  BY HeadTailSet DEF PostNext, SchedTypeOK, QueueTypes, CallTypes
<1>2. CASE status' = status /\ running' = running
  BY <1>1, <1>2, HomeFrame
<1>3. CASE status' = [status EXCEPT ![s] = "finished"] /\ running' \in Without(running, s)
  <2> HIDE DEF s
  <2>1. TakenOut' = << >> /\ TakenOut = << >> /\ Handled' = {} /\ Handled = {} /\ ToSet(<< >>) = {}
    BY <1>1, InHand DEF Handled, TakenOut, HandsFree
  <2>2. /\ ToSet(running) = WithStatus("running") /\ Injective(running)
        /\ ToSet(waiting) = WithStatus("waiting") /\ Injective(waiting)
        /\ ToSet(swapped) = WithStatus("swapped") /\ Injective(swapped)
    BY <1>1, <2>1 DEF HomeInv
  <2>3. /\ s \in ToSet(running) /\ Injective(running') /\ ToSet(running') = ToSet(running) \ {s}
    BY <1>3, <2>2, WithoutSet DEF SchedTypeOK, QueueTypes, CallTypes
  <2>4. status[s] = "running"
    BY <2>2, <2>3 DEF WithStatus
  <2>5. s \notin WithStatus("waiting") /\ s \notin WithStatus("swapped")
    BY <2>4 DEF WithStatus
  <2>6. ASSUME NEW x
        PROVE  WithStatus(x)' = IF x = "finished" THEN WithStatus(x) \cup {s} ELSE WithStatus(x) \ {s}
    BY <1>1, <1>3, NewStatus DEF IndInv
  <2>7. /\ WithStatus("running")' = WithStatus("running") \ {s}
        /\ WithStatus("waiting")' = WithStatus("waiting") \ {s}
        /\ WithStatus("swapped")' = WithStatus("swapped") \ {s}
    BY <2>6
  <2>8. ToSet(waiting') = WithStatus("waiting")' /\ Injective(waiting')
    BY <1>1, <2>2, <2>5, <2>7
  <2>9. ToSet(swapped') = WithStatus("swapped")' /\ Injective(swapped')
    BY <1>1, <2>2, <2>5, <2>7
  <2>10. ToSet(running') = WithStatus("running")'
    BY <2>2, <2>3, <2>7
  <2> QED BY <2>1, <2>3, <2>8, <2>9, <2>10, HomeQuiet
<1> QED BY <1>2, <1>3 DEF PostNext, PostChunk, PostToken, PostFinish

(* The steps both kinds of placement share.                                *)
LEMMA SharedHome ==
  ASSUME IndInv, QueueTypes, HandsFree, HomeInv, BatchInv, phase # "raised", SharedSteps
  PROVE  HomeInv'
<1> USE DEF vars, seqVars, queues
<1>1. TypeOK
  BY DEF IndInv
<1>2. CASE ResetStats \/ StartStep
  BY <1>2, HomeFrame DEF ResetStats, StartStep, ClearPrefixCache, control
<1>3. CASE \E s \in Seqs : Arrive(s)
  BY <1>1, <1>3, HomeArrive
<1>4. CASE AdmitNew \/ AdmitMore
  BY <1>4, HomeAdmit
<1>5. CASE PrefillTooLarge \/ DecodeTooLarge
  BY <1>5, HomeRaised DEF PrefillTooLarge, DecodeTooLarge, Raise
<1>6. CASE EndPrefill
  BY <1>6, HomeFrame DEF EndPrefill
<1>7. CASE TakeRunning \/ DecodeCur \/ EndDecode
  BY <1>7, HomeDecode
<1>8. CASE RunNext \/ EndRun \/ EndStep
  BY <1>8, HomeFrame DEF RunNext, EndRun, EndStep, Run
<1>9. CASE PostNext
  BY <1>9, HomePost
<1> QED BY <1>2, <1>3, <1>4, <1>5, <1>6, <1>7, <1>8, <1>9 DEF SharedSteps, PrefillPhase, Model

LEMMA HomePreserved ==
  ASSUME IndInv, SchedTypeOK, CallsInv, TodoInv, PlanInv, HomeInv, BatchInv, SchedNext
  PROVE  HomeInv'
<1> USE DEF vars, seqVars, queues
<1>1. TypeOK /\ phase # "raised" /\ QueueTypes /\ HandsFree
  BY NeverRaised, HandsOfScheduler DEF IndInv, SchedTypeOK
<1>2. CASE SharedSteps
  BY <1>1, <1>2, SharedHome
<1>3. CASE VisitTier \/ DemoteNext \/ EndTier \/ VisitGpu
  BY <1>1, <1>3, HomeFrame DEF VisitTier, DemoteNext, EndTier, VisitGpu
<1>4. CASE EndWatermarks
  BY <1>1, <1>4, HomeFrame DEF EndWatermarks
<1>5. CASE PreemptForWatermark
  <2> DEFINE s == Head(todo)
  <2>1. CASE ~ Budget(Size(s))
    BY <1>1, <1>5, <2>1, HomeFrame DEF PreemptForWatermark
  <2>2. CASE Budget(Size(s))
    <3>1. /\ phase = "gpu" /\ phase' = "gpu" /\ s \in Seqs /\ victim = NoSeq
          /\ UNCHANGED <<status, waiting, swapped, cur, batch>>
          /\ victim' = s /\ running' \in Without(running, s)
      BY <1>1, <1>5, <2>2, HeadTailSet
         DEF PreemptForWatermark, QueueTypes, GpuDone, RunningWithout, HandsFree
    <3> HIDE DEF s
    <3> QED BY <1>1, <3>1, HomeVictim
  <2> QED BY <2>1, <2>2
<1>6. CASE PreemptOther
  <2>1. /\ phase = "decode" /\ phase' = "decode" /\ victim = NoSeq /\ victim' \in ToSet(running)
        /\ UNCHANGED <<status, waiting, swapped, cur, batch>>
        /\ running' \in Without(running, victim')
    BY <1>1, <1>6 DEF PreemptOther, InDecode, RunningWithout, Oldest, HandsFree
  <2>2. PICK s \in Seqs : s = victim'
    BY <1>1, <2>1, SetOfSeq DEF QueueTypes
  <2> QED BY <1>1, <2>1, <2>2, HomeVictim
<1>7. CASE PreemptSelf
  <2>1. /\ phase' = "decode" /\ victim' = cur /\ cur # NoSeq /\ calls = << >>
        /\ UNCHANGED <<phase, cur, batch, running, waiting, swapped, status>>
    BY <1>7 DEF PreemptSelf, InDecode
  <2>2. Handled' = Handled /\ TakenOut' = TakenOut
    BY <1>1, <2>1 DEF Handled, TakenOut, HandsFree
  <2> QED BY <2>1, <2>2 DEF HomeInv, WithStatus
<1>8. CASE MakeRoom \/ NextTarget \/ EvictNext \/ EndFree \/ StayThere
  BY <1>1, <1>8, HomeFrame DEF MakeRoom, NextTarget, EvictNext, EndFree, StayThere
<1>9. CASE KeepRunning \/ RecomputeVictim
  BY <1>1, <1>9, HomeTargets
<1>10. CASE MoveDown \/ Copy \/ MoveUp
  BY <1>1, <1>10, HomeFrame DEF MoveDown, Copy, MoveUp, PrepareSwap, CopyBlocks, schedVars, control
<1>11. CASE CommitDown \/ CommitUp
  BY <1>11, HomeCommits
<1>12. CASE FailTransfer
  BY <1>12, HomeRaised DEF FailTransfer, Raise
<1>13. CASE SkipSwapped \/ EndSwapIn
  BY <1>1, <1>13, HomeFrame DEF SkipSwapped, EndSwapIn, SwapInDone, InSwapIn
<1>14. CASE Readmit
  BY <1>14, HomeReadmit
<1> QED BY <1>2, <1>3, <1>4, <1>5, <1>6, <1>7, <1>8, <1>9, <1>10, <1>11, <1>12, <1>13, <1>14
        DEF SchedNext, Engine, Watermarks, Targets, Transfers, SwapIn, DecodePhase, SharedSteps

-----------------------------------------------------------------------------
(***************************************************************************)
(* The batch.                                                              *)
(***************************************************************************)
LEMMA BatchSame ==
  ASSUME BatchInv, phase \notin {"raised", "run", "post"},
         UNCHANGED <<phase, batch, numSched>>,
         phase = "idle" => todo' = todo,
         phase = "swapin" => running' = running
  PROVE  BatchInv'
BY DEF BatchInv, WithTokens

(* Nothing is scheduled yet. *)
LEMMA BatchEmpty ==
  ASSUME BatchInv, phase \notin {"raised", "post"}, batch = << >>,
         UNCHANGED <<batch, numSched>>, phase' \notin {"raised", "idle", "run", "post"}
  PROVE  BatchInv'
<1>1. ToSet(<< >>) = {}
  BY DEF ToSet
<1> QED BY <1>1 DEF BatchInv, WithTokens

(* The loops of schedule() are over. *)
LEMMA BatchRuns ==
  ASSUME IndInv, BatchInv, phase \notin {"raised", "post"}, phase' = "run",
         UNCHANGED <<batch, numSched, status>>
  PROVE  BatchInv'
<1>1. ASSUME NEW s \in ToSet(batch) PROVE status[s] \in {"waiting", "running"}
  <2>1. s \in Seqs /\ numSched[s] > 0
    BY DEF BatchInv, WithTokens
  <2> QED BY <2>1 DEF IndInv, ScheduleSound, ScheduleOf
<1> QED BY <1>1 DEF BatchInv, WithTokens

LEMMA BatchRaised == ASSUME phase' = "raised" PROVE BatchInv'
BY DEF BatchInv

(* A request joins the batch with its first scheduled tokens. *)
LEMMA Joins ==
  ASSUME TypeOK, QueueTypes, BatchInv, phase \notin {"raised", "post"}, NEW s \in Seqs,
         numSched[s] = 0, NEW c \in Nat \ {0}, numSched' = [numSched EXCEPT ![s] = c],
         batch' = Append(batch, s)
  PROVE  /\ ToSet(batch') = ToSet(batch) \cup {s} /\ Injective(batch') /\ WithTokens' = ToSet(batch')
         /\ numSched'[s] = c /\ \A r \in ToSet(batch) : numSched'[r] = numSched[r]
<1>1. WithTokens = ToSet(batch) /\ Injective(batch)
  BY DEF BatchInv
<1>2. s \notin ToSet(batch)
  BY <1>1 DEF WithTokens
<1>3. ToSet(batch') = ToSet(batch) \cup {s} /\ Injective(batch')
  BY <1>1, <1>2, AppendSet DEF SchedTypeOK, QueueTypes, CallTypes
<1>4. WithTokens' = WithTokens \cup {s}
  BY DEF WithTokens, TypeOK
<1>5. numSched'[s] = c /\ \A r \in Seqs \ {s} : numSched'[r] = numSched[r]
  BY DEF TypeOK
<1>6. \A r \in ToSet(batch) : r \in Seqs \ {s}
  BY <1>2, SetOfSeq DEF SchedTypeOK, QueueTypes, CallTypes
<1> QED BY <1>1, <1>3, <1>4, <1>5, <1>6

(* A swapped request runs again, and is in the batch.                      *)
LEMMA BatchResumed ==
  ASSUME IndInv, QueueTypes, BatchInv, phase \notin {"raised", "post"}, phase' = "swapin",
         ToSet(batch) \subseteq ToSet(running),
         NEW s \in Seqs, status[s] = "swapped", numSched' = [numSched EXCEPT ![s] = 1],
         running' = Append(running, s), batch' = Append(batch, s)
  PROVE  BatchInv'
<1>2. numSched[s] = 0
  <2>1. ~ numSched[s] > 0 /\ numSched[s] \in Nat
    BY SeqTypes DEF IndInv, ScheduleSound, ScheduleOf
  <2> QED BY <2>1
<1>3. /\ ToSet(batch') = ToSet(batch) \cup {s} /\ Injective(batch') /\ WithTokens' = ToSet(batch')
  <2>1. PICK c \in Nat \ {0} : c = 1
    OBVIOUS
  <2>2. numSched' = [numSched EXCEPT ![s] = c] /\ TypeOK
    BY <2>1 DEF IndInv
  <2> QED BY <1>2, <2>2, Joins
<1>4. ToSet(running') = ToSet(running) \cup {s}
  BY AppendSet DEF QueueTypes
<1> QED BY <1>3, <1>4 DEF BatchInv

LEMMA BatchReadmit ==
  ASSUME IndInv, SchedTypeOK, BatchInv, Readmit
  PROVE  BatchInv'
<1> DEFINE s == Head(todo)
<1>1. /\ phase = "swapin" /\ phase' = "swapin" /\ s \in Seqs
      /\ status[s] = "swapped" /\ numSched' = [numSched EXCEPT ![s] = 1]
      /\ running' = Append(running, s) /\ batch' = Append(batch, s)
  BY HeadTailSet DEF Readmit, Resume, InSwapIn, SchedTypeOK, QueueTypes
<1> HIDE DEF s
<1>2. ToSet(batch) \subseteq ToSet(running) /\ QueueTypes
  BY <1>1 DEF BatchInv, SchedTypeOK
<1> QED BY <1>1, <1>2, BatchResumed

LEMMA BatchAdmit ==
  ASSUME IndInv, QueueTypes, BatchInv, AdmitNew \/ AdmitMore
  PROVE  BatchInv'
<1> DEFINE s == Head(waiting)
<1>1. /\ phase = "prefill" /\ phase' = "prefill" /\ s \in Seqs /\ numSched[s] = 0
      /\ batch' = Append(batch, s)
      /\ \E c \in Nat \ {0} : numSched' = [numSched EXCEPT ![s] = c]
  BY Chunked
<1> HIDE DEF s
<1>2. PICK c \in Nat \ {0} : numSched' = [numSched EXCEPT ![s] = c]
  BY <1>1
<1>3. Injective(batch') /\ WithTokens' = ToSet(batch')
  BY <1>1, <1>2, Joins DEF IndInv
<1> QED BY <1>1, <1>3 DEF BatchInv

LEMMA BatchDecode ==
  ASSUME IndInv, QueueTypes, BatchInv, DecodeCur
  PROVE  BatchInv'
<1>1. /\ phase = "decode" /\ phase' = "decode" /\ cur \in Seqs /\ numSched[cur] = 0
      /\ batch' = Append(batch, cur) /\ numSched' = [numSched EXCEPT ![cur] = 1]
  BY DEF DecodeCur, Decode, InDecode, SchedTypeOK, QueueTypes, CallTypes
<1>2. /\ ToSet(batch') = ToSet(batch) \cup {cur} /\ Injective(batch') /\ WithTokens' = ToSet(batch')
      /\ numSched'[cur] = 1 /\ \A r \in ToSet(batch) : numSched'[r] = numSched[r]
  <2>1. PICK c \in Nat \ {0} : c = 1
    OBVIOUS
  <2>2. numSched' = [numSched EXCEPT ![cur] = c] /\ phase \notin {"raised", "post"} /\ TypeOK
    BY <1>1, <2>1 DEF IndInv
  <2>3. /\ ToSet(batch') = ToSet(batch) \cup {cur} /\ Injective(batch') /\ WithTokens' = ToSet(batch')
        /\ numSched'[cur] = c /\ \A r \in ToSet(batch) : numSched'[r] = numSched[r]
    BY <1>1, <2>2, Joins
  <2> QED BY <2>1, <2>3
<1>3. \A r \in ToSet(batch) : numSched[r] = 1
  BY <1>1 DEF BatchInv
<1>4. \A r \in ToSet(batch') : numSched'[r] = 1
  BY <1>2, <1>3
<1> QED BY <1>1, <1>2, <1>4 DEF BatchInv

LEMMA BatchPost ==
  ASSUME IndInv, QueueTypes, BatchInv, PostNext
  PROVE  BatchInv'
<1> DEFINE s == Head(todo)
<1>1. /\ phase = "post" /\ phase' = "post" /\ todo # << >> /\ s \in Seqs /\ s \in ToSet(todo)
      /\ todo' = Tail(todo) /\ UNCHANGED batch
      /\ numSched' = [numSched EXCEPT ![s] = 0]
      /\ status' = status \/ status' = [status EXCEPT ![s] = "finished"]
  BY HeadTailSet DEF PostNext, PostChunk, PostToken, PostFinish, SchedTypeOK, QueueTypes, CallTypes
<1>2. Injective(todo) /\ WithTokens = ToSet(todo) /\ Injective(batch)
  BY <1>1 DEF BatchInv
<1>3. Injective(todo') /\ ToSet(todo') = ToSet(todo) \ {s}
  BY <1>1, <1>2, HeadTailSet DEF SchedTypeOK, QueueTypes, CallTypes
<1> HIDE DEF s
<1>4. WithTokens' = WithTokens \ {s}
  BY <1>1 DEF IndInv, TypeOK, WithTokens
<1>5. \A r \in ToSet(batch) : status[r] \in {"waiting", "running", "finished"}
  BY <1>1 DEF BatchInv
<1>6. \A r \in Seqs : status'[r] = status[r] \/ status'[r] = "finished"
  BY <1>1 DEF IndInv, TypeOK
<1>7. \A r \in ToSet(batch') : status'[r] \in {"waiting", "running", "finished"}
  BY <1>1, <1>5, <1>6, SetOfSeq DEF SchedTypeOK, QueueTypes, CallTypes
<1> QED BY <1>1, <1>2, <1>3, <1>4, <1>7 DEF BatchInv

LEMMA SharedBatch ==
  ASSUME IndInv, QueueTypes, BatchInv, phase # "raised", SharedSteps
  PROVE  BatchInv'
<1> USE DEF vars, seqVars, queues
<1>1. ToSet(<< >>) = {} /\ Injective(<< >>)
  BY DEF ToSet, Injective
<1>2. CASE ResetStats \/ \E s \in Seqs : Arrive(s)
  BY <1>2, BatchSame DEF ResetStats, Arrive, ClearPrefixCache, Add, control
<1>3. CASE StartStep
  <2>1. batch = << >> /\ phase = "idle"
    BY <1>3 DEF BatchInv, StartStep
  <2> QED BY <1>3, <2>1, BatchEmpty DEF StartStep
<1>4. CASE PrefillTooLarge \/ DecodeTooLarge
  BY <1>4, BatchRaised DEF PrefillTooLarge, DecodeTooLarge, Raise
<1>5. CASE EndPrefill
  <2>1. /\ phase = "prefill" /\ UNCHANGED <<batch, numSched, status>>
        /\ phase' = "run" \/ (batch = << >> /\ phase' = "decode")
    BY <1>5 DEF EndPrefill
  <2>2. CASE phase' = "run"
    BY <2>1, <2>2, BatchRuns
  <2>3. CASE batch = << >> /\ phase' = "decode"
    BY <2>1, <2>3, BatchEmpty
  <2> QED BY <2>1, <2>2, <2>3
<1>6. CASE AdmitNew \/ AdmitMore
  BY <1>6, BatchAdmit
<1>7. CASE TakeRunning
  BY <1>7, BatchSame DEF TakeRunning, InDecode
<1>8. CASE DecodeCur
  BY <1>8, BatchDecode
<1>9. CASE EndDecode
  BY <1>9, BatchRuns DEF EndDecode, InDecode
<1>10. CASE RunNext
  BY <1>10 DEF RunNext, Run, BatchInv, WithTokens
<1>11. CASE EndRun
  BY <1>11 DEF EndRun, BatchInv, WithTokens
<1>12. CASE PostNext
  BY <1>12, BatchPost
<1>13. CASE EndStep
  BY <1>1, <1>13 DEF EndStep, BatchInv, WithTokens
<1> QED BY <1>2, <1>3, <1>4, <1>5, <1>6, <1>7, <1>8, <1>9, <1>10, <1>11, <1>12, <1>13
        DEF SharedSteps, PrefillPhase, Model

LEMMA BatchPreserved ==
  ASSUME IndInv, SchedTypeOK, CallsInv, PlanInv, BatchInv, SchedNext
  PROVE  BatchInv'
<1> USE DEF vars, seqVars, queues
<1>1. phase # "raised" /\ QueueTypes
  BY NeverRaised DEF SchedTypeOK
<1>2. CASE SharedSteps
  BY <1>1, <1>2, SharedBatch
<1>4. CASE VisitTier \/ EndTier \/ VisitGpu \/ EndWatermarks
  <2>1. batch = << >> /\ phase \in {"demote", "cool", "gpu"}
    BY <1>4 DEF BatchInv, VisitTier, EndTier, VisitGpu, EndWatermarks
  <2>2. UNCHANGED <<batch, numSched>>
    BY <1>4 DEF VisitTier, EndTier, VisitGpu, EndWatermarks
  <2>3. phase' \in {"demote", "cool", "gpu", "swapin", "prefill"}
    BY <1>4, <2>1 DEF VisitTier, EndTier, VisitGpu, EndWatermarks
  <2> QED BY <2>1, <2>2, <2>3, BatchEmpty
<1>5. CASE DemoteNext \/ PreemptForWatermark
  BY <1>5, BatchSame DEF DemoteNext, PreemptForWatermark
<1>6. CASE Targets
  <2>1. /\ phase \in {"cool", "gpu", "decode"} /\ phase' = phase /\ batch' = batch
        /\ numSched' = numSched
    BY <1>6 DEF Targets, MakeRoom, NextTarget, MoveDown, EvictNext, EndFree, StayThere,
       KeepRunning, RecomputeVictim, InDown, InFree, schedVars, control, CallsInv,
       PrepareSwap, Recompute
  <2> QED BY <2>1, BatchSame
<1>7. CASE Copy \/ MoveUp \/ CommitUp
  <2>1. /\ phase \in {"cool", "gpu", "decode", "swapin"} /\ UNCHANGED <<phase, batch, running>>
        /\ numSched' = numSched
    BY <1>7 DEF Copy, MoveUp, CommitUp, CopyBlocks, CommitSwap, PrepareSwap, schedVars, control,
       InSwapIn, PlanInv, CallsInv, NoPlan
  <2> QED BY <2>1, BatchSame
<1>8. CASE CommitDown
  <2>1. /\ phase \in {"cool", "gpu", "decode"} /\ UNCHANGED <<phase, batch>>
        /\ numSched' = numSched
    BY <1>8 DEF CommitDown, CommitSwap, CallsInv
  <2> QED BY <2>1, BatchSame
<1>9. CASE FailTransfer
  BY <1>9, BatchRaised DEF FailTransfer, Raise
<1>10. CASE SkipSwapped
  BY <1>10, BatchSame DEF SkipSwapped, InSwapIn
<1>11. CASE EndSwapIn
  <2>1. /\ phase = "swapin" /\ UNCHANGED <<batch, numSched, status>>
        /\ phase' = "run" \/ (batch = << >> /\ phase' = "prefill")
    BY <1>11 DEF EndSwapIn, SwapInDone, InSwapIn
  <2>2. CASE phase' = "run"
    BY <2>1, <2>2, BatchRuns
  <2>3. CASE batch = << >> /\ phase' = "prefill"
    BY <2>1, <2>3, BatchEmpty
  <2> QED BY <2>1, <2>2, <2>3
<1>12. CASE Readmit
  BY <1>12, BatchReadmit
<1>14. CASE PreemptOther \/ PreemptSelf
  BY <1>14, BatchSame DEF PreemptOther, PreemptSelf, InDecode
<1> QED BY <1>2, <1>4, <1>5, <1>6, <1>7, <1>8, <1>9, <1>10, <1>11, <1>12, <1>14
        DEF SchedNext, Engine, Watermarks, Transfers, SwapIn, DecodePhase, SharedSteps

-----------------------------------------------------------------------------
(***************************************************************************)
(* Swapped requests: each can be readmitted, and only the one about to be  *)
(* readmitted is on the GPU.                                               *)
(***************************************************************************)
LEMMA SameReturn ==
  ASSUME NEW s, tokens'[s] = tokens[s], Len(table'[s]) = Len(table[s]), Returnable(s)
  PROVE  Returnable(s)'
BY DEF Returnable, TooLarge, TooManyBlocks, Size, Extra, NeedsBlock, Capacity

NobodyUp == \A s \in ToSet(swapped) : ~ AtGpu(s)

LEMMA BelowUnlessReadmitted ==
  ASSUME PlaceInv, phase # "raised",
         phase = "swapin" => plan # NoPlan \/ todo = << >> \/ ~ AtGpu(Head(todo))
  PROVE  NobodyUp
BY DEF PlaceInv, NobodyUp

(* Steps that leave the swapped requests alone. *)
LEMMA PlaceKept ==
  ASSUME SchedTypeOK, PlaceInv, phase # "raised", NobodyUp, swapped' = swapped,
         \A s \in ToSet(swapped) : /\ tokens'[s] = tokens[s] /\ table'[s] = table[s]
                                   /\ tableTier'[s] = tableTier[s],
         \A s \in Seqs : tableTier'[s] \in Tier
  PROVE  PlaceInv'
<1>1. ASSUME NEW s \in ToSet(swapped) PROVE Returnable(s)' /\ ~ AtGpu(s)'
  <2>1. Returnable(s) /\ ~ AtGpu(s)
    BY DEF PlaceInv, NobodyUp
  <2>2. tokens'[s] = tokens[s] /\ Len(table'[s]) = Len(table[s]) /\ tableTier'[s] = tableTier[s]
    OBVIOUS
  <2> QED BY <2>1, <2>2, SameReturn DEF AtGpu
<1> QED BY <1>1 DEF PlaceInv

LEMMA PlaceSame ==
  ASSUME SchedTypeOK, PlaceInv, phase # "raised", NobodyUp,
         UNCHANGED <<swapped, tokens, table, tableTier>>
  PROVE  PlaceInv'
<1>1. \A s \in Seqs : tableTier'[s] \in Tier
  BY DEF PlaceInv
<1> QED BY <1>1, PlaceKept

(* Steps on a request that is not swapped. *)
LEMMA PlaceOther ==
  ASSUME IndInv, SchedTypeOK, HomeInv, PlaceInv, phase # "raised", NobodyUp, swapped' = swapped,
         NEW r \in Seqs, status[r] # "swapped",
         NEW k, tokens' = [tokens EXCEPT ![r] = k] \/ tokens' = tokens,
         NEW b, table' = [table EXCEPT ![r] = b] \/ table' = table,
         tableTier' = tableTier \/ tableTier' = [tableTier EXCEPT ![r] = GPU]
  PROVE  PlaceInv'
<1>1. /\ tokens \in [Seqs -> Seq(Token)] /\ table \in [Seqs -> Seq(Block)]
      /\ tableTier \in [Seqs -> Tier \cup {"none"}] /\ GPU \in Tier
      /\ \A s \in Seqs : tableTier[s] \in Tier
  BY GpuIsTier DEF IndInv, TypeOK, PlaceInv
<1>2. ASSUME NEW s \in ToSet(swapped) PROVE s \in Seqs /\ s # r
  BY DEF HomeInv, WithStatus
<1>3. \A s \in Seqs : tableTier'[s] \in Tier
  BY <1>1
<1>4. ASSUME NEW s \in Seqs, s # r
      PROVE  /\ tokens'[s] = tokens[s] /\ table'[s] = table[s] /\ tableTier'[s] = tableTier[s]
  BY <1>1, <1>4
<1>5. \A s \in ToSet(swapped) : /\ tokens'[s] = tokens[s] /\ table'[s] = table[s]
                                /\ tableTier'[s] = tableTier[s]
  BY <1>2, <1>4
<1> QED BY <1>3, <1>5, PlaceKept

LEMMA PlaceRaised == ASSUME phase' = "raised" PROVE PlaceInv'
BY DEF PlaceInv

(* commit_swap gives the request as many blocks as it had. *)
LEMMA SwapKeepsSize ==
  ASSUME IndInv, CommitSwap
  PROVE  /\ plan # NoPlan /\ plan.seq \in Seqs /\ plan.to \in Tier
         /\ \A s \in Seqs : Len(table'[s]) = Len(table[s])
         /\ tableTier' = [tableTier EXCEPT ![plan.seq] = plan.to]
         /\ tokens' = tokens /\ tableTier \in [Seqs -> Tier \cup {"none"}]
<1>1. plan # NoPlan /\ plan.op = "swap"
  BY DEF CommitSwap, NoPlan
<1>2. /\ plan.seq \in Seqs /\ plan.to \in Tier /\ plan.dst \in [DOMAIN plan.dst -> Block]
      /\ DOMAIN plan.dst = DOMAIN table[plan.seq]
      /\ table \in [Seqs -> Seq(Block)]
  BY <1>1 DEF IndInv, TypeOK, PlanSound
<1>3. table' = [table EXCEPT ![plan.seq] = plan.dst]
  BY DEF CommitSwap
<1> DEFINE old == table[plan.seq]  new == plan.dst
<1>4. old \in Seq(Block) /\ DOMAIN new = DOMAIN old /\ new \in [DOMAIN new -> Block]
  BY <1>2
<1> HIDE DEF old, new
<1>5. new \in [1 .. Len(old) -> Block] /\ Len(old) \in Nat
  BY <1>4
<1>6. Len(new) = Len(old)
  BY <1>5
<1>7. \A s \in Seqs : Len(table'[s]) = Len(table[s])
  BY <1>2, <1>3, <1>6 DEF old, new
<1> QED BY <1>1, <1>2, <1>7 DEF CommitSwap, IndInv, TypeOK

LEMMA PlaceCommits ==
  ASSUME IndInv, SchedTypeOK, CallsInv, PlanInv, HomeInv, PlaceInv, CommitDown \/ CommitUp
  PROVE  PlaceInv'
<1>1. /\ plan # NoPlan /\ plan.seq \in Seqs /\ plan.to \in Tier /\ plan' = NoPlan
      /\ \A s \in Seqs : Len(table'[s]) = Len(table[s])
      /\ tableTier' = [tableTier EXCEPT ![plan.seq] = plan.to]
      /\ tokens' = tokens /\ tableTier \in [Seqs -> Tier \cup {"none"}]
  <2>1. CommitSwap
    BY DEF CommitDown, CommitUp
  <2> QED BY <2>1, SwapKeepsSize DEF CommitSwap
<1>2. phase # "raised" /\ NobodyUp
  BY <1>1, BelowUnlessReadmitted DEF PlanInv, CallsInv
<1>3. /\ \A s \in Seqs : tableTier[s] \in Tier
      /\ \A s \in ToSet(swapped) : s \in Seqs /\ Returnable(s) /\ tableTier[s] # GPU
  BY <1>2, SetOfSeq DEF PlaceInv, NobodyUp, AtGpu, SchedTypeOK, QueueTypes, CallTypes
<1>4. \A s \in Seqs : tableTier'[s] = IF s = plan.seq THEN plan.to ELSE tableTier[s]
  BY <1>1
<1>5. \A s \in Seqs : tableTier'[s] \in Tier
  BY <1>1, <1>3, <1>4
<1>6. ASSUME NEW s \in Seqs, Returnable(s) PROVE Returnable(s)'
  BY <1>1, <1>6, SameReturn
<1>7. CASE CommitDown
  <2>1. plan.to # GPU /\ Returnable(plan.seq)
    BY <1>1, <1>7, PlannedCall DEF CommitDown
  <2>2. ToSet(swapped') \subseteq ToSet(swapped) \cup {plan.seq}
    <3>1. swapped' = swapped \/ swapped' = Append(swapped, plan.seq)
      BY <1>7 DEF CommitDown
    <3>2. ToSet(Append(swapped, plan.seq)) = ToSet(swapped) \cup {plan.seq}
      BY <1>1, AppendSet DEF SchedTypeOK, QueueTypes, CallTypes
    <3> QED BY <3>1, <3>2
  <2>3. ASSUME NEW s \in ToSet(swapped') PROVE Returnable(s)' /\ tableTier'[s] # GPU
    BY <1>1, <1>3, <1>4, <1>6, <2>1, <2>2
  <2> QED BY <1>5, <2>3 DEF PlaceInv, AtGpu
<1>8. CASE CommitUp
  <2>1. /\ phase' = "swapin" /\ Len(running') < MaxSeqs /\ todo' # << >> /\ plan.seq = Head(todo')
        /\ swapped' = swapped
    BY <1>1, <1>8 DEF CommitUp, PlanInv, queues, control
  <2>2. ASSUME NEW s \in ToSet(swapped')
        PROVE  Returnable(s)' /\ (tableTier'[s] = GPU => s = plan.seq)
    BY <1>3, <1>4, <1>6, <2>1
  <2> QED BY <1>1, <1>5, <2>1, <2>2 DEF PlaceInv, AtGpu
<1> QED BY <1>7, <1>8

LEMMA PlaceReadmit ==
  ASSUME IndInv, SchedTypeOK, HomeInv, PlaceInv, Readmit
  PROVE  PlaceInv'
<1> DEFINE r == Head(todo)
<1>1. /\ phase = "swapin" /\ r \in Seqs /\ swapped' \in Without(swapped, r)
      /\ UNCHANGED <<tokens, tableTier>>
  BY HeadTailSet DEF Readmit, Resume, InSwapIn, SchedTypeOK, QueueTypes, CallTypes
<1>2. PICK b \in Block : table' = [table EXCEPT ![r] = Append(@, b)] \/ table' = table
  BY DEF Readmit, Resume, MayAppend
<1>3. \A s \in ToSet(swapped) : AtGpu(s) => s = r
  BY <1>1 DEF PlaceInv
<1> HIDE DEF r
<1>4. ToSet(swapped') = ToSet(swapped) \ {r}
  BY <1>1, WithoutSet DEF SchedTypeOK, QueueTypes, CallTypes, HomeInv
<1>5. ASSUME NEW s \in ToSet(swapped') PROVE Returnable(s)' /\ ~ AtGpu(s)'
  <2>1. s \in ToSet(swapped) /\ s # r /\ s \in Seqs
    BY <1>4, SetOfSeq DEF SchedTypeOK, QueueTypes, CallTypes
  <2>2. Returnable(s) /\ ~ AtGpu(s)
    BY <1>1, <1>3, <2>1 DEF PlaceInv
  <2>3. table'[s] = table[s] /\ tokens'[s] = tokens[s]
    BY <1>1, <1>2, <2>1 DEF IndInv, TypeOK
  <2> QED BY <1>1, <2>2, <2>3, SameReturn DEF AtGpu
<1>6. \A s \in Seqs : tableTier'[s] \in Tier
  BY <1>1 DEF PlaceInv
<1> QED BY <1>5, <1>6 DEF PlaceInv

(* A step of the manager on a request that is being run or starts to run. *)
LEMMA PlaceWork ==
  ASSUME IndInv, SchedTypeOK, HomeInv, PlaceInv, phase # "raised", NobodyUp, swapped' = swapped,
         NEW r \in Seqs,
         \/ Add(r) \/ Run(r) \/ Recompute(r) \/ PostChunk(r)
         \/ \E t \in Token : PostToken(r, t) \/ PostFinish(r, t)
         \/ \E b \in Block : Decode(r, b)
         \/ \E n, fresh, c : PrefillNew(r, n, fresh, c)
         \/ \E c : PrefillMore(r, c)
  PROVE  PlaceInv'
<1>1. r \in computed => status[r] # "swapped"
  BY DEF IndInv, ScheduleSound, ScheduleOf
<1>2. CASE Add(r) \/ Run(r) \/ \E c : PrefillMore(r, c)
  BY <1>2, PlaceSame DEF Add, Run, PrefillMore, placeVars
<1>3. CASE PostChunk(r)
  BY <1>3, PlaceSame DEF PostChunk, placeVars
<1>4. CASE Recompute(r)
  <2>1. /\ status[r] = "running" /\ tokens' = tokens
        /\ table' = [table EXCEPT ![r] = << >>] /\ tableTier' = [tableTier EXCEPT ![r] = GPU]
    BY <1>4 DEF Recompute, Deallocate
  <2> QED BY <2>1, PlaceOther
<1>5. CASE \E t \in Token : PostToken(r, t) \/ PostFinish(r, t)
  <2>1. PICK t \in Token : PostToken(r, t) \/ PostFinish(r, t)
    BY <1>5
  <2>2. /\ status[r] # "swapped" /\ tokens' = [tokens EXCEPT ![r] = Append(@, t)]
        /\ table' = [table EXCEPT ![r] = << >>] \/ table' = table
        /\ tableTier' = tableTier \/ tableTier' = [tableTier EXCEPT ![r] = GPU]
    BY <1>1, <2>1 DEF PostToken, PostFinish, Deallocate, placeVars
  <2> QED BY <2>2, PlaceOther
<1>6. CASE \E b \in Block : Decode(r, b)
  <2>1. PICK b \in Block : Decode(r, b)
    BY <1>6
  <2>2. /\ status[r] = "running" /\ tokens' = tokens /\ tableTier' = tableTier
        /\ table' = [table EXCEPT ![r] = Append(@, b)] \/ table' = table
    BY <2>1 DEF Decode, MayAppend
  <2> QED BY <2>2, PlaceOther
<1>7. CASE \E n, fresh, c : PrefillNew(r, n, fresh, c)
  <2>1. PICK n, fresh, c : PrefillNew(r, n, fresh, c)
    BY <1>7
  <2>2. /\ status[r] = "waiting" /\ tokens' = tokens /\ tableTier' = tableTier
        /\ table' = [table EXCEPT ![r] =
             [i \in 1 .. NumBlocks(r) |-> IF i <= n THEN CachedBlock(r, i) ELSE fresh[i]]]
    BY <2>1 DEF PrefillNew
  <2> DEFINE new == [i \in 1 .. NumBlocks(r) |-> IF i <= n THEN CachedBlock(r, i) ELSE fresh[i]]
  <2>3. table' = [table EXCEPT ![r] = new]
    BY <2>2
  <2> HIDE DEF new
  <2> QED BY <2>2, <2>3, PlaceOther
<1> QED BY <1>2, <1>3, <1>4, <1>5, <1>6, <1>7

LEMMA PlacePreserved ==
  ASSUME IndInv, SchedTypeOK, CallsInv, TodoInv, PlanInv, HomeInv, PlaceInv, SchedNext
  PROVE  PlaceInv'
<1> USE DEF vars, seqVars, placeVars, queues
<1>1. phase # "raised"
  BY NeverRaised
<1>2. ASSUME ~ Readmit PROVE NobodyUp
  <2>1. phase = "swapin" /\ plan = NoPlan /\ todo # << >> => ~ AtGpu(Head(todo))
    <3>1. CASE SwapIn
      BY <1>2, <3>1 DEF SwapIn, SkipSwapped, MoveUp, EndSwapIn, SwapInDone
    <3>2. CASE CommitUp \/ CommitDown \/ Copy \/ FailTransfer
      BY <3>2 DEF CommitUp, CommitDown, Copy, FailTransfer, CommitSwap, CopyBlocks, AbortTransfer,
         NoPlan
    <3>3. CASE Targets
      BY <3>3, PhaseFacts DEF Targets, MakeRoom, NextTarget, MoveDown, EvictNext, EndFree,
         StayThere, KeepRunning, RecomputeVictim, InDown, InFree
    <3>4. CASE Watermarks \/ ResetStats \/ StartStep \/ \E s \in Seqs : Arrive(s)
      BY <3>4 DEF Watermarks, VisitTier, DemoteNext, EndTier, VisitGpu, PreemptForWatermark,
         EndWatermarks, ResetStats, StartStep, Arrive
    <3>5. CASE PrefillPhase \/ DecodePhase \/ Model
      BY <3>5 DEF PrefillPhase, AdmitNew, AdmitMore, PrefillTooLarge, EndPrefill,
         DecodePhase, TakeRunning, DecodeCur, PreemptOther, PreemptSelf, DecodeTooLarge, EndDecode,
         InDecode, Model, RunNext, EndRun, PostNext, EndStep
    <3> QED BY <3>1, <3>2, <3>3, <3>4, <3>5 DEF SchedNext, Engine, Transfers
  <2> QED BY <1>1, <2>1, BelowUnlessReadmitted
<1>3. CASE Readmit
  BY <1>3, PlaceReadmit
<1> SUFFICES ASSUME ~ Readmit, NobodyUp PROVE PlaceInv'
  BY <1>2, <1>3
<1>4. CASE ResetStats \/ StartStep
  BY <1>1, <1>4, PlaceSame DEF ResetStats, StartStep, ClearPrefixCache
<1>5. CASE \E s \in Seqs : Arrive(s)
  <2>1. PICK s \in Seqs : Arrive(s)
    BY <1>5
  <2>2. Add(s) /\ swapped' = swapped
    BY <2>1 DEF Arrive
  <2> QED BY <1>1, <2>2, PlaceWork
<1>6. CASE Watermarks
  BY <1>1, <1>6, PlaceSame DEF Watermarks, VisitTier, DemoteNext, EndTier, VisitGpu,
     PreemptForWatermark, EndWatermarks
<1>7. CASE MakeRoom \/ NextTarget \/ EvictNext \/ EndFree \/ StayThere \/ KeepRunning
  BY <1>1, <1>7, PlaceSame DEF MakeRoom, NextTarget, EvictNext, EndFree, StayThere, KeepRunning
<1>8. CASE RecomputeVictim
  <2>1. Recompute(Top.seq) /\ swapped' = swapped /\ InDown
    BY <1>8 DEF RecomputeVictim
  <2>2. Top.seq \in Seqs
    BY <2>1, TopType DEF InDown, DownCall
  <2> QED BY <1>1, <2>1, <2>2, PlaceWork
<1>9. CASE MoveDown \/ MoveUp \/ Copy
  BY <1>1, <1>9, PlaceSame DEF MoveDown, MoveUp, Copy, PrepareSwap, CopyBlocks, schedVars
<1>10. CASE CommitDown \/ CommitUp
  BY <1>10, PlaceCommits
<1>11. CASE FailTransfer \/ PrefillTooLarge \/ DecodeTooLarge
  BY <1>11, PlaceRaised DEF FailTransfer, PrefillTooLarge, DecodeTooLarge, Raise
<1>12. CASE SkipSwapped \/ EndSwapIn \/ EndPrefill
  BY <1>1, <1>12, PlaceSame DEF SkipSwapped, EndSwapIn, EndPrefill
<1>13. CASE AdmitNew \/ AdmitMore
  <2>1. Head(waiting) \in Seqs /\ swapped' = swapped
    BY <1>13, Chunked DEF SchedTypeOK
  <2>2. \/ \E n, fresh, c : PrefillNew(Head(waiting), n, fresh, c)
        \/ \E c : PrefillMore(Head(waiting), c)
    BY <1>13 DEF AdmitNew, AdmitMore
  <2> QED BY <1>1, <2>1, <2>2, PlaceWork
<1>14. CASE TakeRunning \/ PreemptOther \/ PreemptSelf \/ EndDecode
  BY <1>1, <1>14, PlaceSame DEF TakeRunning, PreemptOther, PreemptSelf, EndDecode
<1>15. CASE DecodeCur
  BY <1>1, <1>15, PlaceWork DEF DecodeCur, SchedTypeOK, QueueTypes, CallTypes
<1>16. CASE RunNext
  BY <1>1, <1>16, HeadTailSet, PlaceWork DEF RunNext, SchedTypeOK, QueueTypes, CallTypes
<1>17. CASE PostNext
  <2>1. Head(todo) \in Seqs /\ swapped' = swapped
    BY <1>17, HeadTailSet DEF PostNext, SchedTypeOK, QueueTypes, CallTypes
  <2>2. \/ PostChunk(Head(todo))
        \/ \E t \in Token : PostToken(Head(todo), t) \/ PostFinish(Head(todo), t)
    BY <1>17 DEF PostNext
  <2> QED BY <1>1, <2>1, <2>2, PlaceWork
<1>18. CASE EndRun \/ EndStep
  BY <1>1, <1>18, PlaceSame DEF EndRun, EndStep
<1> QED BY <1>4, <1>5, <1>6, <1>7, <1>8, <1>9, <1>10, <1>11, <1>12, <1>13, <1>14, <1>15, <1>16,
           <1>17, <1>18
        DEF SchedNext, Engine, Targets, Transfers, SwapIn, PrefillPhase, DecodePhase, Model

-----------------------------------------------------------------------------
(***************************************************************************)
(* How many requests are in execution.                                     *)
(***************************************************************************)
InExecution == ToSet(running) \cup ToSet(batch) \cup Handled

LEMMA ExecutionType ==
  ASSUME QueueTypes
  PROVE  InExecution \subseteq Seqs /\ IsFiniteSet(InExecution) /\ Cardinality(InExecution) \in Nat
<1>1. InExecution \subseteq Seqs
  BY SetOfSeq DEF InExecution, Handled, SchedTypeOK, QueueTypes, CallTypes
<1> QED BY <1>1, ConstantsAssumption, FS_Subset, FS_CardinalityType

LEMMA NoMoreActive ==
  ASSUME QueueTypes, ActiveBounded, phase # "raised", InExecution' \subseteq InExecution
  PROVE  ActiveBounded'
<1> DEFINE old == InExecution
<1>1. IsFiniteSet(old) /\ Cardinality(old) \in Nat /\ Cardinality(old) <= MaxSeqs
  BY ExecutionType DEF ActiveBounded, InExecution
<1>2. PICK new : new = InExecution'
  OBVIOUS
<1>3. new \subseteq old
  BY <1>2
<1> HIDE DEF old
<1>4. Cardinality(new) <= Cardinality(old) /\ Cardinality(new) \in Nat
  BY <1>1, <1>3, FS_Subset, FS_CardinalityType
<1>5. Cardinality(new) <= MaxSeqs
  BY <1>1, <1>4, SchedulerAssumption
<1> QED BY <1>2, <1>5 DEF ActiveBounded, InExecution

LEMMA OneMoreActive ==
  ASSUME NEW S \in SUBSET Seqs, Cardinality(S) < MaxSeqs, NEW s \in Seqs,
         InExecution' \subseteq S \cup {s}
  PROVE  ActiveBounded'
<1>1. IsFiniteSet(S) /\ Cardinality(S) \in Nat
  BY ConstantsAssumption, FS_Subset, FS_CardinalityType
<1>2. IsFiniteSet(S \cup {s}) /\ Cardinality(S \cup {s}) \in Nat
      /\ Cardinality(S \cup {s}) <= Cardinality(S) + 1
  <2>1. Cardinality(S \cup {s}) = IF s \in S THEN Cardinality(S) ELSE Cardinality(S) + 1
    BY <1>1, FS_AddElement
  <2>2. IsFiniteSet(S \cup {s})
    BY <1>1, FS_AddElement
  <2> QED BY <1>1, <2>1, <2>2
<1>3. PICK new : new = InExecution'
  OBVIOUS
<1>4. new \subseteq S \cup {s}
  BY <1>3
<1>5. Cardinality(new) <= Cardinality(S \cup {s}) /\ Cardinality(new) \in Nat
  BY <1>2, <1>4, FS_Subset, FS_CardinalityType
<1>6. Cardinality(new) <= MaxSeqs
  BY <1>1, <1>2, <1>5, SchedulerAssumption
<1> QED BY <1>3, <1>6 DEF ActiveBounded, InExecution

LEMMA ActiveResumed ==
  ASSUME QueueTypes, HandsFree, HomeInv, calls = << >>, phase \in {"swapin", "restore"},
         ToSet(batch) \subseteq ToSet(running), Len(running) < MaxSeqs, NEW s \in Seqs,
         running' = Append(running, s), batch' = Append(batch, s), UNCHANGED <<cur, victim>>
  PROVE  ActiveBounded'
<1>1. Injective(running)
  BY DEF HomeInv
<1>2. Handled' = {} /\ running \in Seq(Seqs) /\ batch \in Seq(Seqs)
  BY InHand DEF Handled, HandsFree
<1>3. ToSet(running') = ToSet(running) \cup {s} /\ ToSet(batch') = ToSet(batch) \cup {s}
  BY <1>2, AppendSet
<1>4. InExecution' \subseteq ToSet(running) \cup {s}
  BY <1>2, <1>3 DEF InExecution
<1>5. Cardinality(ToSet(running)) < MaxSeqs /\ ToSet(running) \in SUBSET Seqs
  BY <1>1, <1>2, QueueSize, SetOfSeq
<1> QED BY <1>4, <1>5, OneMoreActive

LEMMA ActiveReadmit ==
  ASSUME SchedTypeOK, CallsInv, TodoInv, PlanInv, HomeInv, BatchInv, PlaceInv, Readmit
  PROVE  ActiveBounded'
<1> DEFINE s == Head(todo)
<1>1. /\ phase = "swapin" /\ s \in Seqs /\ s \in ToSet(todo) /\ AtGpu(s)
      /\ running' = Append(running, s) /\ batch' = Append(batch, s) /\ UNCHANGED <<cur, victim>>
  BY HeadTailSet DEF Readmit, InSwapIn, SchedTypeOK, QueueTypes
<1> HIDE DEF s
<1>2. s \in ToSet(swapped)
  BY <1>1 DEF TodoInv
<1>3. Len(running) < MaxSeqs /\ ToSet(batch) \subseteq ToSet(running)
  BY <1>1, <1>2 DEF PlaceInv, BatchInv
<1>4. QueueTypes /\ HandsFree /\ calls = << >>
  BY <1>1, HandsOfScheduler, PhaseFacts DEF SchedTypeOK
<1> QED BY <1>1, <1>3, <1>4, ActiveResumed

LEMMA ActiveAdmit ==
  ASSUME QueueTypes, HandsFree, HomeInv, BatchInv, AdmitNew \/ AdmitMore
  PROVE  ActiveBounded'
<1> DEFINE s == Head(waiting)
<1>1. /\ phase = "prefill" /\ s \in Seqs /\ batch' = Append(batch, s) /\ UNCHANGED <<cur, victim>>
      /\ ActiveAndScheduled < MaxSeqs
      /\ running' = Append(running, s) \/ running' = running
  BY Chunked
<1> HIDE DEF s
<1>2. Handled' = {} /\ running \in Seq(Seqs) /\ batch \in Seq(Seqs) /\ Injective(running)
  BY <1>1, InHand DEF Handled, HomeInv, HandsFree
<1>3. /\ ToSet(batch') = ToSet(batch) \cup {s}
      /\ ToSet(Append(running, s)) = ToSet(running) \cup {s}
  BY <1>1, <1>2, AppendSet
<1> DEFINE R == ToSet(running)  B == ToSet(batch)
<1>4. InExecution' \subseteq (R \cup B) \cup {s}
  BY <1>1, <1>2, <1>3 DEF InExecution
<1>5. R \in SUBSET Seqs /\ B \in SUBSET Seqs
  BY <1>2, SetOfSeq
<1>6. Cardinality(R) = Len(running)
  BY <1>2, QueueSize
<1> HIDE DEF R, B
<1>7. Cardinality(R \cup B) = Cardinality(R) + Cardinality(B \ R)
  <2>1. IsFiniteSet(R) /\ IsFiniteSet(B \ R)
    BY <1>5, ConstantsAssumption, FS_Subset
  <2> DEFINE D == B \ R
  <2>2. R \cap D = {} /\ R \cup D = R \cup B
    OBVIOUS
  <2> HIDE DEF D
  <2>3. Cardinality(R \cup D) = Cardinality(R) + Cardinality(D) - Cardinality(R \cap D)
    BY <2>1, FS_Union DEF D
  <2>4. Cardinality(R \cap D) = 0
    BY <2>2, FS_EmptySet
  <2>5. Cardinality(R) \in Nat /\ Cardinality(D) \in Nat
    BY <2>1, FS_CardinalityType DEF D
  <2>6. Cardinality(R \cup D) = Cardinality(R) + Cardinality(D)
    BY <2>3, <2>4, <2>5
  <2> QED BY <2>2, <2>6 DEF D
<1>8. Cardinality(R \cup B) < MaxSeqs
  BY <1>1, <1>6, <1>7 DEF ActiveAndScheduled, R, B
<1> QED BY <1>1, <1>4, <1>5, <1>8, OneMoreActive

LEMMA ActiveSame ==
  ASSUME QueueTypes, ActiveBounded, phase # "raised",
         UNCHANGED <<running, batch, cur, victim>>
  PROVE  ActiveBounded'
<1>1. InExecution' \subseteq InExecution
  BY DEF InExecution, Handled
<1> QED BY <1>1, NoMoreActive

LEMMA ActiveRaised == ASSUME phase' = "raised" PROVE ActiveBounded'
BY DEF ActiveBounded

LEMMA TakenFromRunning ==
  ASSUME QueueTypes, HomeInv, phase # "raised", NEW s, NEW r \in Without(running, s)
  PROVE  s \in ToSet(running) /\ ToSet(r) \subseteq ToSet(running)
<1>1. running \in Seq(Seqs) /\ Injective(running)
  BY DEF QueueTypes, HomeInv
<1>2. s \in ToSet(running) /\ ToSet(r) = ToSet(running) \ {s}
  BY <1>1, WithoutSet
<1> QED BY <1>2

(* A victim leaves running, and is put back.                               *)
LEMMA ActiveVictim ==
  ASSUME QueueTypes, HomeInv, phase # "raised", running' \in Without(running, victim'),
         UNCHANGED <<batch, cur>>
  PROVE  InExecution' \subseteq InExecution
<1>1. victim' \in ToSet(running) /\ ToSet(running') \subseteq ToSet(running)
  BY TakenFromRunning
<1> QED BY <1>1 DEF InExecution, Handled

LEMMA ActivePutBack ==
  ASSUME QueueTypes, victim # NoSeq, victim \in Seqs, running' = <<victim>> \o running,
         victim' = NoSeq, UNCHANGED <<cur, batch>>
  PROVE  InExecution' \subseteq InExecution
<1>1. ToSet(running') = {victim} \cup ToSet(running)
  BY PushSet DEF QueueTypes
<1> QED BY <1>1 DEF InExecution, Handled

LEMMA ActiveDropped ==
  ASSUME running' = running, batch' = batch, victim' = NoSeq, cur' \in {cur, NoSeq}
  PROVE  InExecution' \subseteq InExecution
BY DEF InExecution, Handled

LEMMA ActiveLoops ==
  ASSUME QueueTypes, HomeInv, phase # "raised",
         TakeRunning \/ DecodeCur \/ EndDecode \/ PostNext \/ EndStep \/ StartStep
  PROVE  InExecution' \subseteq InExecution
<1> USE DEF queues, InExecution, Handled
<1>1. /\ running \in Seq(Seqs) /\ batch \in Seq(Seqs) /\ ToSet(<< >>) = {}
      /\ todo \in Seq(Seqs)
  BY DEF QueueTypes, ToSet
<1>2. CASE TakeRunning
  <2>1. /\ running # << >> /\ cur' = Head(running) /\ running' = Tail(running)
        /\ UNCHANGED <<batch, victim>>
    BY <1>2 DEF TakeRunning
  <2>2. Head(running) \in ToSet(running) /\ ToSet(Tail(running)) \subseteq ToSet(running)
    BY <1>1, <2>1, HeadTailSet
  <2> QED BY <2>1, <2>2
<1>3. CASE DecodeCur
  <2>1. /\ cur # NoSeq /\ cur \in Seqs /\ batch' = Append(batch, cur) /\ cur' = NoSeq
        /\ UNCHANGED <<running, victim>>
    BY <1>3 DEF DecodeCur, QueueTypes
  <2>2. ToSet(batch') = ToSet(batch) \cup {cur}
    BY <1>1, <2>1, AppendSet
  <2> QED BY <2>1, <2>2
<1>4. CASE EndDecode
  <2>1. running' = batch \o running /\ UNCHANGED <<batch, cur, victim>>
    BY <1>4 DEF EndDecode, GivenBack
  <2>2. ToSet(running') = ToSet(batch) \cup ToSet(running)
    BY <1>1, <2>1, ConcatSet
  <2> QED BY <2>1, <2>2
<1>5. CASE PostNext
  <2>1. UNCHANGED <<batch, cur, victim>>
    BY <1>5 DEF PostNext
  <2>2. running' = running \/ running' \in Without(running, Head(todo))
    BY <1>5 DEF PostNext
  <2> QED BY <2>1, <2>2, TakenFromRunning
<1>6. CASE EndStep \/ StartStep
  BY <1>1, <1>6 DEF EndStep, StartStep
<1> QED BY <1>2, <1>3, <1>4, <1>5, <1>6

LEMMA SharedActive ==
  ASSUME QueueTypes, HandsFree, HomeInv, BatchInv, ActiveBounded, phase # "raised", SharedSteps
  PROVE  ActiveBounded'
<1> USE DEF queues
<1>1. CASE AdmitNew \/ AdmitMore
  BY <1>1, ActiveAdmit
<1>2. CASE TakeRunning \/ DecodeCur \/ EndDecode \/ PostNext \/ EndStep \/ StartStep
  BY <1>2, ActiveLoops, NoMoreActive
<1>3. CASE PrefillTooLarge \/ DecodeTooLarge
  BY <1>3, ActiveRaised DEF PrefillTooLarge, DecodeTooLarge, Raise
<1>4. CASE ResetStats \/ (\E s \in Seqs : Arrive(s)) \/ EndPrefill \/ RunNext \/ EndRun
  BY <1>4, ActiveSame DEF ResetStats, Arrive, control, EndPrefill, RunNext, EndRun
<1> QED BY <1>1, <1>2, <1>3, <1>4 DEF SharedSteps, PrefillPhase, Model

(* A step that only puts requests back, takes them out or drops them. *)
LEMMA ActiveMoves ==
  ASSUME SchedTypeOK, CallsInv, HomeInv, phase # "raised",
         \/ PreemptForWatermark \/ KeepRunning \/ RecomputeVictim \/ CommitDown
         \/ PreemptOther \/ PreemptSelf
  PROVE  InExecution' \subseteq InExecution
<1> USE DEF queues
<1>1. QueueTypes
  BY DEF SchedTypeOK
<1>2. CASE PreemptForWatermark
  <2>1. CASE UNCHANGED <<running, batch, cur, victim>>
    BY <2>1 DEF InExecution, Handled
  <2>2. CASE running' \in Without(running, victim') /\ UNCHANGED <<batch, cur>>
    BY <1>1, <2>2, ActiveVictim
  <2> QED BY <1>2, <2>1, <2>2 DEF PreemptForWatermark, RunningWithout
<1>3. CASE KeepRunning
  <2>1. /\ calls # << >> /\ Top.op = "down" /\ Outermost /\ phase = "gpu"
        /\ running' = <<Top.seq>> \o running /\ victim' = NoSeq /\ UNCHANGED <<cur, batch>>
    BY <1>3 DEF KeepRunning, InDown
  <2>2. Top.seq = victim /\ victim # NoSeq /\ victim \in Seqs
    BY <1>1, <2>1, TopOk DEF CallOk, CallsInv, QueueTypes
  <2> QED BY <1>1, <2>1, <2>2, ActivePutBack
<1>4. CASE RecomputeVictim
  BY <1>4, ActiveDropped DEF RecomputeVictim
<1>5. CASE CommitDown
  <2>1. running' = running /\ batch' = batch
    BY <1>5 DEF CommitDown
  <2>2. CASE victim' = NoSeq /\ cur' \in {cur, NoSeq}
    BY <2>1, <2>2, ActiveDropped
  <2>3. CASE UNCHANGED <<victim, cur>>
    BY <2>1, <2>3 DEF InExecution, Handled
  <2> QED BY <1>5, <2>2, <2>3 DEF CommitDown
<1>6. CASE PreemptOther
  BY <1>1, <1>6, ActiveVictim DEF PreemptOther, RunningWithout
<1>7. CASE PreemptSelf
  BY <1>7 DEF PreemptSelf, InExecution, Handled
<1> QED BY <1>2, <1>3, <1>4, <1>5, <1>6, <1>7

LEMMA ActivePreserved ==
  ASSUME SchedTypeOK, CallsInv, TodoInv, PlanInv, HomeInv, BatchInv, PlaceInv,
         ActiveBounded, SchedNext
  PROVE  ActiveBounded'
<1> USE DEF queues
<1>1. phase # "raised" /\ QueueTypes /\ HandsFree
  BY NeverRaised, HandsOfScheduler DEF SchedTypeOK
<1>2. CASE SharedSteps
  BY <1>1, <1>2, SharedActive
<1>3. CASE Readmit
  BY <1>3, ActiveReadmit
<1>4. CASE \/ PreemptForWatermark \/ KeepRunning \/ RecomputeVictim \/ CommitDown
           \/ PreemptOther \/ PreemptSelf
  BY <1>1, <1>4, ActiveMoves, NoMoreActive
<1>5. CASE FailTransfer
  BY <1>5, ActiveRaised DEF FailTransfer, Raise
<1>6. CASE VisitTier \/ DemoteNext \/ EndTier \/ VisitGpu \/ EndWatermarks
  BY <1>1, <1>6, ActiveSame DEF VisitTier, DemoteNext, EndTier, VisitGpu, EndWatermarks
<1>7. CASE MakeRoom \/ NextTarget \/ EvictNext \/ EndFree \/ StayThere
  BY <1>1, <1>7, ActiveSame DEF MakeRoom, NextTarget, EvictNext, EndFree, StayThere
<1>8. CASE MoveDown \/ MoveUp \/ Copy \/ CommitUp
  BY <1>1, <1>8, ActiveSame DEF MoveDown, MoveUp, Copy, CommitUp, schedVars, control
<1>9. CASE SkipSwapped \/ EndSwapIn
  BY <1>1, <1>9, ActiveSame DEF SkipSwapped, EndSwapIn
<1> QED BY <1>2, <1>3, <1>4, <1>5, <1>6, <1>7, <1>8, <1>9
        DEF SchedNext, Engine, Watermarks, Targets, Transfers, SwapIn, DecodePhase, SharedSteps

-----------------------------------------------------------------------------
(***************************************************************************)
(* What an exception loses.                                                *)
(***************************************************************************)
LEMMA RequeuedSet ==
  ASSUME QueueTypes, HomeInv, phase # "raised"
  PROVE  /\ Requeued \in Seq(Seqs) /\ Injective(Requeued)
         /\ ToSet(Requeued) = ToSet(running) \cup Handled
<1> DEFINE c == IF cur \in {NoSeq, victim} THEN << >> ELSE <<cur>>
           v == IF victim = NoSeq THEN << >> ELSE <<victim>>
           cv == c \o v
<1>1. /\ running \in Seq(Seqs) /\ Injective(running) /\ ToSet(running) \cap Handled = {}
      /\ ToSet(<< >>) = {} /\ Injective(<< >>) /\ << >> \in Seq(Seqs)
      /\ cur \in Seqs \cup {NoSeq} /\ victim \in Seqs \cup {NoSeq}
  BY DEF SchedTypeOK, QueueTypes, CallTypes, HomeInv, ToSet, Injective
<1>2. c \in Seq(Seqs) /\ Injective(c) /\ ToSet(c) = {cur} \ {NoSeq, victim}
  <2>1. CASE cur \in {NoSeq, victim}
    BY <1>1, <2>1
  <2>2. CASE cur \notin {NoSeq, victim}
    <3>1. c = <<cur>> /\ cur \in Seqs
      BY <1>1, <2>2
    <3>2. <<cur>> \in Seq(Seqs) /\ Injective(<<cur>>) /\ ToSet(<<cur>>) = {cur}
      BY <3>1, SingletonSet
    <3> QED BY <2>2, <3>1, <3>2
  <2> QED BY <2>1, <2>2
<1>3. v \in Seq(Seqs) /\ Injective(v) /\ ToSet(v) = {victim} \ {NoSeq}
  <2>1. CASE victim = NoSeq
    BY <1>1, <2>1
  <2>2. CASE victim # NoSeq
    <3>1. v = <<victim>> /\ victim \in Seqs
      BY <1>1, <2>2
    <3>2. <<victim>> \in Seq(Seqs) /\ Injective(<<victim>>) /\ ToSet(<<victim>>) = {victim}
      BY <3>1, SingletonSet
    <3> QED BY <2>2, <3>1, <3>2
  <2> QED BY <2>1, <2>2
<1>4. Requeued = cv \o running
  BY DEF Requeued
<1> HIDE DEF c, v
<1>5. cv \in Seq(Seqs) /\ Injective(cv) /\ ToSet(cv) = Handled
  <2>1. ToSet(c) \cap ToSet(v) = {} /\ ToSet(c) \cup ToSet(v) = Handled
    BY <1>2, <1>3 DEF Handled
  <2>2. cv \in Seq(Seqs) /\ ToSet(cv) = ToSet(c) \cup ToSet(v)
    BY <1>2, <1>3, ConcatSet
  <2>3. Injective(cv)
    BY <1>2, <1>3, <2>1, ConcatSet
  <2> QED BY <2>1, <2>2, <2>3
<1> HIDE DEF cv
<1>6. ToSet(cv) \cap ToSet(running) = {}
  BY <1>1, <1>5
<1>7. cv \o running \in Seq(Seqs) /\ ToSet(cv \o running) = ToSet(cv) \cup ToSet(running)
  BY <1>1, <1>5, ConcatSet
<1>8. Injective(cv \o running)
  BY <1>1, <1>5, <1>6, ConcatSet
<1> QED BY <1>4, <1>5, <1>7, <1>8

LEMMA LostFrom ==
  ASSUME TypeOK, QueueTypes, HomeInv, phase # "raised",
         UNCHANGED <<waiting, swapped, status, numSched, tokens, table>>,
         running' \in Seq(Seqs), Injective(running'), ToSet(running') \subseteq WithStatus("running"),
         \A s \in WithStatus("running") \ ToSet(running') : numSched[s] = 1 \/ TooLarge(s)
  PROVE  LostOnlyScheduled'
<1>1. PICK r \in Seq(Seqs) : r = running'
  OBVIOUS
<1>2. /\ waiting \in Seq(Seqs) /\ Injective(waiting) /\ ToSet(waiting) = WithStatus("waiting")
      /\ swapped \in Seq(Seqs) /\ Injective(swapped) /\ ToSet(swapped) = WithStatus("swapped")
      /\ Injective(r) /\ ToSet(r) \subseteq WithStatus("running")
  BY <1>1 DEF SchedTypeOK, QueueTypes, CallTypes, HomeInv
<1> DEFINE wr == waiting \o r
           all == wr \o swapped
<1>3. wr \in Seq(Seqs) /\ Injective(wr) /\ ToSet(wr) = ToSet(waiting) \cup ToSet(r)
  <2>1. ToSet(waiting) \cap ToSet(r) = {}
    BY <1>2 DEF WithStatus
  <2> QED BY <1>1, <1>2, <2>1, ConcatSet
<1> HIDE DEF wr
<1>4. Injective(all) /\ ToSet(all) = ToSet(waiting) \cup ToSet(r) \cup ToSet(swapped)
  <2>1. ToSet(wr) \cap ToSet(swapped) = {}
    BY <1>2, <1>3 DEF WithStatus
  <2>2. ToSet(all) = ToSet(wr) \cup ToSet(swapped)
    BY <1>2, <1>3, ConcatSet
  <2>3. Injective(all)
    BY <1>2, <1>3, <2>1, ConcatSet
  <2> QED BY <1>3, <2>2, <2>3
<1>5. ASSUME NEW s \in Seqs, Unfinished(s), s \notin ToSet(all)
      PROVE  numSched[s] = 1 \/ TooLarge(s)
  <2>1. status[s] \in {"waiting", "running", "swapped"}
    BY <1>5 DEF TypeOK, Unfinished
  <2>2. s \in WithStatus("running") \ ToSet(r)
    BY <1>2, <1>4, <1>5, <2>1 DEF WithStatus
  <2> QED BY <1>1, <2>2
<1>6. (waiting \o running \o swapped)' = all
  BY <1>1 DEF wr
<1>7. ASSUME NEW s \in Seqs
      PROVE  /\ Unfinished(s)' <=> Unfinished(s)
             /\ TooLarge(s)' <=> TooLarge(s)
  BY DEF Unfinished, TooLarge, TooManyBlocks, Size, Extra, NeedsBlock, Capacity
<1> HIDE DEF all
<1>8. Injective((waiting \o running \o swapped)')
  BY <1>4, <1>6
<1>9. ASSUME NEW s \in Seqs, Unfinished(s)', s \notin ToSet((waiting \o running \o swapped)')
      PROVE  numSched'[s] = 1 \/ TooLarge(s)'
  BY <1>5, <1>6, <1>7, <1>9
<1> QED BY <1>8, <1>9 DEF LostOnlyScheduled

(* The three ways out of schedule() by an exception. *)
LEMMA LostByException ==
  ASSUME IndInv, QueueTypes, HandsFree, HomeInv, BatchInv, phase # "raised",
         FailTransfer \/ PrefillTooLarge \/ DecodeTooLarge
  PROVE  LostOnlyScheduled'
<1>1. phase # "raised"
  OBVIOUS
<1>2. /\ ToSet(running) \cup ToSet(TakenOut) \cup Handled = WithStatus("running")
      /\ Injective(running) /\ running \in Seq(Seqs) /\ TypeOK /\ ToSet(<< >>) = {}
  <2>1. ToSet(<< >>) = {}
    BY DEF ToSet
  <2>2. running \in Seq(Seqs)
    BY DEF QueueTypes
  <2>3. TypeOK
    BY DEF IndInv
  <2> QED BY <1>1, <2>1, <2>2, <2>3 DEF HomeInv
<1>3. ASSUME NEW s \in ToSet(TakenOut) PROVE numSched[s] = 1
  BY <1>1, <1>2 DEF BatchInv, TakenOut
<1>4. CASE FailTransfer
  <2>1. /\ UNCHANGED <<waiting, swapped, status, numSched, tokens, table>> /\ running' = Requeued
    BY <1>4 DEF FailTransfer, AbortTransfer, Raise, seqVars, placeVars
  <2>2. /\ running' \in Seq(Seqs) /\ Injective(running') /\ ToSet(running') = ToSet(running) \cup Handled
    BY <1>1, <2>1, RequeuedSet
  <2>3. \A s \in WithStatus("running") \ ToSet(running') : numSched[s] = 1 \/ TooLarge(s)
    BY <1>2, <1>3, <2>2
  <2>4. ToSet(running') \subseteq WithStatus("running")
    BY <1>2, <2>2
  <2> QED BY <1>1, <1>2, <2>1, <2>2, <2>3, <2>4, LostFrom
<1>5. CASE PrefillTooLarge
  <2>1. /\ UNCHANGED <<waiting, swapped, status, numSched, tokens, table>> /\ running' = running
        /\ phase = "prefill"
    BY <1>5 DEF PrefillTooLarge, Raise, vars, seqVars, placeVars
  <2>2. TakenOut = << >> /\ Handled = {}
    BY <2>1, InHand DEF HandsFree
  <2>3. ToSet(running) = WithStatus("running")
    BY <1>2, <2>2
  <2> QED BY <1>1, <1>2, <2>1, <2>3, LostFrom
<1>6. CASE DecodeTooLarge
  <2>1. /\ UNCHANGED <<waiting, swapped, status, numSched, tokens, table>> /\ running' = running
        /\ calls = << >> /\ cur # NoSeq /\ ~ CanAppend(cur) /\ TooManyBlocks(Size(cur) + 1)
    BY <1>6 DEF DecodeTooLarge, Raise, InDecode, vars, seqVars, placeVars
  <2>2. Handled = {cur}
    BY <2>1, InHand DEF HandsFree
  <2>3. TooLarge(cur)
    BY <2>1 DEF TooLarge, Extra, CanAppend
  <2>4. \A s \in WithStatus("running") \ ToSet(running') : numSched[s] = 1 \/ TooLarge(s)
    BY <1>2, <1>3, <2>1, <2>2, <2>3
  <2>5. ToSet(running') \subseteq WithStatus("running")
    BY <1>2, <2>1
  <2> QED BY <1>1, <1>2, <2>1, <2>4, <2>5, LostFrom
<1> QED BY <1>4, <1>5, <1>6

(* No other shared step raises. *)
LEMMA SharedLost ==
  ASSUME IndInv, QueueTypes, HandsFree, HomeInv, BatchInv, phase # "raised", SharedSteps
  PROVE  LostOnlyScheduled'
<1> SUFFICES ASSUME phase' = "raised", ~ PrefillTooLarge, ~ DecodeTooLarge PROVE FALSE
  BY LostByException DEF LostOnlyScheduled
<1>1. ~ (ResetStats \/ StartStep \/ \E s \in Seqs : Arrive(s))
  BY DEF ResetStats, StartStep, Arrive, control
<1>2. ~ PrefillPhase
  BY DEF PrefillPhase, AdmitNew, AdmitMore, EndPrefill, Scheduled
<1>3. ~ (TakeRunning \/ DecodeCur \/ EndDecode)
  BY DEF TakeRunning, DecodeCur, EndDecode
<1>4. ~ Model
  BY DEF Model, RunNext, EndRun, PostNext, EndStep
<1> QED BY <1>1, <1>2, <1>3, <1>4 DEF SharedSteps

LEMMA LostPreserved ==
  ASSUME IndInv, SchedTypeOK, CallsInv, PlanInv, HomeInv, BatchInv, SchedNext
  PROVE  LostOnlyScheduled'
<1>1. phase # "raised" /\ QueueTypes /\ HandsFree
  BY NeverRaised, HandsOfScheduler DEF SchedTypeOK
<1>2. CASE SharedSteps
  BY <1>1, <1>2, SharedLost
<1>3. CASE FailTransfer
  BY <1>1, <1>3, LostByException
<1>4. ASSUME ~ FailTransfer, ~ SharedSteps, phase' = "raised" PROVE FALSE
  <2>1. ~ Watermarks
    BY <1>1, <1>4 DEF Watermarks, VisitTier, DemoteNext, EndTier, VisitGpu, PreemptForWatermark,
       EndWatermarks
  <2>2. ~ Targets /\ ~ Transfers
    BY <1>1, <1>4 DEF Targets, MakeRoom, NextTarget, MoveDown, EvictNext, EndFree, StayThere,
       KeepRunning, RecomputeVictim, Transfers, Copy, CommitDown, CommitUp, schedVars, control
  <2>3. ~ SwapIn
    BY <1>1, <1>4 DEF SwapIn, SkipSwapped, MoveUp, Readmit, EndSwapIn, schedVars, control
  <2>4. ~ PreemptOther /\ ~ PreemptSelf
    BY <1>1, <1>4 DEF PreemptOther, PreemptSelf
  <2> QED BY <1>4, <2>1, <2>2, <2>3, <2>4 DEF SchedNext, Engine, DecodePhase, SharedSteps
<1> QED BY <1>2, <1>3, <1>4 DEF LostOnlyScheduled

-----------------------------------------------------------------------------
(***************************************************************************)
(* The invariant of the queues.                                            *)
(***************************************************************************)
LEMMA QueuesEmptyAtFirst == ASSUME SchedInit PROVE SchedInv
<1> USE DEF SchedInit
<1>1. SchedTypeOK
  BY InitTypes
<1>2. /\ \A s \in Seqs : status[s] = "new" /\ numSched[s] = 0 /\ tableTier[s] = GPU
      /\ plan = NoPlan /\ MaxSeqs \in Nat
  BY SchedulerAssumption DEF Init
<1>3. ToSet(<< >>) = {} /\ Injective(<< >>) /\ DOMAIN calls = {}
  BY DEF ToSet, Injective
<1>4. Handled = {} /\ TakenOut = << >>
  BY DEF Handled, TakenOut
<1>5. CallsInv /\ PlanInv
  BY <1>2, <1>3 DEF CallsInv, PlanInv
<1>6. TodoInv
  BY ByIdIrreflexive DEF TodoInv
<1>7. HomeInv
  BY <1>2, <1>3, <1>4 DEF HomeInv, WithStatus
<1>8. BatchInv
  BY <1>2, <1>3 DEF BatchInv, WithTokens
<1>9. PlaceInv
  BY <1>2, <1>3, GpuIsTier DEF PlaceInv
<1>10. ActiveBounded
  BY <1>2, <1>3, <1>4, FS_EmptySet DEF ActiveBounded
<1>11. LostOnlyScheduled
  BY DEF LostOnlyScheduled
<1> QED BY <1>1, <1>5, <1>6, <1>7, <1>8, <1>9, <1>10, <1>11 DEF SchedInv

LEMMA SchedInvStep ==
  ASSUME IndInv, SchedInv, [SchedNext]_allVars PROVE SchedInv'
<1>1. SchedTypeOK'
  BY SchedTypesPreserved DEF SchedInv, IndInv
<1>2. CASE SchedNext
  BY <1>1, <1>2, CallsPreserved, TodoPreserved, PlanPreserved, HomePreserved, BatchPreserved,
     PlacePreserved, ActivePreserved, LostPreserved DEF SchedInv
<1>3. CASE UNCHANGED allVars
  <2> USE <1>3 DEF allVars, schedVars, queues, step, control, vars, seqVars, placeVars
  <2>1. CallsInv' /\ TodoInv'
    BY DEF SchedInv, CallsInv, CallOk, TodoInv, TooManyBlocks, Size, Capacity
  <2>2. PlanInv' /\ PlaceInv'
    BY DEF SchedInv, PlanInv, PlaceInv, Returnable, TooLarge, TooManyBlocks, Size, Extra,
           NeedsBlock, Capacity, Top, AtGpu
  <2>3. HomeInv' /\ BatchInv'
    BY DEF SchedInv, HomeInv, BatchInv, WithStatus, WithTokens, TakenOut, Handled
  <2>4. ActiveBounded' /\ LostOnlyScheduled'
    BY DEF SchedInv, ActiveBounded, LostOnlyScheduled, Handled, Unfinished, TooLarge,
           TooManyBlocks, Size, Extra, NeedsBlock, Capacity
  <2> QED BY <1>1, <2>1, <2>2, <2>3, <2>4 DEF SchedInv
<1> QED BY <1>2, <1>3

(* The order of ages, the stack of calls, the queues, the batch and the    *)
(* transfer in flight fit together at every point of schedule(), its       *)
(* handlers and postprocess: the inductive invariant of the scheduler.     *)
THEOREM SchedInvariance == SchedSpec => []SchedInv
<1>1. SchedInit => IndInv /\ SchedInv
  BY QueuesEmptyAtFirst, InitEstablishes DEF SchedInit
<1>2. IndInv /\ SchedInv /\ [SchedNext]_allVars => (IndInv /\ SchedInv)'
  BY SchedInvStep, StepRefines, StepPreserves DEF IndInv, SchedInv
<1> QED BY <1>1, <1>2, PTL DEF SchedSpec

LEMMA BothInvariants == SchedSpec => [](IndInv /\ SchedInv)
BY SchedInvariance, KeepsDiscipline, Invariance, PTL


-----------------------------------------------------------------------------
(***************************************************************************)
(* What the invariant says of the queues.                                  *)
(***************************************************************************)
LEMMA SomeOrder ==
  ASSUME NEW S \in SUBSET Seqs
  PROVE  SetToSeq(S) \in Seq(Seqs) /\ ToSet(SetToSeq(S)) = S /\ Injective(SetToSeq(S))
<1> DEFINE D == 1 .. Cardinality(S)
<1>1. IsFiniteSet(S)
  BY ConstantsAssumption, FS_Subset
<1>2. Cardinality(S) \in Nat /\ ExistsBijection(D, S)
  BY <1>1, FS_CardinalityType
<1>3. PICK f \in Bijection(D, S) : TRUE
  BY <1>2 DEF ExistsBijection
<1>4. \E g \in [D -> S] : IsInjective(g)
  BY <1>3 DEF Bijection, Injection
<1>5. SetToSeq(S) \in [D -> S] /\ IsInjective(SetToSeq(S))
  BY <1>4 DEF SetToSeq
<1> DEFINE g == SetToSeq(S)
<1>6. DOMAIN g = D /\ Injective(g)
  BY <1>5 DEF IsInjective, Injective
<1>7. g \in Seq(S) /\ Len(g) = Cardinality(S)
  BY <1>2, <1>5
<1>8. ToSet(g) \in SUBSET S
  BY <1>7, SetOfSeq
<1>9. IsFiniteSet(ToSet(g)) /\ Cardinality(ToSet(g)) = Cardinality(S)
  BY <1>6, <1>7, QueueSize
<1>10. ToSet(g) = S
  BY <1>1, <1>8, <1>9, FS_Subset
<1> QED BY <1>6, <1>7, <1>10

LEMMA HomeFromInv == ASSUME IndInv, QueueTypes, HomeInv, BatchInv PROVE OneHome
<1> SUFFICES ASSUME phase # "raised" PROVE OneHome
  BY DEF OneHome
<1>1. /\ waiting \in Seq(Seqs) /\ running \in Seq(Seqs)
      /\ swapped \in Seq(Seqs) /\ batch \in Seq(Seqs)
  BY DEF QueueTypes
<1> DEFINE held == SetToSeq(Handled)
<1>2. held \in Seq(Seqs) /\ ToSet(held) = Handled /\ Injective(held)
  <2>1. Handled \in SUBSET Seqs
    BY <1>1 DEF SchedTypeOK, QueueTypes, CallTypes, Handled
  <2> QED BY <2>1, SomeOrder
<1>3. TakenOut \in Seq(Seqs) /\ Injective(TakenOut)
  BY <1>1, SetOfSeq DEF TakenOut, BatchInv
<1> HIDE DEF held
<1>4. /\ Injective(waiting) /\ ToSet(waiting) = WithStatus("waiting")
      /\ Injective(swapped) /\ ToSet(swapped) = WithStatus("swapped")
      /\ Injective(running)
      /\ ToSet(running) \cup ToSet(TakenOut) \cup Handled = WithStatus("running")
      /\ ToSet(running) \cap ToSet(TakenOut) = {}
      /\ (ToSet(running) \cup ToSet(TakenOut)) \cap Handled = {}
  BY <1>1 DEF HomeInv
<1>c. ASSUME NEW p \in Seq(Seqs), NEW q \in Seq(Seqs), Injective(p), Injective(q),
             ToSet(p) \cap ToSet(q) = {}
      PROVE  \E r \in Seq(Seqs) : /\ r = p \o q /\ Injective(r)
                                  /\ ToSet(r) = ToSet(p) \cup ToSet(q)
  <2>1. /\ p \o q \in Seq(Seqs) /\ Injective(p \o q)
        /\ ToSet(p \o q) = ToSet(p) \cup ToSet(q)
    BY <1>c, ConcatSet
  <2> QED BY <2>1
<1>5. /\ WithStatus("waiting") \cap WithStatus("running") = {}
      /\ WithStatus("waiting") \cap WithStatus("swapped") = {}
      /\ WithStatus("running") \cap WithStatus("swapped") = {}
  BY DEF WithStatus
<1>6. PICK w \in Seq(Seqs) : /\ w = waiting \o running /\ Injective(w)
                             /\ ToSet(w) = ToSet(waiting) \cup ToSet(running)
  <2>1. ToSet(waiting) \cap ToSet(running) = {}
    BY <1>4, <1>5
  <2> QED BY <1>1, <1>4, <1>c, <2>1
<1>7. PICK x \in Seq(Seqs) : /\ x = w \o swapped /\ Injective(x)
                             /\ ToSet(x) = ToSet(w) \cup ToSet(swapped)
  <2>1. ToSet(w) \cap ToSet(swapped) = {}
    BY <1>4, <1>5, <1>6
  <2> QED BY <1>1, <1>4, <1>6, <1>c, <2>1
<1>8. PICK y \in Seq(Seqs) : /\ y = x \o TakenOut /\ Injective(y)
                             /\ ToSet(y) = ToSet(x) \cup ToSet(TakenOut)
  <2>1. ToSet(x) \cap ToSet(TakenOut) = {}
    BY <1>4, <1>5, <1>6, <1>7
  <2> QED BY <1>3, <1>7, <1>c, <2>1
<1>9. PICK z \in Seq(Seqs) : z = y \o held /\ Injective(z) /\ ToSet(z) = ToSet(y) \cup Handled
  <2>1. ToSet(y) \cap Handled = {}
    BY <1>4, <1>5, <1>6, <1>7, <1>8
  <2> QED BY <1>2, <1>8, <1>c, <2>1
<1>10. z = AllQueued
  BY <1>6, <1>7, <1>8, <1>9 DEF AllQueued, held
<1>11. ToSet(z) = WithStatus("waiting") \cup WithStatus("running") \cup WithStatus("swapped")
  BY <1>4, <1>6, <1>7, <1>8, <1>9
<1>12. {s \in Seqs : Unfinished(s)} =
         WithStatus("waiting") \cup WithStatus("running") \cup WithStatus("swapped")
  <2>1. \A s \in Seqs : status[s] \in {"new", "waiting", "running", "swapped", "finished"}
    BY DEF IndInv, TypeOK
  <2> QED BY <2>1 DEF Unfinished, WithStatus
<1>13. Injective(AllQueued) /\ ToSet(AllQueued) = {s \in Seqs : Unfinished(s)}
  BY <1>9, <1>10, <1>11, <1>12
<1> QED BY <1>4, <1>13 DEF OneHome, WithStatus

(* No request is lost, duplicated or answered twice by the loops that move *)
(* it between the queues: popleft, remove, append, extendleft of schedule, *)
(* preempt, _schedule_swapped and postprocess.                             *)
THEOREM QueuesExact == SchedSpec => []OneHome
<1>1. IndInv /\ SchedInv => OneHome
  BY HomeFromInv DEF SchedInv, SchedTypeOK
<1> QED BY <1>1, BothInvariants, PTL

LEMMA BlocksFromInv == ASSUME IndInv, SchedInv PROVE QueuesPlaceBlocks
<1> SUFFICES ASSUME phase # "raised" PROVE QueuesPlaceBlocks
  BY DEF QueuesPlaceBlocks
<1>1. SchedTypeOK /\ HomeInv /\ PlaceInv
  BY DEF SchedInv
<1>2. ASSUME NEW s \in ToSet(running) PROVE AllOn(s, GPU)
  <2>1. s \in Seqs /\ status[s] = "running"
    BY <1>1 DEF HomeInv, WithStatus
  <2> QED BY <2>1, RunningOnGpu
<1>3. ASSUME NEW s \in ToSet(waiting) PROVE AllOn(s, GPU)
  <2>1. s \in Seqs /\ status[s] = "waiting"
    BY <1>1 DEF HomeInv, WithStatus
  <2> QED BY <2>1 DEF IndInv, ScheduleSound, ScheduleOf
<1>4. ASSUME NEW s \in ToSet(swapped)
      PROVE  \/ tableTier[s] # GPU /\ AllOn(s, tableTier[s])
             \/ phase = "swapin" /\ todo # << >> /\ s = Head(todo)
  <2>1. s \in Seqs
    BY <1>1 DEF HomeInv, WithStatus
  <2>2. TagsOf(s) /\ tableTier[s] \in Tier
    BY <1>1, <2>1 DEF PlaceInv, IndInv, TagsAgree
  <2>3. AllOn(s, tableTier[s])
    BY <2>2 DEF TagsOf
  <2> QED BY <1>1, <2>3 DEF PlaceInv, AtGpu
<1> QED BY <1>2, <1>3, <1>4 DEF QueuesPlaceBlocks

(* A request's queue says where its KV blocks are: wholly on the GPU, or   *)
(* wholly on one lower tier (commit_swap with the queues of the scheduler).*)
THEOREM QueuesPlaced == SchedSpec => []QueuesPlaceBlocks
BY BothInvariants, BlocksFromInv, PTL

LEMMA BatchFromInv == ASSUME IndInv, QueueTypes, BatchInv PROVE BatchExact
<1> SUFFICES ASSUME phase \in {"run", "post", "idle"} PROVE BatchExact
  BY DEF BatchExact
<1>1. phase # "raised"
  OBVIOUS
<1>2. Injective(batch) /\ ToSet(<< >>) = {}
  BY <1>1 DEF BatchInv, ToSet
<1>3. WithTokens = IF phase = "run" THEN ToSet(batch) ELSE ToSet(todo)
  BY <1>1, <1>2 DEF BatchInv
<1>4. ASSUME NEW s \in ToSet(batch), Unfinished(s) PROVE AllOn(s, GPU)
  <2>1. s \in Seqs
    BY <1>1, SetOfSeq DEF SchedTypeOK, QueueTypes, CallTypes
  <2>2. status[s] \in {"waiting", "running"}
    <3>1. phase # "idle"
      BY <1>1, <1>2, <1>4 DEF BatchInv
    <3>2. status[s] \in {"waiting", "running", "finished"}
      BY <1>1, <1>4, <3>1 DEF BatchInv
    <3> QED BY <1>4, <3>2 DEF Unfinished
  <2> QED BY <2>1, <2>2, RunningOnGpu DEF IndInv, ScheduleSound, ScheduleOf
<1> QED BY <1>2, <1>3, <1>4 DEF BatchExact, WithTokens

(* The model runs exactly the requests that were given tokens, each once   *)
(* and with every block on the GPU, and postprocess visits all of them:    *)
(* "Attention requires all scheduled KV blocks on GPU" is never raised.    *)
THEOREM BatchMatches == SchedSpec => []BatchExact
<1>1. IndInv /\ SchedInv => BatchExact
  BY BatchFromInv DEF SchedInv, SchedTypeOK
<1> QED BY <1>1, BothInvariants, PTL

(* An exception of schedule() only loses what this very step scheduled.    *)
THEOREM ExceptionsLoseOnlyScheduled == SchedSpec => []LostOnlyScheduled
BY SchedInvariance, PTL DEF SchedInv

(* The captured graphs have a row for every request in execution: never    *)
(* more than max_num_seqs of them.                                         *)
THEOREM BatchFitsGraphs == SchedSpec => []ActiveBounded
BY SchedInvariance, PTL DEF SchedInv

-----------------------------------------------------------------------------
(***************************************************************************)
(* Readmission.  When nothing waits or runs, the GPU is empty.             *)
(***************************************************************************)
LEMMA BelowTheGpu ==
  ASSUME IndInv, PlaceInv, phase # "raised", NEW s \in Seqs, s \in ToSet(swapped), ~ AtGpu(s)
  PROVE  /\ tableTier[s] # GPU
         /\ \A b \in Held(s) : b \in Block /\ TierOf[b] # GPU /\ refCount[b] = 1
<1>1. tableTier[s] \in Tier /\ tableTier[s] # GPU
  BY DEF PlaceInv, AtGpu
<1>2. TagsOf(s) /\ TypeOK
  BY DEF IndInv, TagsAgree
<1>3. AllOn(s, tableTier[s]) /\ DOMAIN tiers[s] = DOMAIN table[s]
  BY <1>1, <1>2 DEF TagsOf
<1>4. ASSUME NEW b \in Held(s) PROVE b \in Block /\ TierOf[b] # GPU
  <2>1. PICK i \in DOMAIN table[s] : b = table[s][i]
    BY DEF Held
  <2>2. TierOf[b] = tiers[s][i] /\ tiers[s][i] = tableTier[s] /\ b \in Block
    BY <1>2, <1>3, <2>1, SeqTypes DEF TagsOf, AllOn
  <2> QED BY <1>1, <2>2
<1>5. ASSUME NEW b \in Held(s) PROVE refCount[b] = 1
  <2>1. b \in Block /\ TierOf[b] # GPU
    BY <1>4
  <2>2. refCount[b] = Cardinality(Holders(b)) + InFlight(b) /\ refCount[b] <= 1
    BY <2>1 DEF IndInv, RefCountsExact, PoolPartition
  <2>3. {s} \subseteq Holders(b) /\ IsFiniteSet({s}) /\ Cardinality({s}) = 1
    BY FS_Singleton DEF Holders
  <2>4. 1 <= Cardinality(Holders(b)) /\ Cardinality(Holders(b)) \in Nat
    BY <2>3, HoldersFinite, FS_Subset
  <2>5. InFlight(b) \in {0, 1}
    BY DEF InFlight
  <2> QED BY <2>2, <2>4, <2>5
<1> QED BY <1>1, <1>4, <1>5

LEMMA GpuEmpty ==
  ASSUME IndInv, SchedInv, phase = "swapin", plan = NoPlan, waiting = << >>, running = << >>,
         NobodyUp
  PROVE  FreeCount(GPU) = Capacity(GPU)
<1>1. SchedTypeOK /\ CallsInv /\ PlanInv /\ HomeInv /\ PlaceInv /\ TypeOK /\ phase # "raised"
  BY DEF SchedInv, IndInv
<1>2. WithStatus("running") = {} /\ WithStatus("waiting") = {}
  <2>1. TakenOut = << >> /\ Handled = {}
    BY <1>1, PhaseFacts, HandsOfScheduler, InHand DEF SchedTypeOK
  <2>2. ToSet(<< >>) = {}
    BY DEF ToSet
  <2> QED BY <1>1, <2>1, <2>2 DEF HomeInv
<1>3. ASSUME NEW b \in GpuBlocks PROVE b \in free
  <2>1. b \in Block /\ TierOf[b] = GPU
    BY DEF GpuBlocks
  <2>2. ASSUME NEW r \in Holders(b) PROVE FALSE
    <3>1. r \in Seqs /\ b \in Held(r)
      BY DEF Holders
    <3>2. table[r] # << >>
      BY <3>1 DEF Held
    <3>3. status[r] \notin {"new", "finished"}
      BY <3>1, <3>2, SeqTypes, <1>1 DEF IndInv, TableCoversTokens, CoverOf
    <3>4. status[r] = "swapped"
      BY <1>1, <1>2, <3>1, <3>3 DEF TypeOK, WithStatus
    <3>5. r \in ToSet(swapped) /\ ~ AtGpu(r)
      BY <1>1, <3>1, <3>4 DEF HomeInv, WithStatus, NobodyUp
    <3> QED BY <1>1, <2>1, <3>1, <3>5, BelowTheGpu
  <2>3. Holders(b) = {} /\ InFlight(b) = 0
    BY <2>2 DEF InFlight, PlanTargets, ImageOf, NoPlan
  <2>4. refCount[b] = 0
    <3>1. refCount[b] = Cardinality(Holders(b)) + InFlight(b)
      BY <2>1 DEF IndInv, RefCountsExact
    <3>2. Cardinality(Holders(b)) = 0
      BY <2>3, FS_EmptySet
    <3> QED BY <2>3, <3>1, <3>2
  <2> QED BY <2>1, <2>4 DEF IndInv, PoolPartition
<1>4. FreeIn(GPU) = GpuBlocks
  BY <1>1, <1>3 DEF FreeIn, GpuBlocks, TypeOK
<1> QED BY <1>4, GpuSize DEF FreeCount

LEMMA ReadmissionFromInv == ASSUME IndInv, SchedInv PROVE SwapInNeverRaises
<1> SUFFICES ASSUME phase # "raised" PROVE SwapInNeverRaises
  BY DEF SwapInNeverRaises
<1>1. SchedTypeOK /\ HomeInv /\ PlaceInv /\ TypeOK
  BY DEF SchedInv, IndInv
<1>2. ASSUME NEW s \in ToSet(swapped)
      PROVE  s \in Seqs /\ Returnable(s) /\ Size(s) \in Nat
  BY <1>1, SizeType DEF HomeInv, WithStatus, PlaceInv
<1>3. \A s \in ToSet(swapped) : ~ TooLarge(s)
  BY <1>2 DEF Returnable
<1>4. ASSUME SwapInDone, StalledOnBudget PROVE FALSE
  BY <1>2, <1>4, SchedulerAssumption DEF StalledOnBudget, Returnable
<1>5. ASSUME SwapInDone, StalledOnCapacity PROVE FALSE
  <2>1. /\ phase = "swapin" /\ plan = NoPlan /\ waiting = << >> /\ running = << >>
        /\ swapped # << >> /\ swapped \in Seq(Seqs)
    BY <1>1, <1>5 DEF SwapInDone, InSwapIn, StalledOnCapacity, SchedTypeOK, QueueTypes, CallTypes
  <2>2. NobodyUp
    BY <1>1, <1>5, <2>1, BelowUnlessReadmitted DEF SwapInDone
  <2>3. PICK s : s = Head(swapped) /\ s \in ToSet(swapped)
    BY <2>1, HeadTailSet
  <2>4. s \in Seqs /\ ~ TooLarge(s) /\ ~ AtGpu(s) /\ Size(s) \in Nat
    BY <1>2, <1>3, <2>2, <2>3 DEF NobodyUp
  <2>5. FreeCount(GPU) = Capacity(GPU)
    BY <2>1, <2>2, GpuEmpty
  <2>6. FreeCount(GPU) >= Size(s) + Extra(s)
    <3>1. Extra(s) \in {0, 1}
      BY DEF Extra
    <3> QED BY <2>4, <2>5, <3>1, GpuSize DEF TooLarge, TooManyBlocks
  <2>7. CanSwap(s, GPU, Extra(s))
    BY <1>1, <2>3, <2>4, <2>6, BelowTheGpu DEF CanSwap
  <2> QED BY <1>5, <2>3, <2>7 DEF StalledOnCapacity
<1> QED BY <1>3, <1>4, <1>5 DEF SwapInNeverRaises, Stalled

(* "Swapped requests cannot make progress" and "cannot fit in available    *)
(* GPU blocks" are never raised: what schedule() moved down fits the GPU   *)
(* and the transfer budget, and once only swapped requests are left the    *)
(* GPU is empty, so the oldest of them is readmitted.                      *)
THEOREM ReadmissionNeverRaises == SchedSpec => []SwapInNeverRaises
BY BothInvariants, ReadmissionFromInv, PTL

-----------------------------------------------------------------------------
(***************************************************************************)
(* What is proved of BlockManager holds of the scheduled engine.           *)
(***************************************************************************)

(* Whatever the policy moves where, and whichever transfers fail, every    *)
(* cached token of a request stays where its block table says.             *)
THEOREM ScheduledView == SchedSpec => [](ViewCorrect /\ PrefixIndexSound /\ WriteExclusive)
BY KeepsDiscipline, CorrectView, IndexSound, ExclusiveWrites, PTL

(* The engine as a whole keeps the promise of KVView: a request's context  *)
(* is its own, and only its own steps change it.                           *)
THEOREM ScheduledViewRefinement == SchedSpec => ImplementsKVView
BY KeepsDiscipline, ViewRefinement

=============================================================================
