--------------------------- MODULE SequenceLemmas ---------------------------
(***************************************************************************)
(* What appending, taking the head and removing do to the elements of a    *)
(* sequence without duplicates, and to the sum of a list of numbers.  The  *)
(* queues of the schedulers and the free lists of the block managers are   *)
(* such sequences; the batch scheduler adds up the tokens of its batch.    *)
(***************************************************************************)
EXTENDS Lists, SequenceTheorems, FiniteSetTheorems, TLAPS

(* Appending an element the sequence does not have.                        *)
LEMMA AppendElements ==
  ASSUME NEW S, NEW s \in Seq(S), NEW e \in S
  PROVE  /\ Append(s, e) \in Seq(S)
         /\ Range(Append(s, e)) = Range(s) \cup {e}
         /\ IsInjective(s) /\ e \notin Range(s) => IsInjective(Append(s, e))
<1>1. /\ Append(s, e) \in Seq(S)
      /\ Len(Append(s, e)) = Len(s) + 1
      /\ \A i \in 1 .. Len(s) : Append(s, e)[i] = s[i]
      /\ Append(s, e)[Len(s) + 1] = e
      /\ Len(s) \in Nat
  BY AppendProperties, LenProperties
<1>2. DOMAIN Append(s, e) = 1 .. Len(s) + 1 /\ DOMAIN s = 1 .. Len(s)
  BY <1>1, LenProperties
<1>3. Range(Append(s, e)) = Range(s) \cup {e}
  BY <1>1, <1>2 DEF Range
<1>4. IsInjective(s) /\ e \notin Range(s) => IsInjective(Append(s, e))
  BY <1>1, <1>2 DEF Range, IsInjective
<1>. QED  BY <1>1, <1>3, <1>4

(* Taking the head off.                                                    *)
LEMMA TailElements ==
  ASSUME NEW S, NEW s \in Seq(S), s # <<>>
  PROVE  /\ Head(s) \in S /\ Head(s) \in Range(s)
         /\ Tail(s) \in Seq(S)
         /\ Len(Tail(s)) = Len(s) - 1
         /\ Range(Tail(s)) \subseteq Range(s)
         /\ Range(s) = Range(Tail(s)) \cup {Head(s)}
         /\ IsInjective(s) => IsInjective(Tail(s)) /\ Head(s) \notin Range(Tail(s))
<1>1. /\ Tail(s) \in Seq(S)
      /\ Len(Tail(s)) = Len(s) - 1
      /\ \A i \in 1 .. Len(s) - 1 : Tail(s)[i] = s[i + 1]
      /\ Len(s) \in Nat \ {0}
      /\ Head(s) \in S
  BY HeadTailProperties, LenProperties, EmptySeq
<1>2. /\ DOMAIN Tail(s) = 1 .. Len(s) - 1 /\ DOMAIN s = 1 .. Len(s)
      /\ Head(s) = s[1]
  BY <1>1, LenProperties
<1>3. Head(s) \in Range(s) /\ Range(Tail(s)) \subseteq Range(s)
  BY <1>1, <1>2 DEF Range
<1>4. Range(s) \subseteq Range(Tail(s)) \cup {Head(s)}
  <2>. SUFFICES ASSUME NEW i \in 1 .. Len(s)
                PROVE  s[i] \in Range(Tail(s)) \cup {Head(s)}
    BY <1>2 DEF Range
  <2>1. CASE i = 1  BY <2>1, <1>2
  <2>2. CASE i # 1
    <3>. i - 1 \in 1 .. Len(s) - 1 /\ Tail(s)[i - 1] = s[i]
      BY <2>2, <1>1
    <3>. QED  BY <1>2 DEF Range
  <2>. QED  BY <2>1, <2>2
<1>5. IsInjective(s) => IsInjective(Tail(s)) /\ Head(s) \notin Range(Tail(s))
  BY <1>1, <1>2 DEF Range, IsInjective
<1>. QED  BY <1>1, <1>3, <1>4, <1>5

(* Removing the element at a position: where each of the others ends up.   *)
LEMMA RemoveAtPositions ==
  ASSUME NEW S, NEW s \in Seq(S), NEW i \in DOMAIN s
  PROVE  /\ RemoveAt(s, i) \in Seq(S)
         /\ Len(RemoveAt(s, i)) = Len(s) - 1
         /\ \A j \in 1 .. Len(s) - 1 : RemoveAt(s, i)[j] = IF j < i THEN s[j] ELSE s[j + 1]
<1>. DEFINE t == RemoveAt(s, i)
            a == SubSeq(s, 1, i - 1)
            b == SubSeq(s, i + 1, Len(s))
<1>1. Len(s) \in Nat /\ DOMAIN s = 1 .. Len(s) /\ \A j \in 1 .. Len(s) : s[j] \in S
  BY LenProperties, ElementOfSeq
<1>2. /\ a \in Seq(S) /\ Len(a) = i - 1
      /\ \A j \in 1 .. i - 1 : a[j] = s[j]
  <2>1. 1 \in Int /\ i - 1 \in Int /\ \A j \in 1 .. i - 1 : s[j] \in S
    BY <1>1
  <2>2. /\ a \in Seq(S) /\ Len(a) = IF 1 <= i - 1 THEN i - 1 - 1 + 1 ELSE 0
        /\ \A j \in 1 .. i - 1 - 1 + 1 : a[j] = s[1 + j - 1]
    BY <2>1, SubSeqProperties
  <2>. QED  BY <2>2, <1>1
<1>3. /\ b \in Seq(S) /\ Len(b) = Len(s) - i
      /\ \A j \in 1 .. Len(s) - i : b[j] = s[i + j]
  <2>1. i + 1 \in Int /\ Len(s) \in Int /\ \A j \in i + 1 .. Len(s) : s[j] \in S
    BY <1>1
  <2>2. /\ b \in Seq(S) /\ Len(b) = IF i + 1 <= Len(s) THEN Len(s) - (i + 1) + 1 ELSE 0
        /\ \A j \in 1 .. Len(s) - (i + 1) + 1 : b[j] = s[i + 1 + j - 1]
    BY <2>1, SubSeqProperties
  <2>. QED  BY <2>2, <1>1
<1>4. /\ t \in Seq(S) /\ Len(t) = Len(s) - 1
      /\ \A j \in 1 .. Len(s) - 1 : t[j] = IF j < i THEN s[j] ELSE s[j + 1]
  <2>1. t = a \o b  BY DEF RemoveAt
  <2>2. /\ t \in Seq(S) /\ Len(t) = Len(a) + Len(b)
        /\ \A j \in 1 .. Len(a) + Len(b) : t[j] = IF j <= Len(a) THEN a[j] ELSE b[j - Len(a)]
    BY <2>1, <1>2, <1>3, ConcatProperties
  <2>. HIDE DEF a, b, t
  <2>3. ASSUME NEW j \in 1 .. Len(s) - 1
        PROVE  t[j] = IF j < i THEN s[j] ELSE s[j + 1]
    <3>1. t[j] = IF j <= i - 1 THEN a[j] ELSE b[j - (i - 1)]
      <4>1. Len(a) = i - 1 /\ Len(a) + Len(b) = Len(s) - 1
        BY <1>1, <1>2, <1>3
      <4>. QED  BY <4>1, <2>2
    <3>2. CASE j < i  BY <3>1, <3>2, <1>1, <1>2
    <3>3. CASE ~(j < i)
      <4>1. j - (i - 1) \in 1 .. Len(s) - i /\ i + (j - (i - 1)) = j + 1
        BY <3>3, <1>1
      <4>2. b[j - (i - 1)] = s[j + 1]
        BY <4>1, <1>3
      <4>. QED  BY <4>2, <3>1, <3>3, <1>1
    <3>. QED  BY <3>2, <3>3
  <2>. QED  BY <2>2, <2>3, <1>1, <1>2, <1>3
<1>. QED  BY <1>4

(* What is left of the others.                                             *)
LEMMA RemoveAtElements ==
  ASSUME NEW S, NEW s \in Seq(S), NEW i \in DOMAIN s
  PROVE  /\ s[i] \in S /\ s[i] \in Range(s)
         /\ RemoveAt(s, i) \in Seq(S)
         /\ Len(RemoveAt(s, i)) = Len(s) - 1
         /\ IsInjective(s) => /\ IsInjective(RemoveAt(s, i))
                              /\ Range(RemoveAt(s, i)) = Range(s) \ {s[i]}
<1>. DEFINE t == RemoveAt(s, i)
<1>1. Len(s) \in Nat /\ DOMAIN s = 1 .. Len(s) /\ \A j \in 1 .. Len(s) : s[j] \in S
  BY LenProperties, ElementOfSeq
<1>4. /\ t \in Seq(S) /\ Len(t) = Len(s) - 1
      /\ \A j \in 1 .. Len(s) - 1 : t[j] = IF j < i THEN s[j] ELSE s[j + 1]
  BY RemoveAtPositions
<1>5. DOMAIN t = 1 .. Len(s) - 1
  BY <1>4, LenProperties
<1>6. ASSUME IsInjective(s)
      PROVE  IsInjective(t)
  <2>. HIDE DEF t
  <2>. DEFINE from(j) == IF j < i THEN j ELSE j + 1
  <2>1. ASSUME NEW j \in 1 .. Len(s) - 1
        PROVE  from(j) \in 1 .. Len(s) /\ t[j] = s[from(j)]
    BY <1>1, <1>4
  <2>2. ASSUME NEW j \in 1 .. Len(s) - 1, NEW k \in 1 .. Len(s) - 1, t[j] = t[k]
        PROVE  j = k
    <3>1. s[from(j)] = s[from(k)] /\ from(j) \in 1 .. Len(s) /\ from(k) \in 1 .. Len(s)
      BY <2>1, <2>2
    <3>2. from(j) = from(k)
      <4>. HIDE DEF from
      <4>. QED  BY <3>1, <1>1, <1>6 DEF IsInjective
    <3>. QED  BY <3>2, <1>1
  <2>. QED  BY <2>2, <1>5 DEF IsInjective
<1>7. ASSUME IsInjective(s)
      PROVE  Range(t) = Range(s) \ {s[i]}
  <2>. HIDE DEF t
  <2>1. ASSUME NEW j \in 1 .. Len(s) - 1
        PROVE  t[j] \in Range(s) \ {s[i]}
    <3>1. PICK k \in 1 .. Len(s) : k # i /\ t[j] = s[k]
      <4>1. CASE j < i
        <5>1. j \in 1 .. Len(s) /\ j # i /\ t[j] = s[j]  BY <4>1, <1>1, <1>4
        <5>. QED  BY <5>1
      <4>2. CASE ~(j < i)
        <5>1. j + 1 \in 1 .. Len(s) /\ j + 1 # i /\ t[j] = s[j + 1]  BY <4>2, <1>1, <1>4
        <5>. QED  BY <5>1
      <4>. QED  BY <4>1, <4>2
    <3>2. s[k] # s[i]  BY <3>1, <1>1, <1>7 DEF IsInjective
    <3>. QED  BY <3>1, <3>2, <1>1 DEF Range
  <2>2. ASSUME NEW j \in 1 .. Len(s), s[j] # s[i]
        PROVE  s[j] \in Range(t)
    <3>1. CASE j < i  
      <4>1. j \in 1 .. Len(s) - 1 /\ t[j] = s[j]  BY <3>1, <1>1, <1>4
      <4>. QED  BY <4>1, <1>5 DEF Range
    <3>2. CASE j > i
      <4>1. j - 1 \in 1 .. Len(s) - 1 /\ t[j - 1] = s[j]  BY <3>2, <1>1, <1>4
      <4>. QED  BY <4>1, <1>5 DEF Range
    <3>. QED  BY <2>2, <3>1, <3>2, <1>1
  <2>3. Range(t) = {t[j] : j \in 1 .. Len(s) - 1}
    BY <1>5 DEF Range
  <2>4. Range(s) = {s[j] : j \in 1 .. Len(s)}
    BY <1>1 DEF Range
  <2>. QED  BY <2>1, <2>2, <2>3, <2>4
<1>. QED  BY <1>1, <1>4, <1>6, <1>7 DEF Range

(* Joining two sequences without duplicates that share no element.         *)
LEMMA ConcatElements ==
  ASSUME NEW S, NEW s \in Seq(S), NEW t \in Seq(S)
  PROVE  /\ s \o t \in Seq(S)
         /\ Range(s \o t) = Range(s) \cup Range(t)
         /\ IsInjective(s) /\ IsInjective(t) /\ Range(s) \cap Range(t) = {}
              => IsInjective(s \o t)
<1>1. /\ s \o t \in Seq(S)
      /\ Len(s \o t) = Len(s) + Len(t)
      /\ \A i \in 1 .. Len(s) + Len(t) :
           (s \o t)[i] = IF i <= Len(s) THEN s[i] ELSE t[i - Len(s)]
      /\ Len(s) \in Nat /\ Len(t) \in Nat
      /\ DOMAIN s = 1 .. Len(s) /\ DOMAIN t = 1 .. Len(t)
  BY ConcatProperties, LenProperties
<1>2. DOMAIN (s \o t) = 1 .. Len(s) + Len(t)
  BY <1>1, LenProperties
<1>3. ASSUME IsInjective(s), IsInjective(t), Range(s) \cap Range(t) = {},
             NEW i \in 1 .. Len(s) + Len(t), NEW j \in 1 .. Len(s) + Len(t),
             (s \o t)[i] = (s \o t)[j]
      PROVE  i = j
  <2>1. \A k \in 1 .. Len(s) + Len(t) :
          IF k <= Len(s) THEN k \in DOMAIN s /\ (s \o t)[k] = s[k]
                         ELSE k - Len(s) \in DOMAIN t /\ (s \o t)[k] = t[k - Len(s)]
    BY <1>1
  <2>2. \A k \in DOMAIN s, l \in DOMAIN t : s[k] # t[l]
    BY <1>3 DEF Range
  <2>3. CASE i <= Len(s) /\ j <= Len(s)
    BY <2>1, <2>3, <1>3 DEF IsInjective
  <2>4. CASE ~(i <= Len(s)) /\ ~(j <= Len(s))
    <3>1. i - Len(s) = j - Len(s)
      BY <2>1, <2>4, <1>3 DEF IsInjective
    <3>. QED  BY <3>1, <1>1
  <2>. QED  BY <2>1, <2>2, <2>3, <2>4, <1>3
<1>. QED  BY <1>1, <1>2, <1>3, RangeConcatenation DEF IsInjective

(* Among finitely many positions, each has a rank of its own and every     *)
(* rank up to their number is taken.                                       *)
LEMMA RanksAreUnique ==
  ASSUME NEW m \in Nat, NEW P \in SUBSET (1 .. m)
  PROVE  /\ Cardinality(P) \in Nat
         /\ \A i \in P : RankIn(P, i) \in 1 .. Cardinality(P)
         /\ \A i, j \in P : RankIn(P, i) = RankIn(P, j) => i = j
         /\ \A k \in 1 .. Cardinality(P) : \E i \in P : RankIn(P, i) = k
<1>. DEFINE Upto(i) == {j \in P : j <= i}
            f == [i \in P |-> RankIn(P, i)]
            n == Cardinality(P)
<1>0. P \subseteq Int
  OBVIOUS
<1>1. IsFiniteSet(P) /\ n \in Nat
  <2>1. IsFiniteSet(1 .. m)
    BY FS_Interval
  <2>2. IsFiniteSet(P)
    BY <2>1, FS_Subset
  <2>. QED  BY <2>2, FS_CardinalityType
<1>2. \A i \in P : IsFiniteSet(Upto(i)) /\ RankIn(P, i) = Cardinality(Upto(i))
  BY <1>1, FS_Subset DEF RankIn
<1>3. \A i \in P : RankIn(P, i) \in 1 .. n
  <2>. SUFFICES ASSUME NEW i \in P  PROVE  RankIn(P, i) \in 1 .. n
    OBVIOUS
  <2>1. i \in Upto(i)
    OBVIOUS
  <2>2. Cardinality(Upto(i)) \in Nat /\ Cardinality(Upto(i)) # 0
    BY <2>1, <1>2, FS_CardinalityType, FS_EmptySet
  <2>3. Cardinality(Upto(i)) <= n
    BY <1>1, FS_Subset
  <2>. QED  BY <2>2, <2>3, <1>1, <1>2
<1>4. ASSUME NEW i \in P, NEW j \in P, i < j
      PROVE  RankIn(P, i) # RankIn(P, j)
  <2>. i \in Int /\ j \in Int /\ \A k \in P : k \in Int
    BY <1>0
  <2>0. j <= j /\ ~(j <= i) /\ \A k \in P : k <= i => k <= j
    BY <1>4
  <2>1. Upto(i) \in SUBSET Upto(j) /\ j \in Upto(j) /\ j \notin Upto(i)
    BY <2>0
  <2>2. Cardinality(Upto(j)) = Cardinality(Upto(i)) => Upto(j) = Upto(i)
    BY <2>1, <1>2, FS_Subset
  <2>. QED  BY <2>1, <2>2, <1>2
<1>5. \A i, j \in P : RankIn(P, i) = RankIn(P, j) => i = j
  BY <1>4
<1>6. f \in Injection(P, 1 .. n)
  BY <1>3, <1>5 DEF Injection, IsInjective
<1>7. IsFiniteSet(1 .. n) /\ Cardinality(1 .. n) = n
  BY <1>1, FS_Interval
<1>8. f \in Surjection(P, 1 .. n)
  BY <1>6, <1>7, FS_Injection
<1>9. \A k \in 1 .. n : \E i \in P : f[i] = k
  BY <1>8 DEF Surjection
<1>. QED  BY <1>1, <1>3, <1>5, <1>9

(* Filtering a list leaves the members asked for and no others.            *)
LEMMA KeepOnlyElements ==
  ASSUME NEW S, NEW s \in Seq(S), NEW K
  PROVE  /\ KeepOnly(s, K) \in Seq(S)
         /\ Range(KeepOnly(s, K)) = Range(s) \cap K
         /\ IsInjective(s) => IsInjective(KeepOnly(s, K))
<1>. DEFINE P == KeptAt(s, K)
            n == Cardinality(P)
            at(k) == CHOOSE i \in P : RankIn(P, i) = k
            t == [k \in 1 .. n |-> s[at(k)]]
<1>1. /\ Len(s) \in Nat /\ DOMAIN s = 1 .. Len(s)
      /\ \A i \in 1 .. Len(s) : s[i] \in S
      /\ P \in SUBSET (1 .. Len(s))
  BY LenProperties, ElementOfSeq DEF KeptAt
<1>2. /\ n \in Nat
      /\ \A i \in P : RankIn(P, i) \in 1 .. n
      /\ \A i, j \in P : RankIn(P, i) = RankIn(P, j) => i = j
      /\ \A k \in 1 .. n : \E i \in P : RankIn(P, i) = k
  <2>. HIDE DEF P
  <2>. QED  BY <1>1, RanksAreUnique
<1>3. \A k \in 1 .. n : at(k) \in P /\ RankIn(P, at(k)) = k
  <2>. HIDE DEF P
  <2>. QED  BY <1>2
<1>4. \A i \in P : at(RankIn(P, i)) = i
  <2>. HIDE DEF P
  <2>. QED  BY <1>2, <1>3
<1>5. CASE Range(s) \subseteq K
  BY <1>5 DEF KeepOnly
<1>6. CASE ~(Range(s) \subseteq K)
  <2>1. KeepOnly(s, K) = t
    BY <1>6 DEF KeepOnly
  <2>2. \A i \in P : i \in DOMAIN s /\ s[i] \in K
    BY DEF KeptAt
  <2>3. \A i \in DOMAIN s : s[i] \in K => i \in P
    BY DEF KeptAt
  <2>. HIDE DEF P, at
  <2>4. DOMAIN t = 1 .. n /\ \A k \in 1 .. n : t[k] = s[at(k)] /\ t[k] \in S
    BY <1>1, <1>3
  <2>5. t \in Seq(S)
    BY <2>4, <1>2, SeqDef
  <2>6. Range(t) \subseteq Range(s) \cap K
    BY <2>2, <2>4, <1>3 DEF Range
  <2>7. ASSUME NEW i \in DOMAIN s, s[i] \in K  PROVE  s[i] \in Range(t)
    <3>1. i \in P /\ RankIn(P, i) \in 1 .. n /\ t[RankIn(P, i)] = s[i]
      BY <2>3, <2>4, <2>7, <1>2, <1>4
    <3>. QED  BY <3>1, <2>4 DEF Range
  <2>8. Range(s) \cap K \subseteq Range(t)
    BY <2>7 DEF Range
  <2>9. ASSUME IsInjective(s), NEW k \in 1 .. n, NEW l \in 1 .. n, t[k] = t[l]
        PROVE  k = l
    <3>1. at(k) = at(l)
      BY <2>2, <2>4, <2>9, <1>3 DEF IsInjective
    <3>. QED  BY <3>1, <1>3
  <2>10. IsInjective(s) => IsInjective(t)
    BY <2>4, <2>9 DEF IsInjective
  <2>. QED  BY <2>1, <2>5, <2>6, <2>8, <2>10
<1>. QED  BY <1>5, <1>6

(* Popping n times from the end: what comes off, and what is left.         *)
LEMMA PopElements ==
  ASSUME NEW S, NEW s \in Seq(S), NEW n \in Nat, n <= Len(s), IsInjective(s)
  PROVE  /\ Pops(s, n) \in Seq(S) /\ Len(Pops(s, n)) = n /\ IsInjective(Pops(s, n))
         /\ Range(Pops(s, n)) \subseteq Range(s)
         /\ AfterPops(s, n) \in Seq(S) /\ Len(AfterPops(s, n)) = Len(s) - n
         /\ IsInjective(AfterPops(s, n))
         /\ Range(AfterPops(s, n)) = Range(s) \ Range(Pops(s, n))
<1>. DEFINE k == Len(s) - n
            p == Pops(s, n)
            t == AfterPops(s, n)
<1>1. /\ Len(s) \in Nat /\ DOMAIN s = 1 .. Len(s) /\ k \in Nat
      /\ \A i \in 1 .. Len(s) : s[i] \in S
  BY LenProperties, ElementOfSeq
<1>2. /\ p \in [1 .. n -> S] /\ DOMAIN p = 1 .. n
      /\ \A i \in 1 .. n : p[i] = s[Len(s) + 1 - i] /\ Len(s) + 1 - i \in k + 1 .. Len(s)
  BY <1>1 DEF Pops
<1>. HIDE DEF p
<1>3. p \in Seq(S) /\ Len(p) = n
  BY <1>2
<1>. DEFINE u(i) == Len(s) + 1 - i
<1>4. IsInjective(p)
  <2>. SUFFICES ASSUME NEW i \in 1 .. n, NEW j \in 1 .. n, p[i] = p[j]  PROVE i = j
    BY <1>2 DEF IsInjective
  <2>1. u(i) \in DOMAIN s /\ u(j) \in DOMAIN s
    BY <1>1
  <2>2. s[u(i)] = s[u(j)]
    BY <1>2
  <2>3. u(i) = u(j)
    BY <2>1, <2>2, Zenon DEF IsInjective
  <2>. QED  BY <2>3, <1>1
<1>5. Range(p) = {s[j] : j \in k + 1 .. Len(s)}
  <2>1. ASSUME NEW j \in k + 1 .. Len(s)
        PROVE  s[j] \in Range(p)
    <3>1. Len(s) + 1 - j \in 1 .. n /\ p[Len(s) + 1 - j] = s[j]
      BY <1>1, <1>2
    <3>. QED  BY <3>1, <1>2 DEF Range
  <2>2. Range(p) = {p[i] : i \in 1 .. n}
    BY <1>2 DEF Range
  <2>3. \A i \in 1 .. n : p[i] \in {s[j] : j \in k + 1 .. Len(s)}
    BY <1>2
  <2>. QED  BY <2>1, <2>2, <2>3
<1>6. /\ t \in Seq(S) /\ Len(t) = k /\ DOMAIN t = 1 .. k
      /\ \A j \in 1 .. k : t[j] = s[j]
  <2>1. 1 \in Int /\ k \in Int /\ \A i \in 1 .. k : s[i] \in S
    BY <1>1
  <2>2. /\ t \in Seq(S) /\ Len(t) = IF 1 <= k THEN k - 1 + 1 ELSE 0
        /\ \A i \in 1 .. k - 1 + 1 : t[i] = s[1 + i - 1]
    BY <2>1, SubSeqProperties DEF AfterPops
  <2>. HIDE DEF t
  <2>3. Len(t) = k /\ \A i \in 1 .. k : t[i] = s[i]
    BY <2>2, <1>1
  <2>4. DOMAIN t = 1 .. k
    BY <2>2, <2>3, LenProperties
  <2>. QED  BY <2>2, <2>3, <2>4
<1>. HIDE DEF t
<1>7. IsInjective(t)
  <2>1. \A i \in DOMAIN t : i \in DOMAIN s /\ t[i] = s[i]
    BY <1>1, <1>6
  <2>. QED  BY <2>1, Zenon DEF IsInjective
<1>8. Range(t) = {s[j] : j \in 1 .. k}
  BY <1>6 DEF Range
<1>9. Range(s) = {s[j] : j \in 1 .. k} \cup {s[j] : j \in k + 1 .. Len(s)}
  <2>1. Range(s) = {s[j] : j \in 1 .. Len(s)}
    BY <1>1 DEF Range
  <2>. QED  BY <2>1, <1>1
<1>10. ASSUME NEW i \in 1 .. k, NEW j \in k + 1 .. Len(s)  PROVE s[i] # s[j]
  <2>1. i \in DOMAIN s /\ j \in DOMAIN s /\ i # j
    BY <1>1
  <2>. QED  BY <2>1, Zenon DEF IsInjective
<1>11. Range(p) \subseteq Range(s) /\ Range(t) = Range(s) \ Range(p)
  BY <1>5, <1>8, <1>9, <1>10
<1>. QED  BY <1>3, <1>4, <1>6, <1>7, <1>11 DEF p, t

(* The empty sequence.                                                     *)
LEMMA EmptyElements ==
  /\ \A S : <<>> \in Seq(S)
  /\ Range(<<>>) = {}
  /\ IsInjective(<<>>)
  /\ Len(<<>>) = 0
BY DEF Range, IsInjective

(* A sequence with no elements is empty, and conversely.                   *)
LEMMA NoElements ==
  ASSUME NEW S, NEW s \in Seq(S)
  PROVE  Range(s) = {} <=> s = <<>>
<1>1. Len(s) \in Nat /\ DOMAIN s = 1 .. Len(s) /\ (s # <<>> => Len(s) # 0)
  BY LenProperties, EmptySeq
<1>2. s # <<>> => s[1] \in Range(s)
  BY <1>1 DEF Range
<1>. QED  BY <1>2, EmptyElements

----------------------------------------------------------------------------
(* A finite set of numbers has a largest: were there a larger one for      *)
(* each, the numbers of those at or below would be too few to be distinct. *)
LEMMA FiniteMax ==
  ASSUME NEW S \in SUBSET Int, IsFiniteSet(S), S # {}
  PROVE  Max(S) \in S /\ \A y \in S : Max(S) >= y
<1>. DEFINE Upto(x) == {y \in S : y <= x}
            n == Cardinality(S)
            f == [x \in S |-> Cardinality(Upto(x))]
<1>1. \E x \in S : \A y \in S : x >= y
  <2>. SUFFICES ASSUME \A x \in S : \E y \in S : ~(x >= y)  PROVE FALSE
    OBVIOUS
  <2>1. n \in Nat \ {0}
    BY FS_CardinalityType, FS_EmptySet
  <2>2. \A x \in S : IsFiniteSet(Upto(x)) /\ f[x] = Cardinality(Upto(x))
    BY FS_Subset
  <2>3. \A x \in S : f[x] \in 1 .. n - 1
    <3>. SUFFICES ASSUME NEW x \in S PROVE f[x] \in 1 .. n - 1
      OBVIOUS
    <3>1. x \in Upto(x) /\ Upto(x) \in SUBSET S /\ Upto(x) # S
      OBVIOUS
    <3>2. f[x] \in Nat /\ f[x] # 0 /\ f[x] <= n /\ f[x] # n
      BY <2>2, <3>1, FS_Subset, FS_CardinalityType, FS_EmptySet
    <3>. QED  BY <2>1, <3>2
  <2>4. \A x \in S, y \in S : x < y => f[x] # f[y]
    <3>. SUFFICES ASSUME NEW x \in S, NEW y \in S, x < y PROVE f[x] # f[y]
      OBVIOUS
    <3>. x \in Int /\ y \in Int /\ \A z \in S : z \in Int
      OBVIOUS
    <3>0. y <= y /\ ~(y <= x) /\ \A z \in S : z <= x => z <= y
      OBVIOUS
    <3>1. Upto(x) \in SUBSET Upto(y) /\ y \in Upto(y) /\ y \notin Upto(x)
      BY <3>0
    <3>. QED  BY <2>2, <3>1, FS_Subset
  <2>5. IsFiniteSet(1 .. n - 1) /\ Cardinality(1 .. n - 1) < n
    <3>1. 1 \in Int /\ n - 1 \in Int
      BY <2>1
    <3>2. IsFiniteSet(1 .. n - 1) /\ Cardinality(1 .. n - 1) = IF 1 > n - 1 THEN 0 ELSE n - 1 - 1 + 1
      BY <3>1, FS_Interval
    <3>. QED  BY <2>1, <3>2
  <2>6. f \in [S -> 1 .. n - 1]
    BY <2>3
  <2>. HIDE DEF f, n
  <2>7. \E x, y \in S : x # y /\ f[x] = f[y]
    BY <2>5, <2>6, FS_PigeonHole DEF n
  <2>. QED  BY <2>4, <2>7
<1>. QED  BY <1>1, Zenon DEF Max

(* Finitely many things have finitely many values.                         *)
LEMMA FiniteValues ==
  ASSUME NEW S, IsFiniteSet(S), NEW f
  PROVE  IsFiniteSet({f[x] : x \in S})
<1>. DEFINE T == {f[x] : x \in S}
            g == [x \in S |-> f[x]]
<1>1. g \in Surjection(S, T)
  BY DEF Surjection
<1>. HIDE DEF g, T
<1>2. IsFiniteSet(T)
  BY <1>1, FS_Surjection
<1>. QED  BY <1>2 DEF T

(* Induction up to L, for a set of numbers.                                *)
LEMMA CountUp ==
  ASSUME NEW L \in Nat, NEW P \in SUBSET (0 .. L), 0 \in P,
         \A n \in P : n < L => n + 1 \in P
  PROVE  P = 0 .. L
<1>. DEFINE Q == {m \in 0 .. L : \A n \in 0 .. m : n \in P}
            k == Max(Q)
<1>1. 0 \in Q /\ Q \in SUBSET (0 .. L)
  OBVIOUS
<1>2. k \in Q /\ \A m \in Q : k >= m
  <2>1. IsFiniteSet(0 .. L)
    BY FS_Interval
  <2>. HIDE DEF Q
  <2>2. IsFiniteSet(Q)
    BY <1>1, <2>1, FS_Subset
  <2>3. Q \in SUBSET Int /\ Q # {}
    BY <1>1
  <2>. QED  BY <2>2, <2>3, FiniteMax
<1>. HIDE DEF k
<1>3. k = L
  <2>. SUFFICES ASSUME k < L PROVE FALSE
    BY <1>2
  <2>1. k + 1 \in Q
    BY <1>2
  <2>. QED  BY <2>1, <1>2
<1>. QED  BY <1>2, <1>3

(* The sums of the first members of s, up to each position.                *)
IsSumsOf(f, s) ==
  f = [n \in 0 .. Len(s) |-> IF n = 0 THEN 0 ELSE f[n - 1] + s[n]]

LEMMA SumsExist ==
  ASSUME NEW s \in Seq(Int)
  PROVE  \E f : IsSumsOf(f, s) /\ f \in [0 .. Len(s) -> Int]
<1>. DEFINE Good(g, n) == /\ g \in [0 .. n -> Int] /\ g[0] = 0
                          /\ \A k \in 1 .. n : g[k] = g[k - 1] + s[k]
            P == {n \in 0 .. Len(s) : \E g : Good(g, n)}
<1>1. Len(s) \in Nat /\ \A k \in 1 .. Len(s) : s[k] \in Int
  BY LenProperties, ElementOfSeq
<1>2. 0 \in P
  <2>1. Good([k \in 0 .. 0 |-> 0], 0)
    OBVIOUS
  <2>. HIDE DEF Good
  <2>. QED  BY <2>1, <1>1
<1>3. ASSUME NEW n \in P, n < Len(s)
      PROVE  n + 1 \in P
  <2>1. PICK g : Good(g, n)
    OBVIOUS
  <2>. DEFINE h == [k \in 0 .. n + 1 |-> IF k <= n THEN g[k] ELSE g[n] + s[n + 1]]
  <2>2. n \in Nat /\ n + 1 \in 0 .. Len(s) /\ s[n + 1] \in Int
    BY <1>1, <1>3
  <2>3. h \in [0 .. n + 1 -> Int] /\ h[0] = 0
    BY <2>1, <2>2
  <2>4. ASSUME NEW k \in 1 .. n + 1
        PROVE  h[k] = h[k - 1] + s[k]
    <3>1. CASE k <= n  BY <3>1, <2>1, <2>2
    <3>2. CASE k = n + 1  BY <3>2, <2>1, <2>2
    <3>. QED  BY <3>1, <3>2, <2>2
  <2>5. Good(h, n + 1)
    BY <2>3, <2>4
  <2>. QED  BY <2>2, <2>5
<1>4. Len(s) \in P
  <2>1. P \in SUBSET (0 .. Len(s))
    OBVIOUS
  <2>. HIDE DEF P
  <2>. QED  BY <1>1, <1>2, <1>3, <2>1, CountUp
<1>5. PICK g : Good(g, Len(s))
  BY <1>4
<1>6. g = [n \in 0 .. Len(s) |-> IF n = 0 THEN 0 ELSE g[n - 1] + s[n]]
  BY <1>1, <1>5
<1>. QED  BY <1>5, <1>6 DEF IsSumsOf

(* Whoever adds up the list from its first member on gets SumOf.           *)
LEMMA SumIs ==
  ASSUME NEW s \in Seq(Int), NEW f, f[0] = 0,
         \A n \in 1 .. Len(s) : f[n] = f[n - 1] + s[n]
  PROVE  SumOf(s) = f[Len(s)]
<1>. DEFINE g == CHOOSE g : IsSumsOf(g, s)
            P == {n \in 0 .. Len(s) : f[n] = g[n]}
<1>1. Len(s) \in Nat
  BY LenProperties
<1>2. IsSumsOf(g, s) /\ SumOf(s) = g[Len(s)]
  <2>1. IsSumsOf(g, s)
    BY SumsExist, Zenon
  <2>2. SumOf(s) = g[Len(s)]
    BY Zenon DEF SumOf, IsSumsOf
  <2>. QED  BY <2>1, <2>2
<1>. HIDE DEF g
<1>3. g[0] = 0 /\ \A n \in 1 .. Len(s) : g[n] = g[n - 1] + s[n]
  <2>1. g = [n \in 0 .. Len(s) |-> IF n = 0 THEN 0 ELSE g[n - 1] + s[n]]
    BY <1>2 DEF IsSumsOf
  <2>2. \A n \in 0 .. Len(s) : g[n] = IF n = 0 THEN 0 ELSE g[n - 1] + s[n]
    BY <2>1, Zenon
  <2>. QED  BY <1>1, <2>2
<1>4. 0 \in P
  BY <1>1, <1>3
<1>5. ASSUME NEW n \in P, n < Len(s)
      PROVE  n + 1 \in P
  <2>1. n + 1 \in 1 .. Len(s) /\ n + 1 - 1 = n /\ f[n] = g[n]
    BY <1>1, <1>5
  <2>2. f[n + 1] = f[n] + s[n + 1] /\ g[n + 1] = g[n] + s[n + 1]
    BY <2>1, <1>3
  <2>. QED  BY <2>1, <2>2
<1>6. Len(s) \in P
  <2>1. P \in SUBSET (0 .. Len(s))
    OBVIOUS
  <2>. HIDE DEF P
  <2>. QED  BY <1>1, <1>4, <1>5, <2>1, CountUp
<1>. QED  BY <1>2, <1>6

LEMMA SumSteps ==
  ASSUME NEW s \in Seq(Int)
  PROVE  \E f : /\ f[0] = 0
                /\ \A n \in 1 .. Len(s) : f[n] = f[n - 1] + s[n]
                /\ \A n \in 0 .. Len(s) : f[n] \in Int
<1>1. PICK f : IsSumsOf(f, s) /\ f \in [0 .. Len(s) -> Int]
  BY SumsExist
<1>2. \A n \in 0 .. Len(s) : f[n] = IF n = 0 THEN 0 ELSE f[n - 1] + s[n]
  <2>1. f = [n \in 0 .. Len(s) |-> IF n = 0 THEN 0 ELSE f[n - 1] + s[n]]
    BY <1>1 DEF IsSumsOf
  <2>. QED  BY <2>1, Zenon
<1>3. Len(s) \in Nat
  BY LenProperties
<1>4. f[0] = 0
  BY <1>2, <1>3
<1>5. ASSUME NEW n \in 1 .. Len(s)
      PROVE  f[n] = f[n - 1] + s[n]
  <2>1. n \in 0 .. Len(s) /\ n # 0
    BY <1>3
  <2>. QED  BY <2>1, <1>2
<1>6. \A n \in 0 .. Len(s) : f[n] \in Int
  BY <1>1
<1>. QED  BY <1>4, <1>5, <1>6

(* Sums of whole numbers are whole, of naturals natural.                   *)
LEMMA SumType ==
  ASSUME NEW s \in Seq(Int)
  PROVE  /\ SumOf(s) \in Int
         /\ s \in Seq(Nat) => SumOf(s) \in Nat
<1>0. Len(s) \in Nat
  BY LenProperties
<1>2. PICK f : /\ f[0] = 0 /\ \A n \in 1 .. Len(s) : f[n] = f[n - 1] + s[n]
               /\ \A n \in 0 .. Len(s) : f[n] \in Int
  BY SumSteps
<1>3. SumOf(s) = f[Len(s)]
  BY <1>2, SumIs
<1>4. ASSUME s \in Seq(Nat)
      PROVE  f[Len(s)] \in Nat
  <2>. DEFINE P == {n \in 0 .. Len(s) : f[n] \in Nat}
  <2>1. \A n \in 1 .. Len(s) : s[n] \in Nat
    BY <1>4, ElementOfSeq
  <2>2. 0 \in P
    BY <1>0, <1>2
  <2>3. ASSUME NEW n \in P, n < Len(s)
        PROVE  n + 1 \in P
    <3>1. n + 1 \in 1 .. Len(s) /\ n + 1 - 1 = n /\ f[n] \in Nat
      BY <1>0, <2>3
    <3>. QED  BY <1>2, <2>1, <3>1
  <2>4. P \in SUBSET (0 .. Len(s))
    OBVIOUS
  <2>5. Len(s) \in P
    <3>. HIDE DEF P
    <3>. QED  BY <1>0, <2>2, <2>3, <2>4, CountUp
  <2>. QED  BY <2>5
<1>. QED  BY <1>0, <1>2, <1>3, <1>4

(* One number more at the end, and one less wherever it was.               *)
LEMMA SumAppend ==
  ASSUME NEW s \in Seq(Int), NEW x \in Int
  PROVE  SumOf(Append(s, x)) = SumOf(s) + x
<1>. DEFINE t == Append(s, x)
<1>0. /\ Len(s) \in Nat /\ t \in Seq(Int) /\ Len(t) = Len(s) + 1
      /\ \A n \in 1 .. Len(s) : t[n] = s[n]
      /\ t[Len(s) + 1] = x
  BY LenProperties, AppendProperties
<1>. HIDE DEF t
<1>1. PICK f : f[0] = 0 /\ \A n \in 1 .. Len(s) : f[n] = f[n - 1] + s[n]
  BY SumSteps
<1>. DEFINE h == [n \in 0 .. Len(t) |-> IF n <= Len(s) THEN f[n] ELSE f[Len(s)] + x]
<1>2. h[0] = 0
  BY <1>0, <1>1
<1>3. ASSUME NEW n \in 1 .. Len(t)
      PROVE  h[n] = h[n - 1] + t[n]
  <2>1. CASE n <= Len(s)
    <3>1. n \in 1 .. Len(s) /\ n - 1 \in 0 .. Len(t) /\ n - 1 <= Len(s)
      BY <2>1, <1>0
    <3>. QED  BY <2>1, <3>1, <1>0, <1>1
  <2>2. CASE n = Len(s) + 1
    <3>1. h[n] = f[Len(s)] + x /\ h[n - 1] = f[Len(s)] /\ t[n] = x
      BY <2>2, <1>0
    <3>. QED  BY <3>1
  <2>. QED  BY <2>1, <2>2, <1>0
<1>4. h[Len(t)] = f[Len(s)] + x
  BY <1>0
<1>. HIDE DEF h
<1>5. SumOf(t) = h[Len(t)] /\ SumOf(s) = f[Len(s)]
  BY <1>0, <1>1, <1>2, <1>3, SumIs
<1>. QED  BY <1>4, <1>5 DEF t

LEMMA SumRemoveAt ==
  ASSUME NEW s \in Seq(Int), NEW i \in DOMAIN s
  PROVE  SumOf(RemoveAt(s, i)) = SumOf(s) - s[i]
<1>. DEFINE t == RemoveAt(s, i)
<1>0. /\ Len(s) \in Nat /\ i \in 1 .. Len(s) /\ s[i] \in Int
      /\ t \in Seq(Int) /\ Len(t) = Len(s) - 1
      /\ \A j \in 1 .. Len(s) - 1 : t[j] = IF j < i THEN s[j] ELSE s[j + 1]
  BY LenProperties, ElementOfSeq, RemoveAtPositions
<1>. HIDE DEF t
<1>1. PICK f : /\ f[0] = 0 /\ \A n \in 1 .. Len(s) : f[n] = f[n - 1] + s[n]
               /\ \A n \in 0 .. Len(s) : f[n] \in Int
  BY SumSteps
<1>. DEFINE h == [n \in 0 .. Len(t) |-> IF n < i THEN f[n] ELSE f[n + 1] - s[i]]
<1>2. h[0] = 0
  BY <1>0, <1>1
<1>3. ASSUME NEW n \in 1 .. Len(t)
      PROVE  h[n] = h[n - 1] + t[n]
  <2>0. /\ n \in 1 .. Len(s) - 1 /\ n \in 1 .. Len(s) /\ n + 1 \in 1 .. Len(s)
        /\ n - 1 \in 0 .. Len(t) /\ n \in 0 .. Len(t)
        /\ n - 1 + 1 = n /\ n + 1 - 1 = n /\ n - 1 \in 0 .. Len(s)
    BY <1>0
  <2>1. /\ f[n] = f[n - 1] + s[n] /\ f[n + 1] = f[n] + s[n + 1]
        /\ f[n - 1] \in Int /\ f[n] \in Int /\ f[n + 1] \in Int
    BY <2>0, <1>1
  <2>. s[n] \in Int /\ s[n + 1] \in Int
    BY <2>0, ElementOfSeq
  <2>2. CASE n < i
    <3>1. h[n] = f[n] /\ h[n - 1] = f[n - 1] /\ t[n] = s[n]
      BY <2>2, <2>0, <1>0
    <3>. QED  BY <2>1, <3>1
  <2>3. CASE n = i
    <3>1. h[n] = f[n + 1] - s[n]
      BY <2>3, <2>0
    <3>2. h[n - 1] = f[n - 1]
      BY <2>3, <2>0
    <3>3. t[n] = s[n + 1]
      <4>1. ~(n < i)
        BY <2>3, <2>0
      <4>. QED  BY <4>1, <2>0, <1>0, Zenon
    <3>4. f[n + 1] - s[n] = f[n - 1] + s[n + 1]
      <4>. HIDE DEF h
      <4>1. PICK a \in Int, b \in Int, c \in Int, x \in Int, y \in Int :
               a = f[n - 1] /\ b = f[n] /\ c = f[n + 1] /\ x = s[n] /\ y = s[n + 1]
        BY <2>1, Zenon
      <4>2. b = a + x /\ c = b + y
        BY <2>1, <4>1, Zenon
      <4>3. c - x = a + y
        BY <4>2
      <4>. QED  BY <4>1, <4>3, Zenon
    <3>. QED  BY <3>1, <3>2, <3>3, <3>4, Zenon
  <2>4. CASE n > i
    <3>1. h[n] = f[n + 1] - s[i]
      BY <2>4, <2>0, <1>0
    <3>2. h[n - 1] = f[n] - s[i]
      <4>1. ~(n - 1 < i)
        BY <2>4, <2>0, <1>0
      <4>. QED  BY <4>1, <2>0, Zenon
    <3>3. t[n] = s[n + 1]
      BY <2>4, <2>0, <1>0
    <3>4. f[n + 1] - s[i] = f[n] - s[i] + s[n + 1]
      <4>. HIDE DEF h
      <4>1. s[i] \in Int
        BY <1>0
      <4>2. f[n + 1] = f[n] + s[n + 1] /\ f[n] \in Int
        BY <2>1
      <4>. QED  BY <4>1, <4>2, SMT
    <3>. QED  BY <3>1, <3>2, <3>3, <3>4, Zenon
  <2>. QED  BY <2>2, <2>3, <2>4, <1>0
<1>4. h[Len(t)] = f[Len(s)] - s[i]
  <2>1. CASE Len(t) < i
    <3>1. Len(t) = i - 1 /\ Len(s) = i /\ h[Len(t)] = f[i - 1] /\ i - 1 \in 0 .. Len(s)
      BY <2>1, <1>0
    <3>2. f[i] = f[i - 1] + s[i] /\ f[i - 1] \in Int
      BY <3>1, <1>0, <1>1
    <3>. QED  BY <3>1, <3>2, <1>0
  <2>2. CASE ~(Len(t) < i)
    BY <2>2, <1>0
  <2>. QED  BY <2>1, <2>2
<1>. HIDE DEF h
<1>5. SumOf(t) = h[Len(t)] /\ SumOf(s) = f[Len(s)]
  BY <1>0, <1>1, <1>2, <1>3, SumIs
<1>. QED  BY <1>4, <1>5 DEF t

LEMMA SumEmpty == SumOf(<<>>) = 0
<1>1. <<>> \in Seq(Int) /\ Len(<<>>) = 0
  BY EmptySeq
<1>. DEFINE f == [n \in 0 .. 0 |-> 0]
<1>2. f[0] = 0 /\ \A n \in 1 .. Len(<<>>) : f[n] = f[n - 1] + <<>>[n]
  BY <1>1
<1>. HIDE DEF f
<1>. QED  BY <1>1, <1>2, SumIs

=============================================================================
