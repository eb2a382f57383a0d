---------------------------- MODULE LaunchProofs ----------------------------
(***************************************************************************)
(* Theorems about what happens to a model's weights when they are loaded:  *)
(* quantized, for every group size and all weights, or split, for every    *)
(* number of processes and every size of a layer.                          *)
(***************************************************************************)
EXTENDS TensorParallel, Quantization, SequenceLemmas

----------------------------------------------------------------------------
(* Quantization.                                                           *)

(* A rounded quotient is the nearest there is, and a quotient from -7 to 7 *)
(* is rounded to a number from -7 to 7.                                    *)
LEMMA RoundNearest ==
  ASSUME NEW n \in Int, NEW d \in Nat \ {0}
  PROVE  /\ Round(n, d) \in Int
         /\ 2 * Magnitude(n - Round(n, d) * d) <= d
         /\ -7 * d <= n /\ n <= 7 * d => Round(n, d) \in -7 .. 7
<1>. DEFINE q == n \div d
            m == n % d
<1>1. q \in Int /\ m \in 0 .. d - 1 /\ n = d * q + m
  OBVIOUS
<1>2. -7 * d <= n => q >= -7
  OBVIOUS
<1>3. n <= 7 * d => q <= 7 /\ (q = 7 => m = 0)
  OBVIOUS
<1>. HIDE DEF q, m
<1>4. Round(n, d) = IF 2 * m > d \/ (2 * m = d /\ q % 2 = 1) THEN q + 1 ELSE q
  BY DEF Round, q, m
<1>5. CASE Round(n, d) = q + 1 /\ 2 * m >= d
  <2>1. n - Round(n, d) * d = m - d
    BY <1>1, <1>5
  <2>2. 2 * Magnitude(m - d) <= d
    BY <1>1, <1>5 DEF Magnitude
  <2>3. m # 0
    BY <1>1, <1>5
  <2>4. -7 * d <= n /\ n <= 7 * d => q + 1 \in -7 .. 7
    BY <1>1, <1>2, <1>3, <2>3
  <2>. QED  BY <1>1, <1>5, <2>1, <2>2, <2>4
<1>6. CASE Round(n, d) = q /\ 2 * m <= d
  <2>1. n - Round(n, d) * d = m
    BY <1>1, <1>6
  <2>2. 2 * Magnitude(m) <= d
    BY <1>1, <1>6 DEF Magnitude
  <2>3. -7 * d <= n /\ n <= 7 * d => q \in -7 .. 7
    BY <1>1, <1>2, <1>3
  <2>. QED  BY <1>1, <1>6, <2>1, <2>2, <2>3
<1>. QED  BY <1>1, <1>4, <1>5, <1>6

(* The scale of a weight's group is the largest magnitude in it.           *)
LEMMA ScaleBounds ==
  ASSUME NEW w \in [Grouped -> WeightValues], NEW c \in Grouped
  PROVE  /\ Scales(w)[GroupOf(c)] \in Nat
         /\ w[c] \in Int /\ Magnitude(w[c]) <= Scales(w)[GroupOf(c)]
<1>. DEFINE g == GroupOf(c)
            mine == {d \in Grouped : GroupOf(d) = g}
            S == {Magnitude(w[d]) : d \in mine}
<1>1. Groups \in Nat /\ Groups * GroupSize \in Nat
  BY GroupAssumption DEF Groups
<1>2. g \in 1 .. Groups
  <2>1. c - 1 \in Nat /\ c - 1 < Groups * GroupSize
    BY <1>1 DEF Grouped
  <2>2. (c - 1) \div GroupSize \in Nat /\ (c - 1) \div GroupSize < Groups
    BY <1>1, <2>1, GroupAssumption
  <2>. QED  BY <1>1, <2>2 DEF GroupOf
<1>3. \A d \in Grouped : w[d] \in Int /\ Magnitude(w[d]) \in Nat
  <2>1. \A x \in Int : Magnitude(x) \in Nat
    BY DEF Magnitude
  <2>2. \A d \in Grouped : w[d] \in Int
    BY CodeAssumption
  <2>. QED  BY <2>1, <2>2
<1>4. S \in SUBSET Int /\ S \subseteq Nat /\ Magnitude(w[c]) \in S
  BY <1>3
<1>5. IsFiniteSet(S)
  <2>1. IsFiniteSet(Grouped)
    BY <1>1, FS_Interval DEF Grouped
  <2>2. IsFiniteSet(mine)
    BY <2>1, FS_Subset
  <2>. DEFINE f == [d \in mine |-> Magnitude(w[d])]
  <2>. HIDE DEF mine
  <2>3. f \in Surjection(mine, S)
    BY DEF Surjection
  <2>. HIDE DEF f, S
  <2>. QED  BY <2>2, <2>3, FS_Surjection
<1>. HIDE DEF g
<1>6. Scales(w)[g] = Max(S)
  BY <1>2 DEF Scales
<1>. HIDE DEF S
<1>7. Max(S) \in S /\ Max(S) >= Magnitude(w[c])
  BY <1>4, <1>5, FiniteMax
<1>. QED  BY <1>3, <1>4, <1>6, <1>7 DEF g

(* Clamping to -8 .. 7 leaves a number from -7 to 7 alone.                 *)
LEMMA ClampKeeps ==
  ASSUME NEW q \in -7 .. 7
  PROVE  Max({-8, Min({7, q})}) = q
<1>1. \A y \in {7, q} : q <= y
  OBVIOUS
<1>2. \A y \in {-8, q} : q >= y
  OBVIOUS
<1>3. Min({7, q}) = q
  <2>1. \E x \in {7, q} : \A y \in {7, q} : x <= y
    BY <1>1
  <2>2. Min({7, q}) \in {7, q} /\ \A y \in {7, q} : Min({7, q}) <= y
    BY <2>1, Zenon DEF Min
  <2>. QED  BY <2>2
<1>4. Max({-8, q}) = q
  <2>1. \E x \in {-8, q} : \A y \in {-8, q} : x >= y
    BY <1>2
  <2>2. Max({-8, q}) \in {-8, q} /\ \A y \in {-8, q} : Max({-8, q}) >= y
    BY <2>1, Zenon DEF Max
  <2>. QED  BY <2>2
<1>. QED  BY <1>3, <1>4

(* The code of a weight, times seven times its scale, is within half a     *)
(* step of the weight.                                                     *)
LEMMA CodeNear ==
  ASSUME NEW w \in [Grouped -> WeightValues], NEW c \in Grouped, NEW nan \in NaNCodes
  PROVE  2 * Magnitude(7 * w[c] - Code(w, c, nan) * Scales(w)[GroupOf(c)])
           <= Scales(w)[GroupOf(c)]
<1>. DEFINE a == Scales(w)[GroupOf(c)]
            x == w[c]
            q == Round(7 * x, a)
<1>1. a \in Nat /\ x \in Int /\ Magnitude(x) <= a /\ nan \in Int
  BY ScaleBounds, CodeAssumption
<1>2. Code(w, c, nan) = IF a = 0 THEN nan ELSE Max({-8, Min({7, q})})
  BY DEF Code
<1>. HIDE DEF a, x
<1>3. CASE a = 0
  <2>1. x = 0 /\ Code(w, c, nan) = nan
    BY <1>1, <1>2, <1>3 DEF Magnitude
  <2>2. 7 * x - nan * a = 0
    BY <1>1, <1>3, <2>1
  <2>. QED  BY <1>3, <2>1, <2>2 DEF Magnitude, a, x
<1>4. CASE a # 0
  <2>1. a \in Nat \ {0} /\ 7 * x \in Int /\ -7 * a <= 7 * x /\ 7 * x <= 7 * a
    BY <1>1, <1>4 DEF Magnitude
  <2>2. q \in -7 .. 7 /\ 2 * Magnitude(7 * x - q * a) <= a
    BY <2>1, RoundNearest
  <2>. HIDE DEF q
  <2>3. Code(w, c, nan) = q
    BY <1>2, <1>4, <2>2, ClampKeeps
  <2>. QED  BY <2>2, <2>3 DEF a, x
<1>. QED  BY <1>3, <1>4

(* The scales dequant_int4 has for a layer.                                *)
ScalesAtHand(l) == IF returned[l] # <<>> THEN returned[l] ELSE stored

(* Where a layer has its own scales, they and its codes are of its weight. *)
QuantInv ==
  /\ DOMAIN weight = Layer /\ DOMAIN codes = Layer /\ DOMAIN returned = Layer
  /\ \A l \in Layer :
       returned[l] # <<>> \/ l \in latest =>
         /\ weight[l] \in [Grouped -> WeightValues]
         /\ ScalesAtHand(l) = Scales(weight[l])
         /\ \A c \in Grouped : \E nan \in NaNCodes : codes[l][c] = Code(weight[l], c, nan)

(* A layer quantized by either method.                                     *)
LEMMA QuantStep ==
  ASSUME QuantInv, [QuantNext]_quantVars
  PROVE  QuantInv'
<1>1. CASE UNCHANGED quantVars
  BY <1>1 DEF quantVars, QuantInv, ScalesAtHand
<1>2. CASE QuantNext
  <2>1. PICK l \in Layer, w \in [Grouped -> WeightValues] : QuantizeAWQ(l, w) \/ QuantizeGPTQ(l, w)
    BY <1>2 DEF QuantNext
  <2>2. PICK nan \in [Grouped -> NaNCodes] :
          codes' = [codes EXCEPT ![l] = [c \in Grouped |-> Code(w, c, nan[c])]]
    BY <2>1 DEF QuantizeAWQ, QuantizeGPTQ, Quantize
  <2>3. weight' = [weight EXCEPT ![l] = w]
    BY <2>1 DEF QuantizeAWQ, QuantizeGPTQ, Quantize
  <2>4. /\ DOMAIN weight' = Layer /\ DOMAIN codes' = Layer
        /\ weight'[l] = w /\ \A c \in Grouped : codes'[l][c] = Code(w, c, nan[c])
        /\ \A r \in Layer \ {l} : weight'[r] = weight[r] /\ codes'[r] = codes[r]
    BY <2>2, <2>3 DEF QuantInv
  <2>5. /\ weight'[l] \in [Grouped -> WeightValues]
        /\ \A c \in Grouped : \E x \in NaNCodes : codes'[l][c] = Code(weight'[l], c, x)
    BY <2>4
  <2>6. CASE QuantizeAWQ(l, w)
    <3>1. /\ returned' = [returned EXCEPT ![l] = Scales(w)] /\ latest' = latest \ {l}
          /\ stored' = stored
      BY <2>6 DEF QuantizeAWQ
    <3>2. DOMAIN returned' = Layer /\ returned'[l] = Scales(w)
          /\ \A r \in Layer \ {l} : returned'[r] = returned[r]
      BY <3>1 DEF QuantInv
    <3>. QED  BY <2>4, <2>5, <3>1, <3>2 DEF QuantInv, ScalesAtHand
  <2>7. CASE QuantizeGPTQ(l, w)
    <3>1. /\ returned' = [returned EXCEPT ![l] = <<>>] /\ latest' = {l} /\ stored' = Scales(w)
      BY <2>7 DEF QuantizeGPTQ
    <3>2. DOMAIN returned' = Layer /\ returned'[l] = <<>>
          /\ \A r \in Layer \ {l} : returned'[r] = returned[r]
      BY <3>1 DEF QuantInv
    <3>. QED  BY <2>4, <2>5, <3>1, <3>2 DEF QuantInv, ScalesAtHand
  <2>. QED  BY <2>1, <2>6, <2>7
<1>. QED  BY <1>1, <1>2

(* With its own layer's scales a weight comes back within half a step, for *)
(* any weights and group size and whatever a NaN becomes as a code.        *)
THEOREM QuantizationError == QuantSpec => []HalfStep
<1>1. QuantInit => QuantInv
  BY DEF QuantInit, QuantInv
<1>2. QuantInv /\ [QuantNext]_quantVars => QuantInv'
  BY QuantStep
<1>3. ASSUME QuantInv  PROVE HalfStep
  <2>. SUFFICES ASSUME NEW l \in Layer, NEW c \in Grouped, returned[l] # <<>> \/ l \in latest
                PROVE  2 * Magnitude(7 * weight[l][c] - Dequantized(l, c))
                         <= Scales(weight[l])[GroupOf(c)]
    BY DEF HalfStep
  <2>1. PICK nan \in NaNCodes :
          /\ weight[l] \in [Grouped -> WeightValues]
          /\ ScalesAtHand(l) = Scales(weight[l])
          /\ codes[l][c] = Code(weight[l], c, nan)
    BY <1>3 DEF QuantInv
  <2>2. Dequantized(l, c) = Code(weight[l], c, nan) * Scales(weight[l])[GroupOf(c)]
    BY <2>1 DEF Dequantized, ScalesAtHand
  <2>. QED  BY <2>1, <2>2, CodeNear
<1>. QED  BY <1>1, <1>2, <1>3, PTL DEF QuantSpec

----------------------------------------------------------------------------
(* Splitting and gathering.                                                *)

LEMMA JobSizes ==
  ASSUME job \in Job
  PROVE  /\ World \in Nat \ {0} /\ Process = 0 .. World - 1
         /\ Len(Whole) = job.heads * HeadDim /\ Len(Whole) \in Nat \ {0}
         /\ Whole \in Seq(Seq(Nat \X Nat)) /\ DOMAIN Whole = 1 .. Len(Whole)
<1>1. /\ job.world \in Nat \ {0} /\ job.heads \in Nat \ {0}
      /\ HeadDim \in Nat \ {0} /\ InFeatures \in Nat \ {0}
  BY WorldAssumption, LayerAssumption DEF Job
<1>. DEFINE n == job.heads * HeadDim
<1>2. n \in Nat \ {0}
  <2>1. \A a, b \in Nat \ {0} : a * b \in Nat \ {0}
    OBVIOUS
  <2>. QED  BY <1>1, <2>1
<1>3. Whole = [o \in 1 .. n |-> [i \in 1 .. InFeatures |-> <<o, i>>]]
  BY DEF Whole
<1>. HIDE DEF n
<1>4. \A o \in 1 .. n : [i \in 1 .. InFeatures |-> <<o, i>>] \in Seq(Nat \X Nat)
  <2>. SUFFICES ASSUME NEW o \in 1 .. n
                PROVE  [i \in 1 .. InFeatures |-> <<o, i>>] \in Seq(Nat \X Nat)
    OBVIOUS
  <2>1. o \in Nat /\ InFeatures \in Nat /\ \A i \in 1 .. InFeatures : i \in Nat
    BY <1>1, <1>2
  <2>2. [i \in 1 .. InFeatures |-> <<o, i>>] \in [1 .. InFeatures -> Nat \X Nat]
    BY <2>1
  <2>. QED  BY <2>1, <2>2
<1>5. Whole \in [1 .. n -> Seq(Nat \X Nat)]
  BY <1>3, <1>4
<1>6. Whole \in Seq(Seq(Nat \X Nat)) /\ Len(Whole) = n
  BY <1>2, <1>5
<1>. QED  BY <1>1, <1>2, <1>5, <1>6 DEF World, Process, n

(* The parts have one size and follow each other without a gap.            *)
LEMMA EqualParts ==
  ASSUME NEW L \in Nat, NEW W \in Nat \ {0}, NEW r \in 0 .. W - 1
  PROVE  /\ L \div W \in Nat /\ r * (L \div W) \in Nat
         /\ (r + 1) * (L \div W) = r * (L \div W) + (L \div W)
         /\ (r + 1) * (L \div W) <= L
         /\ W * (L \div W) = L - (L % W) /\ L % W \in Nat
<1>. DEFINE k == L \div W
            m == L % W
<1>1. k \in Nat /\ m \in Nat /\ m < W /\ L = W * k + m
  OBVIOUS
<1>. HIDE DEF k, m
<1>2. \A x, y \in Nat : x * y \in Nat
  OBVIOUS
<1>3. r * k \in Nat /\ (r + 1) * k = r * k + k
  BY <1>1, <1>2
<1>4. W * k = (r + 1) * k + (W - (r + 1)) * k /\ (W - (r + 1)) * k \in Nat
  <2>1. W - (r + 1) \in Nat
    OBVIOUS
  <2>. QED  BY <1>1, <1>2, <2>1
<1>5. (r + 1) * k <= W * k /\ W * k <= L /\ W * k = L - m
  <2>. DEFINE x == W * k
              y == (r + 1) * k
              z == (W - (r + 1)) * k
  <2>1. x = y + z /\ z \in Nat /\ y \in Nat /\ L = x + m
    BY <1>1, <1>2, <1>4
  <2>. HIDE DEF x, y, z
  <2>2. y <= x /\ x <= L /\ x = L - m
    BY <1>1, <2>1
  <2>. QED  BY <2>2 DEF x, y
<1>6. (r + 1) * k <= L
  <2>1. (r + 1) * k \in Nat /\ W * k \in Nat
    BY <1>1, <1>2
  <2>. QED  BY <1>5, <2>1
<1>. QED  BY <1>1, <1>3, <1>5, <1>6 DEF k, m

(* A part holds what follows the parts of the ranks before.                *)
LEMMA PartElements ==
  ASSUME job \in Job, NEW S, NEW list \in Seq(S), NEW r \in Process
  PROVE  LET size == Len(list) \div World
         IN  /\ PartOf(list, r) \in Seq(S) /\ Len(PartOf(list, r)) = size
             /\ \A i \in 1 .. size : PartOf(list, r)[i] = list[r * size + i]
<1>. DEFINE L == Len(list)
            size == L \div World
            from == r * size
<1>1. World \in Nat \ {0} /\ r \in 0 .. World - 1 /\ L \in Nat
  BY JobSizes, LenProperties
<1>2. \A i \in 1 .. L : list[i] \in S
  BY ElementOfSeq
<1>. HIDE DEF L
<1>3. size \in Nat /\ from \in Nat /\ (r + 1) * size = from + size /\ from + size <= L
  BY <1>1, EqualParts
<1>4. PartOf(list, r) = SubSeq(list, from + 1, from + size)
  BY <1>3 DEF PartOf, L
<1>. HIDE DEF from, size
<1>. DEFINE a == from + 1
            b == from + size
<1>5. a \in Int /\ b \in Int /\ \A i \in a .. b : list[i] \in S
  BY <1>1, <1>2, <1>3
<1>. HIDE DEF a, b
<1>6. /\ SubSeq(list, a, b) \in Seq(S)
      /\ Len(SubSeq(list, a, b)) = IF a <= b THEN b - a + 1 ELSE 0
      /\ \A i \in 1 .. b - a + 1 : SubSeq(list, a, b)[i] = list[a + i - 1]
  BY <1>5, SubSeqProperties
<1>7. \A i \in 1 .. size : PartOf(list, r)[i] = list[from + i]
  <2>. SUFFICES ASSUME NEW i \in 1 .. size PROVE PartOf(list, r)[i] = list[from + i]
    OBVIOUS
  <2>1. i \in 1 .. b - a + 1 /\ a + i - 1 = from + i
    BY <1>3 DEF a, b
  <2>. QED  BY <2>1, <1>4, <1>6 DEF a, b
<1>8. Len(PartOf(list, r)) = size
  <2>1. (IF a <= b THEN b - a + 1 ELSE 0) = size
    BY <1>3 DEF a, b
  <2>. QED  BY <2>1, <1>4, <1>6 DEF a, b
<1>9. PartOf(list, r) \in Seq(S)
  BY <1>4, <1>6 DEF a, b
<1>. QED  BY <1>7, <1>8, <1>9 DEF from, size, L

(* What divides of a list: all but the remainder.                          *)
LEMMA DivisibleElements ==
  ASSUME job \in Job, NEW S, NEW list \in Seq(S)
  PROVE  /\ Divisible(list) = [i \in 1 .. World * (Len(list) \div World) |-> list[i]]
         /\ Len(list) % World = 0 => Divisible(list) = list
<1>. DEFINE L == Len(list)
            n == World * (L \div World)
<1>1. World \in Nat \ {0} /\ L \in Nat
  BY JobSizes, LenProperties
<1>2. list = [i \in 1 .. L |-> list[i]] /\ \A i \in 1 .. L : list[i] \in S
  BY LenProperties, ElementOfSeq
<1>3. n \in Nat /\ n <= L /\ (L % World = 0 => n = L)
  <2>1. World * (L \div World) = L - (L % World) /\ L % World \in Nat /\ L \div World \in Nat
    <3>1. 0 \in 0 .. World - 1
      BY <1>1
    <3>. HIDE DEF L
    <3>. QED  BY <1>1, <3>1, EqualParts
  <2>2. L % World <= L
    <3>1. \A x \in Nat, y \in Nat \ {0} : x % y <= x
      OBVIOUS
    <3>. HIDE DEF L
    <3>. QED  BY <1>1, <3>1
  <2>. DEFINE m == L % World
  <2>3. n = L - m /\ m \in Nat /\ m <= L
    BY <2>1, <2>2
  <2>. HIDE DEF n, m, L
  <2>. QED  BY <1>1, <2>3 DEF m
<1>4. Divisible(list) = SubSeq(list, 1, n)
  BY DEF Divisible
<1>. HIDE DEF n, L
<1>. DEFINE s == SubSeq(list, 1, n)
<1>5. /\ s \in Seq(S) /\ Len(s) = n /\ \A i \in 1 .. n : s[i] = list[i]
  <2>1. 1 \in Int /\ n \in Int /\ \A i \in 1 .. n : list[i] \in S
    BY <1>1, <1>2, <1>3
  <2>2. /\ s \in Seq(S) /\ Len(s) = IF 1 <= n THEN n - 1 + 1 ELSE 0
        /\ \A i \in 1 .. n - 1 + 1 : s[i] = list[1 + i - 1]
    BY <2>1, SubSeqProperties
  <2>. HIDE DEF s
  <2>. QED  BY <1>3, <2>2
<1>. HIDE DEF s
<1>6. s = [i \in 1 .. n |-> list[i]]
  <2>1. s = [i \in 1 .. n |-> s[i]]
    BY <1>5, LenProperties
  <2>. QED  BY <1>5, <2>1
<1>7. L % World = 0 => s = list
  BY <1>2, <1>3, <1>6
<1>. QED  BY <1>4, <1>6, <1>7 DEF s, n, L

(* The parts of a list one after another are what divides of it.           *)
LEMMA PartsJoin ==
  ASSUME job \in Job, NEW S, NEW list \in Seq(S), NEW lists,
         \A r \in Process : lists[r] = PartOf(list, r)
  PROVE  Joined(lists) = Divisible(list)
<1>. DEFINE size == Len(list) \div World
            element(i) == lists[(i - 1) \div size][((i - 1) % size) + 1]
<1>1. World \in Nat \ {0} /\ Process = 0 .. World - 1 /\ 0 \in Process /\ Len(list) \in Nat
  BY JobSizes, LenProperties
<1>2. /\ \A r \in Process : Len(lists[r]) = size
      /\ \A r \in Process, i \in 1 .. size : lists[r][i] = list[r * size + i]
  BY PartElements
<1>3. Joined(lists) = [i \in 1 .. World * size |-> element(i)]
  BY <1>1, <1>2 DEF Joined
<1>4. size \in Nat
  BY <1>1, EqualParts
<1>5. Divisible(list) = [i \in 1 .. World * size |-> list[i]]
  BY DivisibleElements
<1>. HIDE DEF size
<1>6. ASSUME NEW i \in 1 .. World * size  PROVE element(i) = list[i]
  <2>. DEFINE r == (i - 1) \div size
              k == ((i - 1) % size) + 1
  <2>1. size # 0 /\ i - 1 \in Nat /\ i - 1 < World * size
    <3>1. World * size \in Nat /\ (size = 0 => World * size = 0)
      BY <1>1, <1>4
    <3>. QED  BY <1>4, <3>1
  <2>2. r \in Nat /\ k \in 1 .. size /\ i - 1 = size * r + (k - 1)
    BY <1>4, <2>1
  <2>3. r < World
    BY <1>1, <1>4, <2>1
  <2>4. r \in Process /\ r * size = size * r
    <3>. HIDE DEF r, k
    <3>. QED  BY <1>1, <1>4, <2>2, <2>3
  <2>5. lists[r][k] = list[r * size + k]
    <3>. HIDE DEF r, k
    <3>. QED  BY <1>2, <2>2, <2>4
  <2>6. r * size + k = i
    <3>. HIDE DEF r, k
    <3>. QED  BY <1>4, <2>2, <2>4
  <2>. QED  BY <2>5, <2>6
<1>. QED  BY <1>3, <1>5, <1>6

(* What each process has once the layer is split.                          *)
Share(p) ==
  IF job.gathers = "columns" THEN [o \in DOMAIN Whole |-> PartOf(Whole[o], p)]
  ELSE IF Engine \/ Len(Whole) % World = 0 THEN PartOf(Whole, p) ELSE Whole
Heads ==
  IF ~Engine /\ job.heads % World = 0 THEN job.heads \div World ELSE job.heads
Given(w) == IF job.gathers = "outputs" THEN Output(w) ELSE w

LEMMA RowOfWhole ==
  ASSUME job \in Job, NEW o \in DOMAIN Whole
  PROVE  Whole[o] \in Seq(Nat \X Nat)
<1>. DEFINE R == Seq(Nat \X Nat)
<1>1. Whole \in Seq(R) /\ o \in 1 .. Len(Whole)
  BY JobSizes
<1>. HIDE DEF R
<1>2. Whole[o] \in R
  BY <1>1, ElementOfSeq
<1>. QED  BY <1>2 DEF R

(* An output has a column for each row of the weight.                      *)
LEMMA OutputRow ==
  ASSUME NEW S, NEW w \in Seq(S), NEW t \in 1 .. Tokens
  PROVE  /\ Output(w)[t] \in Seq({t} \X S) /\ Len(Output(w)[t]) = Len(w)
         /\ \A o \in 1 .. Len(w) : Output(w)[t][o] = <<t, w[o]>>
<1>1. Len(w) \in Nat /\ DOMAIN w = 1 .. Len(w) /\ \A o \in 1 .. Len(w) : w[o] \in S
  BY LenProperties, ElementOfSeq
<1>2. Output(w)[t] = [o \in 1 .. Len(w) |-> <<t, w[o]>>]
  BY <1>1 DEF Output
<1>3. Output(w)[t] \in [1 .. Len(w) -> {t} \X S]
  BY <1>1, <1>2
<1>. QED  BY <1>1, <1>2, <1>3

(* The output of a part of the rows is that part of the output's columns.  *)
LEMMA OutputOfPart ==
  ASSUME job \in Job, NEW r \in Process, NEW t \in 1 .. Tokens
  PROVE  Output(PartOf(Whole, r))[t] = PartOf(Output(Whole)[t], r)
<1>. DEFINE R == Seq(Nat \X Nat)
            E == {t} \X R
            size == Len(Whole) \div World
            x == Output(PartOf(Whole, r))[t]
            y == PartOf(Output(Whole)[t], r)
<1>1. /\ Whole \in Seq(R) /\ Len(Whole) \in Nat /\ World \in Nat \ {0}
      /\ r \in 0 .. World - 1
  BY JobSizes
<1>. HIDE DEF R
<1>2. /\ PartOf(Whole, r) \in Seq(R) /\ Len(PartOf(Whole, r)) = size
      /\ \A i \in 1 .. size : PartOf(Whole, r)[i] = Whole[r * size + i]
  BY <1>1, PartElements
<1>3. /\ x \in Seq(E) /\ Len(x) = size
      /\ \A i \in 1 .. size : x[i] = <<t, PartOf(Whole, r)[i]>>
  BY <1>2, OutputRow
<1>4. /\ Output(Whole)[t] \in Seq(E) /\ Len(Output(Whole)[t]) = Len(Whole)
      /\ \A o \in 1 .. Len(Whole) : Output(Whole)[t][o] = <<t, Whole[o]>>
  BY <1>1, OutputRow
<1>5. /\ y \in Seq(E) /\ Len(y) = size
      /\ \A i \in 1 .. size : y[i] = Output(Whole)[t][r * size + i]
  BY <1>4, PartElements
<1>6. size \in Nat /\ r * size \in Nat /\ r * size + size <= Len(Whole)
  BY <1>1, EqualParts
<1>. HIDE DEF x, y, E, size
<1>7. \A i \in 1 .. size : x[i] = y[i]
  <2>. SUFFICES ASSUME NEW i \in 1 .. size PROVE x[i] = y[i]
    OBVIOUS
  <2>1. r * size + i \in 1 .. Len(Whole)
    <3>. DEFINE from == r * size
    <3>1. from \in Nat /\ from + size <= Len(Whole)
      BY <1>6
    <3>. HIDE DEF from
    <3>2. from + i \in 1 .. Len(Whole)
      BY <1>1, <1>6, <3>1
    <3>. QED  BY <3>2 DEF from
  <2>. QED  BY <1>2, <1>3, <1>4, <1>5, <2>1
<1>8. x = y
  BY <1>3, <1>5, <1>7, SeqEqual
<1>. QED  BY <1>8 DEF x, y

(* The shares put together are what one process alone would have.          *)
LEMMA SharesMakeWhole ==
  ASSUME job \in Job, PutsTogether, World # 1
  PROVE  Cat([r \in Process |-> Given(Share(r))]) = Undivided
<1>. DEFINE tensors == [r \in Process |-> Given(Share(r))]
<1>1. /\ World \in Nat \ {0} /\ Process = 0 .. World - 1 /\ 0 \in Process
      /\ Whole \in Seq(Seq(Nat \X Nat)) /\ DOMAIN Whole = 1 .. Len(Whole)
  BY JobSizes
<1>2. \A r \in Process : tensors[r] = Given(Share(r))
  OBVIOUS
<1>. HIDE DEF tensors
<1>3. CASE job.gathers = "rows"
  <2>1. \A r \in Process : tensors[r] = PartOf(Whole, r)
    BY <1>2, <1>3 DEF Given, Share, Engine
  <2>2. Joined(tensors) = Divisible(Whole)
    BY <1>1, <2>1, PartsJoin
  <2>3. Undivided = Divisible(Whole)
    BY <1>3 DEF Undivided
  <2>. QED  BY <1>3, <2>2, <2>3 DEF Cat, tensors
<1>4. CASE job.gathers = "columns"
  <2>1. \A r \in Process : tensors[r] = [o \in DOMAIN Whole |-> PartOf(Whole[o], r)]
    BY <1>2, <1>4 DEF Given, Share
  <2>2. ASSUME NEW o \in DOMAIN Whole
        PROVE  Joined([r \in Process |-> tensors[r][o]]) = Divisible(Whole[o])
    <3>1. \A r \in Process : [q \in Process |-> tensors[q][o]][r] = PartOf(Whole[o], r)
      BY <2>1
    <3>2. Whole[o] \in Seq(Nat \X Nat)
      BY RowOfWhole
    <3>. QED  BY <3>1, <3>2, PartsJoin
  <2>3. Cat(tensors) = [o \in DOMAIN Whole |-> Joined([r \in Process |-> tensors[r][o]])]
    <3>1. DOMAIN tensors[0] = DOMAIN Whole
      BY <1>1, <2>1
    <3>. QED  BY <1>4, <3>1 DEF Cat
  <2>4. Undivided = [o \in DOMAIN Whole |-> Divisible(Whole[o])]
    BY <1>4 DEF Undivided
  <2>. QED  BY <2>2, <2>3, <2>4 DEF tensors
<1>5. CASE job.gathers = "outputs"
  <2>1. ~Engine /\ Len(Whole) % World = 0
    BY <1>5 DEF PutsTogether, Engine
  <2>2. \A r \in Process : tensors[r] = Output(PartOf(Whole, r))
    BY <1>2, <1>5, <2>1 DEF Given, Share
  <2>3. ASSUME NEW t \in 1 .. Tokens
        PROVE  Joined([r \in Process |-> tensors[r][t]]) = Output(Whole)[t]
    <3>1. \A r \in Process : [q \in Process |-> tensors[q][t]][r] = PartOf(Output(Whole)[t], r)
      BY <2>2, OutputOfPart
    <3>2. /\ Output(Whole)[t] \in Seq({t} \X Seq(Nat \X Nat))
          /\ Len(Output(Whole)[t]) = Len(Whole)
      BY <1>1, OutputRow
    <3>3. Joined([r \in Process |-> tensors[r][t]]) = Divisible(Output(Whole)[t])
      BY <3>1, <3>2, PartsJoin
    <3>4. Divisible(Output(Whole)[t]) = Output(Whole)[t]
      BY <2>1, <3>2, DivisibleElements
    <3>. QED  BY <3>3, <3>4
  <2>4. Cat(tensors) = [t \in 1 .. Tokens |-> Joined([r \in Process |-> tensors[r][t]])]
    <3>1. DOMAIN tensors[0] = 1 .. Tokens
      BY <1>1, <2>2 DEF Output
    <3>. QED  BY <1>5, <3>1 DEF Cat
  <2>5. Output(Whole) = [t \in 1 .. Tokens |-> Output(Whole)[t]]
    BY DEF Output
  <2>6. Undivided = Output(Whole)
    BY <1>5 DEF Undivided
  <2>. QED  BY <2>3, <2>4, <2>5, <2>6 DEF tensors
<1>6. job.gathers \in {"rows", "columns", "outputs"}
  BY DEF PutsTogether, Engine, Job
<1>. QED  BY <1>3, <1>4, <1>5, <1>6

(* Who is alone has everything.                                            *)
LEMMA AloneHasWhole ==
  ASSUME job \in Job, World = 1, NEW p \in Process
  PROVE  Given(Share(p)) = Undivided
<1>1. Process = {0} /\ p = 0
  BY JobSizes
<1>2. ASSUME NEW S, NEW list \in Seq(S)
      PROVE  PartOf(list, p) = list /\ Divisible(list) = list
  <2>1. Len(list) % World = 0 /\ Len(list) \div World = Len(list) /\ p * Len(list) = 0
        /\ Len(list) \in Nat
    <3>1. \A x \in Nat : x % 1 = 0 /\ x \div 1 = x /\ 0 * x = 0
      OBVIOUS
    <3>. QED  BY <1>1, <3>1, LenProperties
  <2>2. /\ PartOf(list, p) \in Seq(S) /\ Len(PartOf(list, p)) = Len(list)
        /\ \A i \in 1 .. Len(list) : PartOf(list, p)[i] = list[0 + i]
    BY <2>1, PartElements
  <2>3. \A i \in 1 .. Len(list) : PartOf(list, p)[i] = list[i]
    BY <2>2
  <2>. QED  BY <1>2, <2>1, <2>2, <2>3, SeqEqual, DivisibleElements
<1>3. /\ Whole \in Seq(Seq(Nat \X Nat)) /\ Whole = [o \in DOMAIN Whole |-> Whole[o]]
  BY JobSizes DEF Whole
<1>4. PartOf(Whole, p) = Whole /\ Divisible(Whole) = Whole
  BY <1>2, <1>3
<1>5. \A o \in DOMAIN Whole : PartOf(Whole[o], p) = Whole[o] /\ Divisible(Whole[o]) = Whole[o]
  <2>. SUFFICES ASSUME NEW o \in DOMAIN Whole
                PROVE  PartOf(Whole[o], p) = Whole[o] /\ Divisible(Whole[o]) = Whole[o]
    OBVIOUS
  <2>1. Whole[o] \in Seq(Nat \X Nat)
    BY RowOfWhole
  <2>. QED  BY <2>1, <1>2
<1>6. [o \in DOMAIN Whole |-> PartOf(Whole[o], p)] = Whole
      /\ [o \in DOMAIN Whole |-> Divisible(Whole[o])] = Whole
  BY <1>3, <1>5
<1>7. Share(p) = Whole
  BY <1>4, <1>6 DEF Share
<1>8. job.gathers \in {"rows", "columns", "outputs", "weights"}
  BY DEF Job
<1>9. Undivided = IF job.gathers = "outputs" THEN Output(Whole) ELSE Whole
  BY <1>4, <1>6, <1>8 DEF Undivided
<1>. QED  BY <1>7, <1>9 DEF Given

(* A process counts the heads whose rows it has, where the heads divide.   *)
LEMMA HeadsFit ==
  ASSUME job \in Job, NEW p \in Process, ~Engine, job.heads % World = 0
  PROVE  Len(Share(p)) = Heads * HeadDim
<1>. DEFINE k == job.heads \div World
<1>1. /\ World \in Nat \ {0} /\ Len(Whole) = job.heads * HeadDim
      /\ job.heads \in Nat \ {0} /\ HeadDim \in Nat \ {0}
      /\ Whole \in Seq(Seq(Nat \X Nat))
  BY JobSizes, LayerAssumption DEF Job
<1>2. k \in Nat /\ job.heads = k * World
  <2>1. \A x \in Nat, w \in Nat \ {0} : x % w = 0 => x \div w \in Nat /\ x = (x \div w) * w
    OBVIOUS
  <2>. QED  BY <1>1, <2>1
<1>. HIDE DEF k
<1>3. k * HeadDim \in Nat /\ Len(Whole) = World * (k * HeadDim)
  <2>1. \A x, y, z \in Nat : x * y \in Nat /\ (x * y) * z = y * (x * z)
    OBVIOUS
  <2>. QED  BY <1>1, <1>2, <2>1
<1>4. Len(Whole) % World = 0 /\ Len(Whole) \div World = k * HeadDim
  <2>1. \A x \in Nat, w \in Nat \ {0} : (w * x) % w = 0 /\ (w * x) \div w = x
    OBVIOUS
  <2>. QED  BY <1>1, <1>3, <2>1
<1>5. Len(PartOf(Whole, p)) = k * HeadDim
  BY <1>1, <1>4, PartElements
<1>6. job.gathers # "columns"
  BY DEF Engine
<1>. QED  BY <1>4, <1>5, <1>6 DEF Share, Heads, k

(* What each process has, phase by phase, where the parts come together.   *)
Placed(p) ==
  /\ phase[p] \in {"start", "joining", "ready"} => share[p] = Whole /\ heads[p] = job.heads
  /\ phase[p] = "start" => rank[p] = 0 /\ grouped[p] = job.preset
  /\ phase[p] = "ready" => rank[p] = p
  /\ phase[p] \in {"split", "gathering", "gathered"} =>
       share[p] = Share(p) /\ heads[p] = Heads
  /\ phase[p] = "gathering" => World # 1
  /\ phase[p] = "gathered" => gathered[p] = Undivided

TPInv ==
  /\ job \in Job
  /\ DOMAIN phase = Process /\ DOMAIN grouped = Process /\ DOMAIN rank = Process
  /\ DOMAIN share = Process /\ DOMAIN heads = Process /\ DOMAIN gathered = Process
  /\ PutsTogether => \A p \in Process : Placed(p)

(* At the start every process has the whole weight.                        *)
LEMMA InitTPInv == TPInit => TPInv
BY DEF TPInit, TPInv, Placed

(* The job does not change, nor what is made from it.                      *)
LEMMA SameJob ==
  ASSUME job' = job
  PROVE  /\ World' = World /\ Process' = Process /\ Whole' = Whole /\ Engine' = Engine
         /\ PutsTogether' = PutsTogether /\ Undivided' = Undivided /\ Heads' = Heads
         /\ \A p \in Process : Share(p)' = Share(p)
<1>1. World' = World /\ Process' = Process /\ Whole' = Whole /\ Engine' = Engine
  BY DEF World, Process, Whole, Engine
<1>. QED  BY <1>1 DEF PutsTogether, Undivided, Divisible, Output, Heads, Share, PartOf

(* A step of one process, which leaves the others where they are.          *)
LEMMA ProcessStep ==
  ASSUME TPInv, NEW p \in Process,
         StartManager(p) \/ StartEngine(p) \/ Parallelize(p) \/ ShardWeights(p)
           \/ Gather(p) \/ Cleanup(p)
  PROVE  TPInv'
<1>1. job' = job /\ job \in Job
  BY DEF StartManager, StartEngine, Parallelize, ShardWeights, Gather, Cleanup, TPInv
<1>2. /\ World' = World /\ Process' = Process /\ Whole' = Whole /\ Engine' = Engine
      /\ PutsTogether' = PutsTogether /\ Undivided' = Undivided /\ Heads' = Heads
      /\ \A r \in Process : Share(r)' = Share(r)
  BY <1>1, SameJob
<1>3. /\ DOMAIN phase' = Process /\ DOMAIN grouped' = Process /\ DOMAIN rank' = Process
      /\ DOMAIN share' = Process /\ DOMAIN heads' = Process /\ DOMAIN gathered' = Process
  BY DEF StartManager, StartEngine, Parallelize, ShardWeights, Gather, Cleanup, TPInv
<1>4. \A r \in Process \ {p} :
        /\ phase'[r] = phase[r] /\ grouped'[r] = grouped[r] /\ rank'[r] = rank[r]
        /\ share'[r] = share[r] /\ heads'[r] = heads[r] /\ gathered'[r] = gathered[r]
  BY DEF StartManager, StartEngine, Parallelize, ShardWeights, Gather, Cleanup, TPInv
<1>5. ASSUME PutsTogether  PROVE \A r \in Process : Placed(r)'
  <2>0. \A r \in Process : Placed(r)
    BY <1>5 DEF TPInv
  <2>1. \A r \in Process \ {p} : Placed(r)'
    BY <2>0, <1>1, <1>2, <1>4 DEF Placed
  <2>2. Placed(p)'
    <3>1. Placed(p) /\ Process = 0 .. World - 1 /\ World \in Nat \ {0}
      BY <2>0, <1>1, JobSizes
    <3>2. CASE StartManager(p)
      <4>1. World = 1 => p = 0
        BY <3>1
      <4>2. phase'[p] = IF World > 1 /\ ~grouped[p] THEN "joining" ELSE "ready"
        BY <3>2 DEF StartManager, TPInv
      <4>3. /\ phase[p] = "start" /\ ~Engine /\ rank'[p] = rank[p]
            /\ share'[p] = share[p] /\ heads'[p] = heads[p]
        BY <3>2 DEF StartManager
      <4>4. phase'[p] = "ready" => World = 1
        BY <1>5, <3>1, <4>2, <4>3 DEF Placed, PutsTogether
      <4>. QED  BY <1>1, <1>2, <3>1, <4>1, <4>2, <4>3, <4>4 DEF Placed
    <3>3. CASE StartEngine(p)
      <4>1. /\ phase[p] = "start" /\ share'[p] = share[p] /\ heads'[p] = heads[p]
            /\ phase'[p] = IF grouped[p] THEN "ready" ELSE "joining"
            /\ rank'[p] = IF grouped[p] THEN p ELSE rank[p]
        BY <3>3 DEF StartEngine, TPInv
      <4>. QED  BY <1>1, <1>2, <3>1, <4>1 DEF Placed
    <3>4. CASE Parallelize(p)
      <4>1. /\ phase[p] = "ready" /\ phase'[p] = "split" /\ ~Engine
            /\ share'[p] = IF Len(share[p]) % World = 0 THEN PartOf(share[p], rank[p])
                           ELSE share[p]
            /\ heads'[p] = IF heads[p] % World = 0 THEN heads[p] \div World ELSE heads[p]
        BY <3>4 DEF Parallelize, TPInv
      <4>2. share[p] = Whole /\ heads[p] = job.heads /\ rank[p] = p
        BY <3>1, <4>1 DEF Placed
      <4>3. share'[p] = Share(p) /\ heads'[p] = Heads
        BY <4>1, <4>2 DEF Share, Heads, Engine
      <4>. QED  BY <1>1, <1>2, <4>1, <4>3 DEF Placed
    <3>5. CASE ShardWeights(p)
      <4>1. /\ phase[p] = "ready" /\ phase'[p] = "split" /\ Engine
            /\ share'[p] = IF job.gathers = "rows" THEN PartOf(share[p], rank[p])
                           ELSE [o \in DOMAIN share[p] |-> PartOf(share[p][o], rank[p])]
            /\ heads'[p] = heads[p]
        BY <3>5 DEF ShardWeights, TPInv
      <4>2. share[p] = Whole /\ heads[p] = job.heads /\ rank[p] = p
        BY <3>1, <4>1 DEF Placed
      <4>3. share'[p] = Share(p) /\ heads'[p] = Heads
        BY <4>1, <4>2 DEF Share, Heads, Engine
      <4>. QED  BY <1>1, <1>2, <4>1, <4>3 DEF Placed
    <3>6. CASE Gather(p)
      <4>1. /\ phase[p] = "split" /\ phase'[p] = IF World = 1 THEN "gathered" ELSE "gathering"
            /\ gathered'[p] = IF World = 1 THEN Given(share[p]) ELSE gathered[p]
            /\ share'[p] = share[p] /\ heads'[p] = heads[p]
        BY <3>6 DEF Gather, TPInv, Handed, Given
      <4>2. share[p] = Share(p) /\ heads[p] = Heads
        BY <3>1, <4>1 DEF Placed
      <4>3. World = 1 => gathered'[p] = Undivided
        BY <1>1, <4>1, <4>2, AloneHasWhole
      <4>. QED  BY <1>1, <1>2, <4>1, <4>2, <4>3 DEF Placed
    <3>7. CASE Cleanup(p)
      <4>1. phase'[p] = "ended"
        BY <3>7 DEF Cleanup, TPInv
      <4>. QED  BY <4>1 DEF Placed
    <3>. QED  BY <3>2, <3>3, <3>4, <3>5, <3>6, <3>7
  <2>. QED  BY <2>1, <2>2
<1>. QED  BY <1>1, <1>2, <1>3, <1>5 DEF TPInv

(* The process group is formed once all are there.                         *)
LEMMA FormStep ==
  ASSUME TPInv, Form
  PROVE  TPInv'
<1>1. /\ job' = job /\ share' = share /\ heads' = heads /\ gathered' = gathered
      /\ \A p \in Process : phase[p] = "joining"
      /\ phase' = [p \in Process |-> "ready"] /\ grouped' = [p \in Process |-> TRUE]
      /\ rank' = [p \in Process |-> p]
  BY DEF Form
<1>2. World' = World /\ Process' = Process /\ Whole' = Whole /\ PutsTogether' = PutsTogether
  BY <1>1, SameJob
<1>3. ASSUME PutsTogether  PROVE \A r \in Process : Placed(r)'
  <2>1. \A r \in Process : phase'[r] = "ready" /\ rank'[r] = r
    BY <1>1
  <2>2. \A r \in Process : share[r] = Whole /\ heads[r] = job.heads
    BY <1>1, <1>3 DEF TPInv, Placed
  <2>. QED  BY <1>1, <1>2, <2>1, <2>2 DEF Placed
<1>. QED  BY <1>1, <1>2, <1>3 DEF TPInv

(* The collective ends in all processes.                                   *)
LEMMA GatherAllStep ==
  ASSUME TPInv, GatherAll
  PROVE  TPInv'
<1>. DEFINE result == Cat([r \in Process |-> Handed(r)])
<1>1. /\ job' = job /\ share' = share /\ heads' = heads /\ grouped' = grouped /\ rank' = rank
      /\ \A p \in Process : phase[p] = "gathering"
      /\ phase' = [p \in Process |-> "gathered"]
      /\ gathered' = [p \in Process |-> result]
      /\ job \in Job
  BY DEF GatherAll, TPInv
<1>2. /\ World' = World /\ Process' = Process /\ Whole' = Whole /\ Engine' = Engine
      /\ PutsTogether' = PutsTogether /\ Undivided' = Undivided /\ Heads' = Heads
      /\ \A r \in Process : Share(r)' = Share(r)
  BY <1>1, SameJob
<1>3. ASSUME PutsTogether  PROVE \A r \in Process : Placed(r)'
  <2>1. \A r \in Process : share[r] = Share(r) /\ heads[r] = Heads /\ World # 1
    BY <1>1, <1>3 DEF TPInv, Placed
  <2>2. World # 1
    <3>1. 0 \in Process
      BY <1>1, JobSizes
    <3>. QED  BY <2>1, <3>1
  <2>3. \A r \in Process : Handed(r) = Given(Share(r))
    BY <2>1 DEF Handed, Given
  <2>4. [r \in Process |-> Handed(r)] = [r \in Process |-> Given(Share(r))]
    BY <2>3
  <2>5. result = Undivided
    BY <1>1, <1>3, <2>2, <2>4, SharesMakeWhole
  <2>. HIDE DEF result
  <2>6. \A r \in Process : phase'[r] = "gathered" /\ gathered'[r] = Undivided
    BY <1>1, <2>5
  <2>. QED  BY <1>1, <1>2, <2>1, <2>6 DEF Placed
<1>. HIDE DEF result
<1>4. DOMAIN phase' = Process /\ DOMAIN gathered' = Process
  BY <1>1
<1>. QED  BY <1>1, <1>2, <1>3, <1>4 DEF TPInv

(* Every step keeps the invariant.                                         *)
LEMMA TPInvStep ==
  ASSUME TPInv, [TPStep]_tpVars
  PROVE  TPInv'
<1>1. CASE UNCHANGED tpVars
  <2>1. /\ job' = job /\ phase' = phase /\ grouped' = grouped /\ rank' = rank
        /\ share' = share /\ heads' = heads /\ gathered' = gathered
    BY <1>1 DEF tpVars
  <2>2. /\ World' = World /\ Process' = Process /\ Whole' = Whole
        /\ PutsTogether' = PutsTogether /\ Undivided' = Undivided /\ Heads' = Heads
        /\ \A r \in Process : Share(r)' = Share(r)
    BY <2>1, SameJob
  <2>3. \A r \in Process : Placed(r) => Placed(r)'
    BY <2>1, <2>2 DEF Placed
  <2>. QED  BY <2>1, <2>2, <2>3 DEF TPInv
<1>2. CASE TPStep
  BY <1>2, ProcessStep, FormStep, GatherAllStep DEF TPStep
<1>. QED  BY <1>1, <1>2

(* Whatever the number of processes and the size of the layer: along the   *)
(* axis it splits, an engine's processes gather the weight, in order, but  *)
(* for what does not divide, and a manager's processes the output of the   *)
(* undivided layer, if its features divide.                                *)
THEOREM GatheredWhole == TPSpec => []GatherWhole
<1>1. TPInv /\ [TPStep]_tpVars => TPInv'
  BY TPInvStep
<1>2. ASSUME TPInv  PROVE GatherWhole
  <2>. SUFFICES ASSUME NEW p \in Process, phase[p] = "gathered", PutsTogether
                PROVE  /\ gathered[p] = Undivided
                       /\ ~Engine /\ job.heads % World = 0 => Len(share[p]) = heads[p] * HeadDim
    BY DEF GatherWhole
  <2>1. gathered[p] = Undivided /\ share[p] = Share(p) /\ heads[p] = Heads /\ job \in Job
    BY <1>2 DEF TPInv, Placed
  <2>. QED  BY <2>1, HeadsFit
<1>. QED  BY <1>1, <1>2, InitTPInv, PTL DEF TPSpec

=============================================================================
