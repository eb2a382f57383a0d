------------------------- MODULE BlockManagerProofs -------------------------
(***************************************************************************)
(* What each operation of the block manager does to the free list, the     *)
(* flags and the counts, whoever calls it.                                 *)
(***************************************************************************)
EXTENDS BlockManager, SequenceLemmas

(* The free list names each free block once. *)
FreeListOK ==
  /\ IsInjective(freeIds)
  /\ \A b \in Block : isFree[b] <=> b \in Range(freeIds)

----------------------------------------------------------------------------
(* What the block manager's operations do to the free list.                *)

(* allocate takes distinct free blocks and counts them.                    *)
LEMMA AllocateRefsEffect ==
  ASSUME BMTypeOK, FreeListOK, NEW n \in Nat, NEW refs \in Int, AllocateRefs(n, refs)
  PROVE  /\ Popped(n) \in Seq(Block) /\ Len(Popped(n)) = n
         /\ IsInjective(Popped(n))
         /\ Range(Popped(n)) \subseteq Range(freeIds)
         /\ BMTypeOK' /\ FreeListOK'
         /\ Len(freeIds') = Len(freeIds) - n
         /\ Range(freeIds') = Range(freeIds) \ Range(Popped(n))
         /\ \A b \in Block : refCount'[b] = IF b \in Range(Popped(n)) THEN refs ELSE refCount[b]
         /\ swapBlocks' = swapBlocks
<1>. DEFINE p == Popped(n)
<1>1. freeIds \in Seq(Block) /\ IsInjective(freeIds) /\ n <= Len(freeIds)
  BY DEF BMTypeOK, FreeListOK, AllocateRefs
<1>2. p = Pops(freeIds, n) /\ freeIds' = AfterPops(freeIds, n)
  BY DEF Popped, AllocateRefs
<1>. HIDE DEF p
<1>3. /\ p \in Seq(Block) /\ Len(p) = n /\ IsInjective(p) /\ Range(p) \subseteq Range(freeIds)
      /\ freeIds' \in Seq(Block) /\ Len(freeIds') = Len(freeIds) - n /\ IsInjective(freeIds')
      /\ Range(freeIds') = Range(freeIds) \ Range(p)
  <2>. DEFINE l == Pops(freeIds, n)
              t == AfterPops(freeIds, n)
  <2>1. /\ l \in Seq(Block) /\ Len(l) = n /\ IsInjective(l) /\ Range(l) \subseteq Range(freeIds)
        /\ t \in Seq(Block) /\ Len(t) = Len(freeIds) - n /\ IsInjective(t)
        /\ Range(t) = Range(freeIds) \ Range(l)
    BY <1>1, PopElements
  <2>2. p = l /\ freeIds' = t
    BY <1>2
  <2>. HIDE DEF l, t
  <2>. QED  BY <2>1, <2>2
<1>4. /\ isFree' = [b \in Block |-> isFree[b] /\ b \notin Range(p)]
      /\ refCount' = [b \in Block |-> IF b \in Range(p) THEN refs ELSE refCount[b]]
      /\ swapBlocks' = swapBlocks
  BY DEF AllocateRefs, p
<1>5. isFree' \in [Block -> BOOLEAN]
  BY <1>4, Zenon
<1>6. \A b \in Block : isFree'[b] <=> b \in Range(freeIds')
  <2>1. \A b \in Block : isFree'[b] <=> isFree[b] /\ b \notin Range(p)
    BY <1>4, Zenon
  <2>. QED  BY <2>1, <1>3, Zenon DEF FreeListOK
<1>7. BMTypeOK' /\ FreeListOK'
  BY <1>3, <1>4, <1>5, <1>6 DEF BMTypeOK, FreeListOK
<1>8. \A b \in Block : refCount'[b] = IF b \in Range(p) THEN refs ELSE refCount[b]
  BY <1>4
<1>. QED  BY <1>3, <1>4, <1>7, <1>8 DEF p

(* The same for a caller that shares nothing.                              *)
LEMMA AllocateEffect ==
  ASSUME BMTypeOK, FreeListOK, NEW n \in Nat, Allocate(n)
  PROVE  /\ Popped(n) \in Seq(Block) /\ Len(Popped(n)) = n
         /\ IsInjective(Popped(n))
         /\ Range(Popped(n)) \subseteq Range(freeIds)
         /\ BMTypeOK' /\ FreeListOK'
         /\ Len(freeIds') = Len(freeIds) - n
         /\ Range(freeIds') = Range(freeIds) \ Range(Popped(n))
         /\ \A b \in Block : refCount'[b] = IF b \in Range(Popped(n)) THEN 1 ELSE refCount[b]
         /\ swapBlocks' = swapBlocks
BY AllocateRefsEffect DEF Allocate

(* free drops a reference from each block and lists those without more.    *)
LEMMA FreeEffect ==
  ASSUME BMTypeOK, FreeListOK, NEW ids \in Seq(Block), IsInjective(ids),
         Range(ids) \cap Range(freeIds) = {}, Free(ids)
  PROVE  /\ BMTypeOK' /\ FreeListOK'
         /\ Range(freeIds') = Range(freeIds) \cup {b \in Range(ids) : refCount[b] <= 1}
         /\ \A b \in Block : refCount'[b] = IF b \in Range(ids) THEN refCount[b] - 1 ELSE refCount[b]
         /\ swapBlocks' = swapBlocks
<1>. DEFINE kept == KeepOnly(ids, {b \in Block : refCount[b] <= 1})
<1>1. Range(ids) \subseteq Block
  BY RangeOfSeq
<1>2. /\ kept \in Seq(Block) /\ IsInjective(kept)
      /\ Range(kept) = {b \in Range(ids) : refCount[b] <= 1}
  BY <1>1, KeepOnlyElements
<1>3. freeIds' = freeIds \o kept
  BY DEF Free
<1>4. freeIds' \in Seq(Block) /\ IsInjective(freeIds')
      /\ Range(freeIds') = Range(freeIds) \cup Range(kept)
  <2>1. Range(freeIds) \cap Range(kept) = {}
    BY <1>2
  <2>2. freeIds \in Seq(Block) /\ IsInjective(freeIds)
    BY DEF BMTypeOK, FreeListOK
  <2>. HIDE DEF kept
  <2>. QED  BY <1>2, <1>3, <2>1, <2>2, ConcatElements
<1>5. isFree' = [b \in Block |-> isFree[b] \/ (b \in Range(ids) /\ refCount[b] <= 1)]
  BY DEF Free
<1>6. /\ isFree' \in [Block -> BOOLEAN]
      /\ \A b \in Block : isFree'[b] <=> isFree[b] \/ b \in Range(kept)
  BY <1>2, <1>5, Zenon
<1>7. /\ refCount' \in [Block -> Int]
      /\ \A b \in Block : refCount'[b] = IF b \in Range(ids) THEN refCount[b] - 1 ELSE refCount[b]
  BY DEF Free, BMTypeOK
<1>8. \A b \in Block : isFree'[b] <=> b \in Range(freeIds')
  BY <1>4, <1>6, Zenon DEF FreeListOK
<1>9. swapBlocks' = swapBlocks
  BY DEF Free
<1>10. BMTypeOK' /\ FreeListOK'
  BY <1>4, <1>6, <1>7, <1>8, <1>9 DEF BMTypeOK, FreeListOK
<1>. QED  BY <1>2, <1>4, <1>7, <1>9, <1>10

(* swap_out lists every block it is given.                                 *)
LEMMA SwapOutEffect ==
  ASSUME BMTypeOK, FreeListOK, NEW ids \in Seq(Block), IsInjective(ids),
         Range(ids) \cap Range(freeIds) = {}, SwapOut(ids)
  PROVE  /\ BMTypeOK' /\ FreeListOK'
         /\ Range(freeIds') = Range(freeIds) \cup Range(ids)
         /\ refCount' = refCount
         /\ swapBlocks' = swapBlocks \cup Range(ids)
<1>1. Range(ids) \subseteq Block
  BY RangeOfSeq
<1>2. /\ freeIds' = freeIds \o ids
      /\ isFree' = [b \in Block |-> isFree[b] \/ b \in Range(ids)]
      /\ refCount' = refCount /\ swapBlocks' = swapBlocks \cup Range(ids)
  BY DEF SwapOut
<1>3. freeIds' \in Seq(Block) /\ IsInjective(freeIds')
      /\ Range(freeIds') = Range(freeIds) \cup Range(ids)
  BY <1>2, ConcatElements DEF BMTypeOK, FreeListOK
<1>4. /\ isFree' \in [Block -> BOOLEAN]
      /\ \A b \in Block : isFree'[b] <=> isFree[b] \/ b \in Range(ids)
  BY <1>2, Zenon
<1>5. \A b \in Block : isFree'[b] <=> b \in Range(freeIds')
  BY <1>3, <1>4, Zenon DEF FreeListOK
<1>. QED  BY <1>1, <1>2, <1>3, <1>4, <1>5 DEF BMTypeOK, FreeListOK

(* A swap_in that does not raise takes the blocks with an entry, all of    *)
(* them free, off the free list.                                           *)
LEMMA SwapInEffect ==
  ASSUME BMTypeOK, FreeListOK, NEW ids \in Seq(Block), SwapInStuck(ids) = {}, SwapIn(ids)
  PROVE  /\ Range(ids) \cap swapBlocks \subseteq Range(freeIds)
         /\ BMTypeOK' /\ FreeListOK'
         /\ Range(freeIds') = Range(freeIds) \ (Range(ids) \cap swapBlocks)
         /\ refCount' = refCount
         /\ swapBlocks' = swapBlocks \ Range(ids)
<1>. DEFINE touched == Range(ids) \cap swapBlocks
<1>1. Len(ids) \in Nat /\ DOMAIN ids = 1 .. Len(ids) /\ Range(freeIds) \subseteq Block
  BY LenProperties, RangeOfSeq DEF BMTypeOK
<1>2. touched \subseteq Range(freeIds)
  BY DEF SwapInStuck, Range
<1>3. {ids[i] : i \in 1 .. Len(ids)} \cap swapBlocks = touched
  BY <1>1 DEF Range
<1>4. /\ swapBlocks' = swapBlocks \ touched
      /\ isFree' = [b \in Block |-> isFree[b] /\ b \notin touched]
      /\ freeIds' = KeepOnly(freeIds, Block \ touched)
      /\ refCount' = refCount
  <2>. HIDE DEF touched
  <2>. QED  BY <1>3 DEF SwapIn
<1>5. /\ freeIds' \in Seq(Block) /\ IsInjective(freeIds')
      /\ Range(freeIds') = Range(freeIds) \ touched
  BY <1>1, <1>4, KeepOnlyElements DEF BMTypeOK, FreeListOK
<1>6. /\ isFree' \in [Block -> BOOLEAN]
      /\ \A b \in Block : isFree'[b] <=> isFree[b] /\ b \notin touched
  BY <1>4, Zenon
<1>7. \A b \in Block : isFree'[b] <=> b \in Range(freeIds')
  BY <1>5, <1>6, Zenon DEF FreeListOK
<1>. QED  BY <1>2, <1>4, <1>5, <1>6, <1>7 DEF BMTypeOK, FreeListOK

(* Also where swap_in raises, the list and the flags stay in step.         *)
LEMMA SwapInRaisedEffect ==
  ASSUME BMTypeOK, FreeListOK, NEW ids \in Seq(Block), SwapIn(ids)
  PROVE  /\ BMTypeOK' /\ FreeListOK' /\ refCount' = refCount
         /\ Range(freeIds') \subseteq Range(freeIds)
<1>. DEFINE stuck   == SwapInStuck(ids)
            reached == IF stuck = {} THEN Len(ids) ELSE Min(stuck)
            touched == {ids[i] : i \in 1 .. reached} \cap swapBlocks
<1>1. /\ swapBlocks' = swapBlocks \ touched
      /\ isFree' = [b \in Block |-> isFree[b] /\ b \notin touched]
      /\ freeIds' = KeepOnly(freeIds, Block \ touched)
      /\ refCount' = refCount
  BY DEF SwapIn
<1>. HIDE DEF touched
<1>2. Range(freeIds) \subseteq Block
  BY RangeOfSeq DEF BMTypeOK
<1>3. /\ freeIds' \in Seq(Block) /\ IsInjective(freeIds')
      /\ Range(freeIds') = Range(freeIds) \ touched
  BY <1>1, <1>2, KeepOnlyElements DEF BMTypeOK, FreeListOK
<1>4. /\ isFree' \in [Block -> BOOLEAN]
      /\ \A b \in Block : isFree'[b] <=> isFree[b] /\ b \notin touched
  BY <1>1, Zenon
<1>5. \A b \in Block : isFree'[b] <=> b \in Range(freeIds')
  BY <1>3, <1>4, Zenon DEF FreeListOK
<1>. QED  BY <1>1, <1>3, <1>4, <1>5 DEF BMTypeOK, FreeListOK

(* Blocks that are in use once are given back by free and by swap_out.     *)
LEMMA GiveBackEffect ==
  ASSUME BMTypeOK, FreeListOK, NEW ids \in Seq(Block), IsInjective(ids),
         Range(ids) \cap Range(freeIds) = {},
         \A b \in Range(ids) : refCount[b] = 1,
         Free(ids) \/ SwapOut(ids)
  PROVE  /\ BMTypeOK' /\ FreeListOK'
         /\ Range(freeIds') = Range(freeIds) \cup Range(ids)
         /\ \A b \in Block \ Range(ids) : refCount'[b] = refCount[b]
<1>1. Range(ids) \subseteq Block
  BY RangeOfSeq
<1>2. freeIds' = freeIds \o ids
  <2>1. CASE Free(ids)
    <3>1. Range(ids) \subseteq {b \in Block : refCount[b] <= 1}
      BY <1>1
    <3>. QED  BY <2>1, <3>1 DEF Free, KeepOnly
  <2>2. CASE SwapOut(ids)
    BY <2>2 DEF SwapOut
  <2>. QED  BY <2>1, <2>2
<1>3. freeIds' \in Seq(Block) /\ IsInjective(freeIds')
      /\ Range(freeIds') = Range(freeIds) \cup Range(ids)
  BY <1>2, ConcatElements DEF BMTypeOK, FreeListOK
<1>4. /\ isFree' \in [Block -> BOOLEAN]
      /\ \A b \in Block : isFree'[b] <=> isFree[b] \/ b \in Range(ids)
  <2>1. CASE Free(ids)
    <3>1. isFree' = [b \in Block |-> isFree[b] \/ (b \in Range(ids) /\ refCount[b] <= 1)]
      BY <2>1 DEF Free
    <3>2. \A b \in Range(ids) : refCount[b] <= 1
      OBVIOUS
    <3>. QED  BY <3>1, <3>2, Zenon
  <2>2. CASE SwapOut(ids)
    BY <2>2, Zenon DEF SwapOut
  <2>. QED  BY <2>1, <2>2
<1>5. /\ refCount' \in [Block -> Int]
      /\ \A b \in Block \ Range(ids) : refCount'[b] = refCount[b]
  <2>1. CASE Free(ids)
    BY <2>1 DEF Free, BMTypeOK
  <2>2. CASE SwapOut(ids)
    BY <2>2 DEF SwapOut, BMTypeOK
  <2>. QED  BY <2>1, <2>2
<1>6. swapBlocks' \in SUBSET Block
  BY <1>1 DEF Free, SwapOut, BMTypeOK
<1>7. \A b \in Block : isFree'[b] <=> b \in Range(freeIds')
  BY <1>3, <1>4, Zenon DEF FreeListOK
<1>. QED  BY <1>3, <1>4, <1>5, <1>6, <1>7 DEF BMTypeOK, FreeListOK

(* At the start every block is in the free list, once.                     *)
LEMMA InitEffect ==
  ASSUME BMInit
  PROVE  /\ BMTypeOK /\ FreeListOK
         /\ Range(freeIds) = Block
         /\ \A b \in Block : refCount[b] = 0
<1>. USE TotalBlocksAssumption
<1>1. /\ freeIds \in Seq(Block) /\ Len(freeIds) = TotalBlocks
      /\ DOMAIN freeIds = 1 .. TotalBlocks
      /\ \A i \in 1 .. TotalBlocks : freeIds[i] = i - 1
  <2>1. freeIds = [i \in 1 .. TotalBlocks |-> i - 1] /\ TotalBlocks \in Nat
    BY DEF BMInit
  <2>2. freeIds \in [1 .. TotalBlocks -> Block]
    BY <2>1 DEF Block
  <2>. QED  BY <2>1, <2>2
<1>2. IsInjective(freeIds)
  BY <1>1 DEF IsInjective
<1>3. ASSUME NEW b \in Block  PROVE  b \in Range(freeIds)
  <2>1. b + 1 \in 1 .. TotalBlocks /\ freeIds[b + 1] = b
    BY <1>1 DEF Block
  <2>. QED  BY <2>1, <1>1 DEF Range
<1>4. Range(freeIds) = Block
  BY <1>1, <1>3, RangeOfSeq
<1>. QED  BY <1>1, <1>2, <1>4 DEF BMInit, BMTypeOK, FreeListOK

=============================================================================
