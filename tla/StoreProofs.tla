---------------------------- MODULE StoreProofs -----------------------------
(***************************************************************************)
(* Theorems about the KV caches and the prefix cache, for every number of  *)
(* sequences and blocks, every block size and every table limit.           *)
(***************************************************************************)
EXTENDS KVCache, PagedAttention, PrefixCache, BlockManagerProofs

----------------------------------------------------------------------------
(* Positions and mem.                                                    *)
(* Positions and cells.                                                    *)
BlockNo(x) == x \div BlockSize + 1
SlotNo(x) == x % BlockSize

(* A position has a cell of its own, within the blocks that have room.     *)
LEMMA CellOfPosition ==
  ASSUME NEW x \in Nat
  PROVE  /\ BlockNo(x) \in Nat \ {0} /\ SlotNo(x) \in Slot
         /\ \A m \in Nat : x < BlockSize * m <=> BlockNo(x) <= m
         /\ \A y \in Nat : BlockNo(x) = BlockNo(y) /\ SlotNo(x) = SlotNo(y) => x = y
<1>. USE BlockSizeAssumption DEF BlockNo, SlotNo
<1>1. (x \div BlockSize) \in Nat /\ (x % BlockSize) \in 0 .. BlockSize - 1
  OBVIOUS
<1>2. ASSUME NEW m \in Nat, x < BlockSize * m  PROVE (x \div BlockSize) < m
  BY <1>2
<1>3. ASSUME NEW m \in Nat, ~(x < BlockSize * m)  PROVE ~((x \div BlockSize) < m)
  <2>1. x >= BlockSize * m
    BY <1>3
  <2>. QED  BY <2>1
<1>4. \A m \in Nat : (x \div BlockSize) < m <=> BlockNo(x) <= m
  BY <1>1
<1>5. ASSUME NEW y \in Nat, x \div BlockSize = y \div BlockSize, x % BlockSize = y % BlockSize
      PROVE  x = y
  BY <1>5
<1>6. ASSUME NEW y \in Nat, BlockNo(x) = BlockNo(y)  PROVE x \div BlockSize = y \div BlockSize
  <2>1. (y \div BlockSize) \in Nat
    OBVIOUS
  <2>. QED  BY <2>1, <1>1, <1>6
<1>7. BlockNo(x) \in Nat \ {0} /\ SlotNo(x) \in Slot
  BY <1>1 DEF Slot
<1>8. \A m \in Nat : x < BlockSize * m <=> (x \div BlockSize) < m
  BY <1>2, <1>3
<1>9. \A y \in Nat : BlockNo(x) = BlockNo(y) /\ SlotNo(x) = SlotNo(y) => x = y
  BY <1>5, <1>6
<1>. HIDE DEF BlockNo, SlotNo
<1>. QED  BY <1>4, <1>7, <1>8, <1>9

(* Blocks for n tokens have room for n tokens.                             *)
LEMMA EnoughBlocks ==
  ASSUME NEW n \in Nat
  PROVE  /\ BlocksNeeded(n) \in Nat /\ n <= BlockSize * BlocksNeeded(n)
         /\ BlocksNeeded(0) = 0
<1>. USE BlockSizeAssumption
<1>1. (n + BlockSize - 1) \in Nat
  OBVIOUS
<1>2. BlockSize * ((n + BlockSize - 1) \div BlockSize) >= n
  BY <1>1
<1>3. ((n + BlockSize - 1) \div BlockSize) \in Nat
  BY <1>1
<1>4. (0 + BlockSize - 1) \div BlockSize = 0
  OBVIOUS
<1>. QED  BY <1>2, <1>3, <1>4 DEF BlocksNeeded

(* What is stored, where the blocks have room for all of it.               *)
LEMMA StoredAt ==
  ASSUME NEW B, NEW blocks \in Seq(B), NEW mem, NEW n \in Nat, n <= BlockSize * Len(blocks)
  PROVE  /\ Stored(mem, blocks, n) =
              [i \in 1 .. n |-> mem[blocks[BlockNo(i - 1)]][SlotNo(i - 1)]]
         /\ \A i \in 1 .. n :
              Stored(mem, blocks, n)[i] = mem[blocks[BlockNo(i - 1)]][SlotNo(i - 1)]
         /\ \A i \in 1 .. n : /\ BlockNo(i - 1) \in DOMAIN blocks /\ SlotNo(i - 1) \in Slot
                              /\ blocks[BlockNo(i - 1)] \in B /\ blocks[BlockNo(i - 1)] \in Range(blocks)
<1>1. Len(blocks) \in Nat /\ DOMAIN blocks = 1 .. Len(blocks)
  BY LenProperties
<1>2. BlockSize * Len(blocks) \in Nat
  BY <1>1, BlockSizeAssumption
<1>3. (IF n < BlockSize * Len(blocks) THEN n ELSE BlockSize * Len(blocks)) = n
  BY <1>2
<1>4. Stored(mem, blocks, n) = [i \in 1 .. n |-> mem[blocks[BlockNo(i - 1)]][SlotNo(i - 1)]]
  BY <1>3 DEF Stored, BlockNo, SlotNo
<1>5. ASSUME NEW i \in 1 .. n
      PROVE  /\ BlockNo(i - 1) \in DOMAIN blocks /\ SlotNo(i - 1) \in Slot
             /\ blocks[BlockNo(i - 1)] \in B /\ blocks[BlockNo(i - 1)] \in Range(blocks)
  <2>1. i - 1 \in Nat /\ i - 1 < BlockSize * Len(blocks)
    BY <1>2
  <2>2. BlockNo(i - 1) \in 1 .. Len(blocks) /\ SlotNo(i - 1) \in Slot
    <3>1. BlockNo(i - 1) <= Len(blocks) /\ BlockNo(i - 1) \in Nat \ {0} /\ SlotNo(i - 1) \in Slot
      BY <2>1, <1>1, CellOfPosition
    <3>. QED  BY <3>1, <1>1
  <2>. QED  BY <2>2, <1>1, ElementOfSeq DEF Range
<1>. QED  BY <1>4, <1>5

(* A list of tokens as long as asked for.                                  *)
LEMMA StoredSeq ==
  ASSUME NEW B, NEW blocks \in Seq(B), NEW mem \in [B -> Content],
         NEW n \in Nat, n <= BlockSize * Len(blocks)
  PROVE  /\ Stored(mem, blocks, n) \in Seq(Token \cup {Zero})
         /\ Len(Stored(mem, blocks, n)) = n
<1>. DEFINE s == Stored(mem, blocks, n)
<1>1. /\ s = [i \in 1 .. n |-> mem[blocks[BlockNo(i - 1)]][SlotNo(i - 1)]]
      /\ \A i \in 1 .. n : SlotNo(i - 1) \in Slot /\ blocks[BlockNo(i - 1)] \in B
  BY StoredAt
<1>2. s \in [1 .. n -> Token \cup {Zero}]
  BY <1>1 DEF Content
<1>. HIDE DEF s
<1>. QED  BY <1>2 DEF s

(* Only the blocks of a sequence matter to it.                             *)
LEMMA StoredAgrees ==
  ASSUME NEW B, NEW blocks \in Seq(B), NEW mem, NEW other, NEW n \in Nat,
         n <= BlockSize * Len(blocks),
         \A b \in Range(blocks) : mem[b] = other[b]
  PROVE  Stored(mem, blocks, n) = Stored(other, blocks, n)
<1>1. \A i \in 1 .. n : blocks[BlockNo(i - 1)] \in Range(blocks)
  BY StoredAt
<1>2. Stored(mem, blocks, n) = [i \in 1 .. n |-> mem[blocks[BlockNo(i - 1)]][SlotNo(i - 1)]]
  BY StoredAt
<1>3. Stored(other, blocks, n) = [i \in 1 .. n |-> other[blocks[BlockNo(i - 1)]][SlotNo(i - 1)]]
  BY StoredAt
<1>. QED  BY <1>1, <1>2, <1>3

(* One more block does not change what the others store.                   *)
LEMMA StoredLonger ==
  ASSUME NEW B, NEW blocks \in Seq(B), NEW b \in B, NEW mem, NEW n \in Nat,
         n <= BlockSize * Len(blocks)
  PROVE  Stored(mem, Append(blocks, b), n) = Stored(mem, blocks, n)
<1>. DEFINE more == Append(blocks, b)
<1>1. /\ more \in Seq(B) /\ Len(more) = Len(blocks) + 1 /\ Len(blocks) \in Nat
      /\ DOMAIN blocks = 1 .. Len(blocks) /\ \A i \in 1 .. Len(blocks) : more[i] = blocks[i]
  BY AppendProperties, LenProperties
<1>2. n <= BlockSize * Len(more)
  BY <1>1, BlockSizeAssumption
<1>3. \A i \in 1 .. n : BlockNo(i - 1) \in DOMAIN blocks
  BY StoredAt
<1>4. Stored(mem, blocks, n) = [i \in 1 .. n |-> mem[blocks[BlockNo(i - 1)]][SlotNo(i - 1)]]
  BY StoredAt
<1>. HIDE DEF more
<1>5. Stored(mem, more, n) = [i \in 1 .. n |-> mem[more[BlockNo(i - 1)]][SlotNo(i - 1)]]
  BY <1>1, <1>2, StoredAt
<1>6. Stored(mem, more, n) = Stored(mem, blocks, n)
  BY <1>1, <1>3, <1>4, <1>5
<1>. QED  BY <1>6 DEF more

(* Writing the next position appends, in distinct blocks, and leaves the   *)
(* other blocks alone.                                                     *)
LEMMA WriteAppends ==
  ASSUME NEW B, NEW blocks \in Seq(B), IsInjective(blocks), NEW mem \in [B -> Content],
         NEW n \in Nat, n < BlockSize * Len(blocks), NEW t \in Token
  PROVE  /\ Write(mem, blocks, n, t) \in [B -> Content]
         /\ \A b \in B \ Range(blocks) : Write(mem, blocks, n, t)[b] = mem[b]
         /\ Stored(Write(mem, blocks, n, t), blocks, n + 1) = Append(Stored(mem, blocks, n), t)
<1>. DEFINE w == Write(mem, blocks, n, t)
            b == blocks[BlockNo(n)]
            k == SlotNo(n)
            at(i) == blocks[BlockNo(i - 1)]
<1>1. /\ Len(blocks) \in Nat /\ DOMAIN blocks = 1 .. Len(blocks) /\ BlockSize * Len(blocks) \in Nat
      /\ n + 1 \in Nat /\ n + 1 <= BlockSize * Len(blocks) /\ n <= BlockSize * Len(blocks)
      /\ (n + 1) - 1 = n
  BY LenProperties, BlockSizeAssumption
<1>2. \A i \in 1 .. n + 1 : /\ BlockNo(i - 1) \in DOMAIN blocks /\ SlotNo(i - 1) \in Slot
                            /\ at(i) \in B /\ at(i) \in Range(blocks)
  BY <1>1, StoredAt
<1>3. /\ BlockNo(n) \in DOMAIN blocks /\ k \in Slot /\ b \in B /\ b \in Range(blocks)
  <2>1. n + 1 \in 1 .. n + 1
    OBVIOUS
  <2>. QED  BY <2>1, <1>1, <1>2
<1>4. w = [mem EXCEPT ![b][k] = t]
  BY DEF Write, BlockNo, SlotNo
<1>. HIDE DEF w, k, b
<1>5. /\ w \in [B -> Content]
      /\ \A c \in B, j \in Slot : w[c][j] = IF c = b /\ j = k THEN t ELSE mem[c][j]
      /\ \A c \in B : c # b => w[c] = mem[c]
  <2>1. /\ DOMAIN w = B
        /\ \A c \in B : w[c] = IF c = b THEN [mem[b] EXCEPT ![k] = t] ELSE mem[c]
    BY <1>3, <1>4
  <2>2. mem[b] \in [Slot -> Token \cup {Zero}]
    BY <1>3 DEF Content
  <2>3. /\ [mem[b] EXCEPT ![k] = t] \in [Slot -> Token \cup {Zero}]
        /\ \A j \in Slot : [mem[b] EXCEPT ![k] = t][j] = IF j = k THEN t ELSE mem[b][j]
    BY <1>3, <2>2
  <2>4. w = [c \in B |-> w[c]]
    BY <1>3, <1>4
  <2>5. \A c \in B : w[c] \in Content
    BY <2>1, <2>3 DEF Content
  <2>. QED  BY <2>1, <2>3, <2>4, <2>5
<1>6. \A i \in 1 .. n : ~(at(i) = b /\ SlotNo(i - 1) = k)
  <2>. SUFFICES ASSUME NEW i \in 1 .. n, at(i) = b, SlotNo(i - 1) = k  PROVE FALSE
    OBVIOUS
  <2>1. i - 1 \in Nat /\ i - 1 # n /\ i \in 1 .. n + 1
    OBVIOUS
  <2>2. BlockNo(i - 1) = BlockNo(n)
    BY <1>2, <1>3, <2>1 DEF b, IsInjective
  <2>. QED  BY <2>1, <2>2, CellOfPosition DEF k
<1>7. \A i \in 1 .. n + 1 : Stored(w, blocks, n + 1)[i] = w[at(i)][SlotNo(i - 1)]
  BY <1>1, StoredAt
<1>8. /\ \A i \in 1 .. n : Stored(mem, blocks, n)[i] = mem[at(i)][SlotNo(i - 1)]
      /\ Stored(mem, blocks, n) \in Seq(Token \cup {Zero})
      /\ Len(Stored(mem, blocks, n)) = n
  <2>1. n <= BlockSize * Len(blocks)
    BY <1>1
  <2>2. \A i \in 1 .. n : Stored(mem, blocks, n)[i] = mem[at(i)][SlotNo(i - 1)]
    BY <2>1, StoredAt
  <2>3. /\ Stored(mem, blocks, n) \in Seq(Token \cup {Zero})
        /\ Len(Stored(mem, blocks, n)) = n
    BY <2>1, StoredSeq
  <2>. QED  BY <2>2, <2>3
<1>9. \A i \in 1 .. n : w[at(i)][SlotNo(i - 1)] = mem[at(i)][SlotNo(i - 1)]
  <2>. SUFFICES ASSUME NEW i \in 1 .. n
                PROVE  w[at(i)][SlotNo(i - 1)] = mem[at(i)][SlotNo(i - 1)]
    OBVIOUS
  <2>1. i \in 1 .. n + 1
    OBVIOUS
  <2>. QED  BY <2>1, <1>2, <1>5, <1>6
<1>10. w[at(n + 1)][SlotNo((n + 1) - 1)] = t
  BY <1>1, <1>3, <1>5 DEF b, k
<1>11. Stored(w, blocks, n + 1) = Append(Stored(mem, blocks, n), t)
  <2>. DEFINE s == Stored(mem, blocks, n)
              r == Stored(w, blocks, n + 1)
  <2>1. /\ Append(s, t) \in Seq(Token \cup {Zero}) /\ Len(Append(s, t)) = n + 1
        /\ \A i \in 1 .. n : Append(s, t)[i] = s[i]
        /\ Append(s, t)[n + 1] = t
    BY <1>8, AppendProperties
  <2>2. /\ r \in Seq(Token \cup {Zero}) /\ Len(r) = n + 1
    BY <1>1, <1>5, StoredSeq
  <2>3. \A i \in 1 .. n : r[i] = s[i]
    <3>. SUFFICES ASSUME NEW i \in 1 .. n  PROVE r[i] = s[i]
      OBVIOUS
    <3>1. i \in 1 .. n + 1
      OBVIOUS
    <3>. QED  BY <3>1, <1>7, <1>8, <1>9
  <2>4. r[n + 1] = t
    <3>1. n + 1 \in 1 .. n + 1
      OBVIOUS
    <3>. QED  BY <3>1, <1>7, <1>10
  <2>. HIDE DEF r, s
  <2>5. \A i \in 1 .. n + 1 : r[i] = Append(s, t)[i]
    BY <2>1, <2>3, <2>4
  <2>6. r = Append(s, t)
    BY <2>1, <2>2, <2>5, SeqEqual
  <2>. QED  BY <2>6 DEF r, s
<1>. QED  BY <1>3, <1>5, <1>11 DEF w

----------------------------------------------------------------------------
(* Both classes of BlockTables: who has which block, and what it keeps.    *)

Ownership ==
  /\ freeBlocks \in Seq(BlockId) /\ tables \in [Sequence -> Seq(BlockId)]
  /\ IsInjective(freeBlocks)
  /\ \A s \in Sequence : IsInjective(tables[s]) /\ Range(tables[s]) \cap Range(freeBlocks) = {}
  /\ \A s, r \in Sequence : s # r => Range(tables[s]) \cap Range(tables[r]) = {}

(* No token has been written where the sequence has no block.              *)
Filled ==
  /\ kvCache \in [BlockId -> Content] /\ written \in [Sequence -> Nat]
  /\ \A s \in Sequence : written[s] <= BlockSize * Len(tables[s])

(* Without blocks nothing is stored.                                       *)
LEMMA NothingStored ==
  ASSUME NEW mem, NEW n \in Nat
  PROVE  Stored(mem, <<>>, n) = <<>>
<1>1. Len(<<>>) = 0 /\ BlockSize * 0 = 0
  BY EmptyElements, BlockSizeAssumption
<1>2. (IF n < BlockSize * Len(<<>>) THEN n ELSE BlockSize * Len(<<>>)) = 0
  BY <1>1
<1>3. \A f : [i \in 1 .. 0 |-> f[i]] = <<>>
  OBVIOUS
<1>. QED  BY <1>2 DEF Stored

(* Before the first token nothing is stored.                               *)
LEMMA NothingYet ==
  ASSUME NEW B, NEW blocks \in Seq(B), NEW mem \in [B -> Content]
  PROVE  Stored(mem, blocks, 0) = <<>>
<1>1. BlockSize * Len(blocks) \in Nat
  BY LenProperties, BlockSizeAssumption
<1>2. /\ Stored(mem, blocks, 0) \in Seq(Token \cup {Zero})
      /\ Len(Stored(mem, blocks, 0)) = 0
  BY <1>1, StoredSeq
<1>. QED  BY <1>2, EmptySeq

(* At the start all blocks are free and nobody has written anything.       *)
LEMMA InitTables ==
  ASSUME TablesInit
  PROVE  Ownership /\ Filled /\ TablesPool!PoolInit /\ TablesStore!StoreInit
<1>. USE NumBlocksAssumption, BlockSizeAssumption, EmptyElements
<1>1. /\ freeBlocks = [i \in 1 .. NumBlocks |-> i - 1]
      /\ tables = [s \in Sequence |-> <<>>] /\ written = [s \in Sequence |-> 0]
      /\ kvCache = [b \in BlockId |-> [i \in Slot |-> Zero]]
  BY DEF TablesInit
<1>2. /\ freeBlocks \in Seq(BlockId) /\ DOMAIN freeBlocks = 1 .. NumBlocks
  <2>1. freeBlocks \in [1 .. NumBlocks -> BlockId]
    BY <1>1 DEF BlockId
  <2>. QED  BY <2>1
<1>3. IsInjective(freeBlocks)
  BY <1>1, <1>2 DEF IsInjective
<1>4. Range(freeBlocks) = BlockId
  <2>1. ASSUME NEW b \in BlockId  PROVE b \in Range(freeBlocks)
    <3>1. b + 1 \in 1 .. NumBlocks /\ freeBlocks[b + 1] = b
      BY <1>1 DEF BlockId
    <3>. QED  BY <3>1, <1>2 DEF Range
  <2>. QED  BY <2>1, <1>2, RangeOfSeq
<1>5. Ownership
  BY <1>1, <1>2, <1>3 DEF Ownership
<1>6. Filled
  <2>1. [i \in Slot |-> Zero] \in Content
    BY DEF Content
  <2>2. kvCache \in [BlockId -> Content]
    BY <1>1, <2>1
  <2>3. \A s \in Sequence : written[s] <= BlockSize * Len(tables[s])
    BY <1>1
  <2>. QED  BY <1>1, <2>2, <2>3 DEF Filled
<1>7. TablesPool!PoolInit
  BY <1>1, <1>4 DEF TablesPool!PoolInit
<1>8. TablesStore!StoreInit
  <2>1. \A s \in Sequence : Stored(kvCache, tables[s], written[s]) = <<>>
    BY <1>1, NothingStored
  <2>. QED  BY <1>1, <2>1 DEF TablesStore!StoreInit
<1>. QED  BY <1>5, <1>6, <1>7, <1>8

(* A sequence gets n blocks from the end of the free list.                 *)
LEMMA TakeBlocks ==
  ASSUME Ownership, NEW s \in Sequence, NEW n \in Nat, n <= Len(freeBlocks),
         freeBlocks' = AfterPops(freeBlocks, n),
         NEW more \in Seq(BlockId), IsInjective(more),
         Range(more) = Range(tables[s]) \cup Range(Taken(n)),
         tables' = [tables EXCEPT ![s] = more]
  PROVE  Ownership' /\ TablesPool!GrowingPoolNext
<1>. DEFINE S == Range(Taken(n))
<1>1. /\ freeBlocks' \in Seq(BlockId) /\ IsInjective(freeBlocks')
      /\ S \subseteq Range(freeBlocks) /\ Range(freeBlocks') = Range(freeBlocks) \ S
  BY PopElements DEF Ownership, Taken
<1>2. /\ tables' \in [Sequence -> Seq(BlockId)]
      /\ \A r \in Sequence : tables'[r] = IF r = s THEN more ELSE tables[r]
      /\ Range(freeBlocks) \subseteq BlockId
  BY RangeOfSeq DEF Ownership
<1>. HIDE DEF S
<1>3. \A r \in Sequence :
        Range(tables'[r]) = IF r = s THEN Range(tables[s]) \cup S ELSE Range(tables[r])
  BY <1>2 DEF S
<1>4. Ownership'
  <2>1. ASSUME NEW r \in Sequence
        PROVE  IsInjective(tables'[r]) /\ Range(tables'[r]) \cap Range(freeBlocks') = {}
    BY <1>1, <1>2, <1>3 DEF Ownership
  <2>2. ASSUME NEW r \in Sequence, NEW q \in Sequence, r # q
        PROVE  Range(tables'[r]) \cap Range(tables'[q]) = {}
    BY <2>2, <1>1, <1>3 DEF Ownership
  <2>. QED  BY <1>1, <1>2, <2>1, <2>2 DEF Ownership
<1>5. TablesPool!Grow(s, S)
  BY <1>1, <1>3 DEF TablesPool!Grow
<1>. QED  BY <1>1, <1>2, <1>4, <1>5 DEF TablesPool!GrowingPoolNext

(* A sequence gives its blocks back.                                       *)
LEMMA ReturnBlocks ==
  ASSUME Ownership, NEW s \in Sequence,
         freeBlocks' = freeBlocks \o tables[s], tables' = [tables EXCEPT ![s] = <<>>]
  PROVE  Ownership' /\ TablesPool!GrowingPoolNext
<1>1. /\ freeBlocks \in Seq(BlockId) /\ tables[s] \in Seq(BlockId)
      /\ IsInjective(freeBlocks) /\ IsInjective(tables[s])
      /\ Range(freeBlocks) \cap Range(tables[s]) = {}
  BY DEF Ownership
<1>2. /\ freeBlocks' \in Seq(BlockId) /\ IsInjective(freeBlocks')
      /\ Range(freeBlocks') = Range(freeBlocks) \cup Range(tables[s])
  BY <1>1, ConcatElements
<1>3. /\ tables' \in [Sequence -> Seq(BlockId)]
      /\ \A r \in Sequence : tables'[r] = IF r = s THEN <<>> ELSE tables[r]
      /\ \A r \in Sequence : Range(tables'[r]) = IF r = s THEN {} ELSE Range(tables[r])
  BY EmptyElements DEF Ownership
<1>4. Ownership'
  <2>1. ASSUME NEW r \in Sequence
        PROVE  IsInjective(tables'[r]) /\ Range(tables'[r]) \cap Range(freeBlocks') = {}
    BY <1>2, <1>3, EmptyElements DEF Ownership
  <2>2. ASSUME NEW r \in Sequence, NEW q \in Sequence, r # q
        PROVE  Range(tables'[r]) \cap Range(tables'[q]) = {}
    BY <2>2, <1>3 DEF Ownership
  <2>. QED  BY <1>2, <1>3, <2>1, <2>2 DEF Ownership
<1>5. TablesPool!Release(s)
  <2>1. \A b \in Range(tables[s]) : \A r \in Sequence \ {s} : b \notin Range(tables[r])
    BY DEF Ownership
  <2>. QED  BY <1>2, <1>3, <2>1 DEF TablesPool!Release
<1>. QED  BY <1>4, <1>5 DEF TablesPool!GrowingPoolNext

(* A token is written at the next position, with a new block or without.   *)
LEMMA PutToken ==
  ASSUME Ownership, Ownership', Filled, NEW s \in Sequence, NEW t \in Token,
         \/ tables' = tables
         \/ \E b \in BlockId : tables' = [tables EXCEPT ![s] = Append(@, b)],
         written[s] < BlockSize * Len(tables'[s]),
         kvCache' = Write(kvCache, tables'[s], written[s], t),
         written' = [written EXCEPT ![s] = @ + 1]
  PROVE  Filled' /\ TablesStore!Put(s, t)
<1>. DEFINE n == written[s]
            mine == tables'[s]
<1>1. /\ tables[s] \in Seq(BlockId) /\ mine \in Seq(BlockId) /\ IsInjective(mine)
      /\ kvCache \in [BlockId -> Content] /\ n \in Nat /\ n <= BlockSize * Len(tables[s])
      /\ \A r \in Sequence : /\ tables[r] \in Seq(BlockId) /\ written[r] \in Nat
                             /\ written[r] <= BlockSize * Len(tables[r])
  BY DEF Ownership, Filled
<1>2. /\ \A r \in Sequence \ {s} : tables'[r] = tables[r]
      /\ Stored(kvCache, mine, n) = Stored(kvCache, tables[s], n)
  <2>1. CASE tables' = tables
    BY <2>1
  <2>2. CASE \E b \in BlockId : tables' = [tables EXCEPT ![s] = Append(@, b)]
    <3>1. PICK b \in BlockId : tables' = [tables EXCEPT ![s] = Append(@, b)]
      BY <2>2
    <3>2. mine = Append(tables[s], b) /\ \A r \in Sequence \ {s} : tables'[r] = tables[r]
      BY <3>1 DEF Ownership
    <3>. QED  BY <3>2, <1>1, StoredLonger
  <2>. QED  BY <2>1, <2>2
<1>. HIDE DEF mine, n
<1>3. /\ kvCache' = Write(kvCache, mine, n, t) /\ n < BlockSize * Len(mine)
      /\ written' \in [Sequence -> Nat]
      /\ \A r \in Sequence : written'[r] = IF r = s THEN n + 1 ELSE written[r]
  BY DEF mine, n, Filled
<1>4. /\ kvCache' \in [BlockId -> Content]
      /\ \A b \in BlockId \ Range(mine) : kvCache'[b] = kvCache[b]
      /\ Stored(kvCache', mine, n + 1) = Append(Stored(kvCache, mine, n), t)
  <2>. DEFINE w == Write(kvCache, mine, n, t)
  <2>1. /\ w \in [BlockId -> Content]
        /\ \A b \in BlockId \ Range(mine) : w[b] = kvCache[b]
        /\ Stored(w, mine, n + 1) = Append(Stored(kvCache, mine, n), t)
    <3>1. /\ mine \in Seq(BlockId) /\ IsInjective(mine) /\ kvCache \in [BlockId -> Content]
          /\ n \in Nat /\ n < BlockSize * Len(mine) /\ t \in Token
      BY <1>1, <1>3
    <3>. QED  BY ONLY <3>1, WriteAppends
  <2>2. kvCache' = w
    BY <1>3
  <2>. HIDE DEF w
  <2>. QED  BY <2>1, <2>2
<1>5. \A r \in Sequence : written'[r] <= BlockSize * Len(tables'[r])
  <2>1. Len(mine) \in Nat
    BY <1>1, LenProperties
  <2>2. n + 1 <= BlockSize * Len(mine)
    BY <1>1, <1>3, <2>1, BlockSizeAssumption
  <2>. QED  BY <1>1, <1>2, <1>3, <2>2 DEF mine
<1>6. Filled'
  BY <1>3, <1>4, <1>5 DEF Filled
<1>7. ASSUME NEW r \in Sequence \ {s}
      PROVE  Stored(kvCache', tables'[r], written'[r]) = Stored(kvCache, tables[r], written[r])
  <2>1. /\ Range(tables[r]) \subseteq BlockId /\ tables'[r] = tables[r]
        /\ Range(tables[r]) \cap Range(mine) = {}
    BY <1>1, <1>2, RangeOfSeq DEF Ownership, mine
  <2>2. \A b \in Range(tables[r]) : kvCache[b] = kvCache'[b]
    BY <1>4, <2>1
  <2>3. Stored(kvCache, tables[r], written[r]) = Stored(kvCache', tables[r], written[r])
    BY <1>1, <2>2, StoredAgrees
  <2>. QED  BY <1>3, <2>1, <2>3
<1>8. Stored(kvCache', tables'[s], written'[s]) = Append(Stored(kvCache, tables[s], written[s]), t)
  BY <1>2, <1>3, <1>4 DEF mine, n
<1>9. TablesStore!Put(s, t)
  BY <1>7, <1>8 DEF TablesStore!Put
<1>. QED  BY <1>6, <1>9

(* A sequence without blocks reads nothing.                                *)
LEMMA DropTokens ==
  ASSUME Filled, NEW s \in Sequence, tables \in [Sequence -> Seq(BlockId)],
         tables' = [tables EXCEPT ![s] = <<>>],
         written' = [written EXCEPT ![s] = 0], kvCache' = kvCache
  PROVE  Filled' /\ TablesStore!Drop(s)
<1>1. /\ \A r \in Sequence : tables'[r] = IF r = s THEN <<>> ELSE tables[r]
      /\ \A r \in Sequence : written'[r] = IF r = s THEN 0 ELSE written[r]
      /\ written' \in [Sequence -> Nat] /\ kvCache' \in [BlockId -> Content]
  BY DEF Filled
<1>2. 0 <= BlockSize * Len(<<>>)
  BY EmptyElements, BlockSizeAssumption
<1>3. \A r \in Sequence : written'[r] <= BlockSize * Len(tables'[r])
  BY <1>1, <1>2 DEF Filled
<1>4. Stored(kvCache', tables'[s], written'[s]) = <<>>
  BY <1>1, NothingStored
<1>5. \A r \in Sequence \ {s} :
        Stored(kvCache', tables'[r], written'[r]) = Stored(kvCache, tables[r], written[r])
  BY <1>1
<1>6. TablesStore!Drop(s)
  BY <1>4, <1>5 DEF TablesStore!Drop
<1>. QED  BY <1>1, <1>3, <1>6 DEF Filled

----------------------------------------------------------------------------
(* Tables made whole, src/src/paged_attention.py.                          *)

(* The table of a sequence has the blocks that its room needs.             *)
PagedInv ==
  /\ Ownership /\ Filled
  /\ room \in [Sequence -> Nat]
  /\ \A s \in Sequence : written[s] <= room[s] /\ Len(tables[s]) = BlocksNeeded(room[s])

(* No table needs blocks at the start.                                     *)
LEMMA InitPagedInv == PagedInit => PagedInv
<1>. SUFFICES ASSUME PagedInit PROVE PagedInv
  OBVIOUS
<1>1. Ownership /\ Filled
  BY InitTables DEF PagedInit
<1>2. \A s \in Sequence : Len(tables[s]) = BlocksNeeded(0)
  BY EnoughBlocks, EmptyElements DEF PagedInit, TablesInit
<1>. QED  BY <1>1, <1>2 DEF PagedInv, PagedInit, TablesInit

(* A table made whole has distinct free blocks, and nothing is read yet.   *)
LEMMA AllocateSequenceStep ==
  ASSUME PagedInv, NEW s \in Sequence, NEW n \in 1 .. NumBlocks * BlockSize,
         AllocateSequence(s, n)
  PROVE  /\ PagedInv' /\ TablesPool!GrowingPoolNext
         /\ UNCHANGED TablesStore!storeVars
<1>. DEFINE k == BlocksNeeded(n)
            more == Taken(k)
<1>1. n \in Nat /\ k \in Nat /\ k <= Len(freeBlocks)
  <2>1. NumBlocks * BlockSize \in Nat
    BY NumBlocksAssumption, BlockSizeAssumption
  <2>2. n \in Nat
    BY <2>1
  <2>. QED  BY <2>2, EnoughBlocks DEF AllocateSequence
<1>2. /\ tables[s] = <<>> /\ Ownership /\ Filled
      /\ tables' = [tables EXCEPT ![s] = more] /\ freeBlocks' = AfterPops(freeBlocks, k)
      /\ kvCache' = kvCache /\ written' = written /\ room' = [room EXCEPT ![s] = n]
  BY DEF AllocateSequence, PagedInv
<1>. HIDE DEF k
<1>3. more \in Seq(BlockId) /\ Len(more) = k /\ IsInjective(more)
  BY <1>1, <1>2, PopElements DEF Ownership, Taken
<1>4. Range(more) = Range(tables[s]) \cup Range(Taken(k))
  BY <1>2, EmptyElements
<1>5. Ownership' /\ TablesPool!GrowingPoolNext
  BY <1>1, <1>2, <1>3, <1>4, TakeBlocks
<1>. HIDE DEF more
<1>6. \A r \in Sequence : /\ tables'[r] = IF r = s THEN more ELSE tables[r]
                          /\ room'[r] = IF r = s THEN n ELSE room[r]
  BY <1>2 DEF Ownership, PagedInv
<1>7. written[s] = 0 /\ 0 <= BlockSize * Len(more)
  <2>1. written[s] <= BlockSize * 0 /\ written[s] \in Nat
    BY <1>2, EmptyElements DEF Filled
  <2>2. BlockSize * Len(more) \in Nat
    BY <1>1, <1>3, BlockSizeAssumption
  <2>. QED  BY <2>1, <2>2, BlockSizeAssumption
<1>8. Filled'
  BY <1>2, <1>6, <1>7 DEF Filled
<1>9. PagedInv'
  <2>1. room' \in [Sequence -> Nat]
    BY <1>1, <1>2 DEF PagedInv
  <2>2. \A r \in Sequence : written'[r] <= room'[r]
    BY <1>1, <1>2, <1>6, <1>7 DEF PagedInv
  <2>3. \A r \in Sequence : Len(tables'[r]) = BlocksNeeded(room'[r])
    BY <1>3, <1>6 DEF PagedInv, k
  <2>. QED  BY <1>5, <1>8, <2>1, <2>2, <2>3 DEF PagedInv
<1>10. UNCHANGED TablesStore!storeVars
  <2>1. Stored(kvCache', tables'[s], written'[s]) = Stored(kvCache, tables[s], written[s])
    <3>1. /\ kvCache \in [BlockId -> Content] /\ more \in Seq(BlockId)
          /\ tables[s] \in Seq(BlockId)
      BY <1>2, <1>3 DEF Filled, Ownership
    <3>2. Stored(kvCache, more, 0) = <<>> /\ Stored(kvCache, tables[s], 0) = <<>>
      BY <3>1, NothingYet
    <3>. QED  BY <3>2, <1>2, <1>6, <1>7
  <2>2. \A r \in Sequence :
          Stored(kvCache', tables'[r], written'[r]) = Stored(kvCache, tables[r], written[r])
    BY <1>2, <1>6, <2>1
  <2>. QED  BY <1>2, <2>2 DEF TablesStore!storeVars
<1>. QED  BY <1>5, <1>9, <1>10

(* The next position is within the blocks that the room needs.             *)
LEMMA WriteToCacheStep ==
  ASSUME PagedInv, NEW s \in Sequence, NEW t \in Token, WriteToCache(s, t)
  PROVE  /\ PagedInv' /\ TablesStore!StoreNext
         /\ UNCHANGED TablesPool!poolVars
<1>1. /\ written[s] \in Nat /\ room[s] \in Nat /\ written[s] < room[s]
      /\ Len(tables[s]) = BlocksNeeded(room[s])
      /\ freeBlocks' = freeBlocks /\ tables' = tables /\ room' = room
      /\ written' = [written EXCEPT ![s] = @ + 1]
  BY DEF WriteToCache, PagedInv, Filled
<1>2. Len(tables[s]) \in Nat /\ written[s] < BlockSize * Len(tables[s])
  <2>1. /\ BlocksNeeded(room[s]) \in Nat
        /\ room[s] <= BlockSize * BlocksNeeded(room[s])
    BY <1>1, EnoughBlocks
  <2>. QED  BY <1>1, <2>1, BlockSizeAssumption
<1>3. written[s] \div BlockSize < Len(tables[s])
  BY <1>1, <1>2, BlockSizeAssumption
<1>4. kvCache' = Write(kvCache, tables'[s], written[s], t)
  BY <1>1, <1>3 DEF WriteToCache
<1>5. Ownership /\ Ownership' /\ Filled
  BY <1>1 DEF PagedInv, Ownership
<1>6. Filled' /\ TablesStore!Put(s, t)
  BY <1>1, <1>2, <1>4, <1>5, PutToken
<1>7. PagedInv'
  <2>1. \A r \in Sequence : written'[r] <= room'[r]
    BY <1>1 DEF PagedInv, Filled
  <2>. QED  BY <1>1, <1>5, <1>6, <2>1 DEF PagedInv
<1>. QED  BY <1>1, <1>6, <1>7 DEF TablesPool!poolVars, TablesStore!StoreNext

(* A freed sequence has neither blocks nor tokens.                         *)
LEMMA FreeSequenceStep ==
  ASSUME PagedInv, NEW s \in Sequence, FreeSequence(s)
  PROVE  PagedInv' /\ TablesPool!GrowingPoolNext /\ TablesStore!StoreNext
<1>1. /\ Ownership /\ Filled /\ tables \in [Sequence -> Seq(BlockId)]
      /\ freeBlocks' = freeBlocks \o tables[s] /\ tables' = [tables EXCEPT ![s] = <<>>]
      /\ written' = [written EXCEPT ![s] = 0] /\ kvCache' = kvCache
      /\ room' = [room EXCEPT ![s] = 0]
  BY DEF FreeSequence, PagedInv, Ownership
<1>2. Ownership' /\ TablesPool!GrowingPoolNext
  BY <1>1, ReturnBlocks
<1>3. Filled' /\ TablesStore!Drop(s)
  BY <1>1, DropTokens
<1>4. PagedInv'
  <2>1. \A r \in Sequence : /\ tables'[r] = IF r = s THEN <<>> ELSE tables[r]
                            /\ room'[r] = IF r = s THEN 0 ELSE room[r]
                            /\ written'[r] = IF r = s THEN 0 ELSE written[r]
    BY <1>1 DEF PagedInv, Filled
  <2>2. Len(<<>>) = BlocksNeeded(0) /\ 0 \in Nat
    BY EnoughBlocks, EmptyElements
  <2>3. room' \in [Sequence -> Nat]
    BY <1>1 DEF PagedInv
  <2>4. \A r \in Sequence : written'[r] <= room'[r] /\ Len(tables'[r]) = BlocksNeeded(room'[r])
    BY <2>1, <2>2 DEF PagedInv
  <2>. QED  BY <1>2, <1>3, <2>3, <2>4 DEF PagedInv
<1>. QED  BY <1>2, <1>3, <1>4 DEF TablesStore!StoreNext

(* Every step keeps the invariant and is one of the pool and of the store. *)
LEMMA PagedStep ==
  ASSUME PagedInv, [PagedNext]_pagedVars
  PROVE  /\ PagedInv'
         /\ [TablesPool!GrowingPoolNext]_(TablesPool!poolVars)
         /\ [TablesStore!StoreNext]_(TablesStore!storeVars)
<1>1. CASE UNCHANGED pagedVars
  BY <1>1 DEF pagedVars, tableVars, PagedInv, Ownership, Filled, TablesPool!poolVars,
              TablesStore!storeVars
<1>2. CASE PagedNext
  <2>1. PICK s \in Sequence : \/ \E n \in 1 .. NumBlocks * BlockSize : AllocateSequence(s, n)
                              \/ \E t \in Token : WriteToCache(s, t)
                              \/ FreeSequence(s)
    BY <1>2 DEF PagedNext
  <2>. QED  BY <2>1, AllocateSequenceStep, WriteToCacheStep, FreeSequenceStep
<1>. QED  BY <1>1, <1>2

(* Tables, free list and cells keep their types.                           *)
THEOREM ReservedTypeCorrect == PagedSpec => []TablesTypeOK
<1>1. PagedInv /\ [PagedNext]_pagedVars => PagedInv'
  BY PagedStep
<1>2. PagedInv => TablesTypeOK
  BY DEF PagedInv, Ownership, Filled, TablesTypeOK
<1>. QED  BY <1>1, <1>2, InitPagedInv, PTL DEF PagedSpec

(* Reserving blocks for a whole sequence never gives one block to two, and *)
(* a sequence that is freed gives back what it had and no more.            *)
THEOREM ReservedBlocksArePool == PagedSpec => TablesRefinePool
<1>1. PagedInit => TablesPool!PoolInit
  BY InitTables DEF PagedInit
<1>2. PagedInv /\ [PagedNext]_pagedVars =>
        PagedInv' /\ [TablesPool!GrowingPoolNext]_(TablesPool!poolVars)
  BY PagedStep
<1>. QED
  BY <1>1, <1>2, InitPagedInv, PTL DEF PagedSpec, TablesRefinePool, TablesPool!GrowingPoolSpec

(* No token is dropped at the edge of the last block, for the room a       *)
(* sequence asked for is covered, and none is overwritten by another's.    *)
THEOREM ReservedTokensKept == PagedSpec => TablesKeepTokens
<1>1. PagedInit => TablesStore!StoreInit
  BY InitTables DEF PagedInit
<1>2. PagedInv /\ [PagedNext]_pagedVars =>
        PagedInv' /\ [TablesStore!StoreNext]_(TablesStore!storeVars)
  BY PagedStep
<1>. QED
  BY <1>1, <1>2, InitPagedInv, PTL DEF PagedSpec, TablesKeepTokens, TablesStore!StoreSpec

----------------------------------------------------------------------------
(* Tables that grow, src/src/vllm_rocm/paged_attention.py.                 *)

(* A block in a table is referenced once, so free_block gives it back.     *)
RocmInv ==
  /\ Ownership /\ Filled
  /\ blockRefs \in [BlockId -> Int]
  /\ \A s \in Sequence : \A b \in Range(tables[s]) : blockRefs[b] = 1

(* No block is in a table at the start.                                    *)
LEMMA InitRocmInv == RocmInit => RocmInv
<1>. SUFFICES ASSUME RocmInit PROVE RocmInv
  OBVIOUS
<1>1. Ownership /\ Filled
  BY InitTables DEF RocmInit
<1>. QED  BY <1>1, EmptyElements DEF RocmInv, RocmInit, TablesInit

(* A position whose block is in the table is within the table's room.      *)
LEMMA RoomLeft ==
  ASSUME NEW w \in Nat, NEW l \in Nat, ~(w \div BlockSize >= l)
  PROVE  w < BlockSize * l
<1>1. BlockNo(w) \in Nat /\ (w < BlockSize * l <=> BlockNo(w) <= l)
  BY CellOfPosition
<1>2. (w \div BlockSize) \in Int
  BY <1>1, BlockSizeAssumption
<1>. QED  BY <1>1, <1>2 DEF BlockNo

(* The new block goes to the end of the table, or there is room already.   *)
LEMMA AppendTokenStep ==
  ASSUME RocmInv, NEW s \in Sequence, NEW t \in Token, AppendToken(s, t)
  PROVE  /\ RocmInv'
         /\ [TablesPool!GrowingPoolNext]_(TablesPool!poolVars)
         /\ TablesStore!Put(s, t)
         /\ \/ tables' = tables
            \/ \E b \in BlockId : tables' = [tables EXCEPT ![s] = Append(@, b)]
<1>1. /\ Ownership /\ Filled /\ written[s] \in Nat /\ tables[s] \in Seq(BlockId)
      /\ freeBlocks \in Seq(BlockId) /\ IsInjective(freeBlocks)
      /\ Len(tables[s]) \in Nat /\ written[s] <= BlockSize * Len(tables[s])
      /\ written' = [written EXCEPT ![s] = @ + 1]
  BY LenProperties DEF RocmInv, Ownership, Filled, AppendToken
<1>2. CASE ~(written[s] \div BlockSize >= Len(tables[s]))
  <2>1. /\ kvCache' = Write(kvCache, tables[s], written[s], t)
        /\ freeBlocks' = freeBlocks /\ tables' = tables /\ blockRefs' = blockRefs
    BY <1>2 DEF AppendToken
  <2>2. written[s] < BlockSize * Len(tables[s])
    BY <1>1, <1>2, RoomLeft
  <2>3. Ownership'
    BY <1>1, <2>1 DEF Ownership
  <2>4. Filled' /\ TablesStore!Put(s, t)
    BY <1>1, <2>1, <2>2, <2>3, PutToken
  <2>5. UNCHANGED TablesPool!poolVars
    BY <2>1 DEF TablesPool!poolVars
  <2>. QED  BY <2>1, <2>3, <2>4, <2>5 DEF RocmInv
<1>3. CASE written[s] \div BlockSize >= Len(tables[s])
  <2>. DEFINE b == Last(freeBlocks)
              more == Append(tables[s], b)
  <2>1. /\ freeBlocks # <<>> /\ tables' = [tables EXCEPT ![s] = more]
        /\ kvCache' = Write(kvCache, tables'[s], written[s], t)
        /\ blockRefs' = [blockRefs EXCEPT ![b] = 1]
        /\ freeBlocks' = AfterPops(freeBlocks, 1)
    BY <1>1, <1>3 DEF AppendToken, AppendToNew, Ownership
  <2>2. Len(freeBlocks) \in Nat \ {0} /\ DOMAIN freeBlocks = 1 .. Len(freeBlocks)
    BY <1>1, <2>1, LenProperties, EmptySeq
  <2>3. b \in BlockId /\ b \in Range(freeBlocks) /\ b = freeBlocks[Len(freeBlocks)]
    BY <1>1, <2>2, ElementOfSeq DEF Last, Range
  <2>. HIDE DEF b
  <2>4. Range(Taken(1)) = {b}
    <3>1. Taken(1) = [i \in 1 .. 1 |-> freeBlocks[Len(freeBlocks) + 1 - i]]
      BY DEF Taken, Pops
    <3>2. DOMAIN Taken(1) = {1} /\ Taken(1)[1] = b
      BY <2>2, <2>3, <3>1
    <3>. QED  BY <3>2 DEF Range
  <2>5. b \notin Range(tables[s]) /\ \A r \in Sequence : b \notin Range(tables[r])
    BY <2>3 DEF RocmInv, Ownership
  <2>6. /\ more \in Seq(BlockId) /\ IsInjective(more) /\ Len(more) = Len(tables[s]) + 1
        /\ Range(more) = Range(tables[s]) \cup Range(Taken(1))
    <3>1. IsInjective(tables[s])
      BY <1>1 DEF Ownership
    <3>2. /\ more \in Seq(BlockId) /\ Range(more) = Range(tables[s]) \cup {b} /\ IsInjective(more)
      BY <1>1, <2>3, <2>5, <3>1, AppendElements
    <3>. QED  BY <1>1, <2>3, <2>4, <3>2, AppendProperties
  <2>7. Ownership' /\ TablesPool!GrowingPoolNext
    <3>1. 1 \in Nat /\ 1 <= Len(freeBlocks)
      BY <2>2
    <3>. HIDE DEF more
    <3>. QED  BY <1>1, <2>1, <2>6, <3>1, TakeBlocks
  <2>8. \A r \in Sequence : tables'[r] = IF r = s THEN more ELSE tables[r]
    BY <1>1, <2>1 DEF Ownership
  <2>9. written[s] < BlockSize * Len(tables'[s])
    <3>. HIDE DEF more
    <3>1. tables'[s] = more /\ Len(more) = Len(tables[s]) + 1
      BY <2>6, <2>8
    <3>2. /\ BlockSize * (Len(tables[s]) + 1) = BlockSize * Len(tables[s]) + BlockSize
          /\ BlockSize * Len(tables[s]) \in Nat
      BY <1>1, BlockSizeAssumption
    <3>. QED  BY <1>1, <3>1, <3>2, BlockSizeAssumption
  <2>10. tables' = [tables EXCEPT ![s] = Append(@, b)]
    BY <2>1
  <2>11. Filled' /\ TablesStore!Put(s, t)
    BY <1>1, <2>1, <2>3, <2>7, <2>9, <2>10, PutToken
  <2>12. /\ blockRefs' \in [BlockId -> Int]
         /\ \A r \in Sequence : \A c \in Range(tables'[r]) : blockRefs'[c] = 1
    <3>1. /\ blockRefs' \in [BlockId -> Int]
          /\ \A c \in BlockId : blockRefs'[c] = IF c = b THEN 1 ELSE blockRefs[c]
      BY <2>1, <2>3 DEF RocmInv
    <3>2. \A r \in Sequence : Range(tables'[r]) \subseteq Range(tables[r]) \cup {b}
      BY <2>4, <2>6, <2>8
    <3>3. \A r \in Sequence : Range(tables[r]) \subseteq BlockId
      BY <1>1, RangeOfSeq DEF Ownership
    <3>. QED  BY <3>1, <3>2, <3>3, <2>3 DEF RocmInv
  <2>. QED  BY <2>3, <2>7, <2>10, <2>11, <2>12 DEF RocmInv
<1>. QED  BY <1>2, <1>3

(* As its blocks are referenced once, all of them return.                  *)
LEMMA EndSequenceStep ==
  ASSUME RocmInv, NEW s \in Sequence, EndSequence(s)
  PROVE  RocmInv' /\ TablesPool!GrowingPoolNext /\ TablesStore!Drop(s)
<1>1. /\ Ownership /\ Filled /\ tables \in [Sequence -> Seq(BlockId)]
      /\ tables' = [tables EXCEPT ![s] = <<>>]
      /\ written' = [written EXCEPT ![s] = 0] /\ kvCache' = kvCache
      /\ freeBlocks' = freeBlocks \o Unreferenced(s)
  BY DEF EndSequence, RocmInv, Ownership
<1>2. \A r \in Sequence : Range(tables[r]) \subseteq BlockId
  BY <1>1, RangeOfSeq
<1>3. Unreferenced(s) = tables[s]
  <2>1. Range(tables[s]) \subseteq {b \in BlockId : blockRefs[b] <= 1}
    BY <1>2 DEF RocmInv
  <2>. QED  BY <2>1 DEF Unreferenced, KeepOnly
<1>4. Ownership' /\ TablesPool!GrowingPoolNext
  BY <1>1, <1>3, ReturnBlocks
<1>5. Filled' /\ TablesStore!Drop(s)
  BY <1>1, DropTokens
<1>6. /\ blockRefs' \in [BlockId -> Int]
      /\ \A b \in BlockId \ Range(tables[s]) : blockRefs'[b] = blockRefs[b]
  BY DEF EndSequence, RocmInv
<1>7. ASSUME NEW r \in Sequence, NEW b \in Range(tables'[r])  PROVE blockRefs'[b] = 1
  <2>1. r # s /\ b \in Range(tables[r])
    BY <1>1, <1>7, EmptyElements
  <2>2. b \in BlockId \ Range(tables[s])
    BY <1>1, <1>2, <2>1 DEF Ownership
  <2>. QED  BY <1>6, <2>1, <2>2 DEF RocmInv
<1>. QED  BY <1>4, <1>5, <1>6, <1>7 DEF RocmInv

(* Every step keeps the invariant and is one of the pool and of the store. *)
LEMMA RocmStep ==
  ASSUME RocmInv, [RocmNext]_rocmVars
  PROVE  /\ RocmInv'
         /\ [TablesPool!GrowingPoolNext]_(TablesPool!poolVars)
         /\ [TablesStore!StoreNext]_(TablesStore!storeVars)
<1>1. CASE UNCHANGED rocmVars
  BY <1>1 DEF rocmVars, tableVars, RocmInv, Ownership, Filled, TablesPool!poolVars,
              TablesStore!storeVars
<1>2. CASE RocmNext
  <2>1. PICK s \in Sequence : EndSequence(s) \/ \E t \in Token : AppendToken(s, t)
    BY <1>2 DEF RocmNext
  <2>. QED  BY <2>1, AppendTokenStep, EndSequenceStep DEF TablesStore!StoreNext
<1>. QED  BY <1>1, <1>2

(* Tables, free list and cells keep their types as tables grow.            *)
THEOREM AppendedTypeCorrect == RocmSpec => []TablesTypeOK
<1>1. RocmInv /\ [RocmNext]_rocmVars => RocmInv'
  BY RocmStep
<1>2. RocmInv => TablesTypeOK
  BY DEF RocmInv, Ownership, Filled, TablesTypeOK
<1>. QED  BY <1>1, <1>2, InitRocmInv, PTL DEF RocmSpec

(* Tables that grow token by token take only free blocks, and free_block   *)
(* finds no reference that keeps an ended sequence's block from the list.  *)
THEOREM AppendedBlocksArePool == RocmSpec => TablesRefinePool
<1>1. RocmInit => TablesPool!PoolInit
  BY InitTables DEF RocmInit
<1>2. RocmInv /\ [RocmNext]_rocmVars =>
        RocmInv' /\ [TablesPool!GrowingPoolNext]_(TablesPool!poolVars)
  BY RocmStep
<1>. QED
  BY <1>1, <1>2, InitRocmInv, PTL DEF RocmSpec, TablesRefinePool, TablesPool!GrowingPoolSpec

(* The block append_token asks for is the one its token goes to, and what  *)
(* a sequence wrote before stays where it reads it.                        *)
THEOREM AppendedTokensKept == RocmSpec => TablesKeepTokens
<1>1. RocmInit => TablesStore!StoreInit
  BY InitTables DEF RocmInit
<1>2. RocmInv /\ [RocmNext]_rocmVars =>
        RocmInv' /\ [TablesStore!StoreNext]_(TablesStore!storeVars)
  BY RocmStep
<1>. QED
  BY <1>1, <1>2, InitRocmInv, PTL DEF RocmSpec, TablesKeepTokens, TablesStore!StoreSpec

----------------------------------------------------------------------------
(* The prefix cache over these tables.                                     *)

Value == Token \cup {Zero}
Reads(s) == Stored(kvCache, tables[s], written[s])

(* The key k with its blocks is a prefix of what s has computed.           *)
PrefixOf(k, blocks, s) ==
  /\ Len(k) <= written[s] /\ k = SubSeq(Reads(s), 1, Len(k))
  /\ blocks \in Seq(BlockId) /\ Len(blocks) <= Len(tables[s])
  /\ Len(k) <= BlockSize * Len(blocks)
  /\ \A i \in 1 .. Len(blocks) : blocks[i] = tables[s][i]

Indexed ==
  /\ lru \in Seq(Seq(Value)) /\ PrefixIndex

Backed == \A k \in DOMAIN entries : k # <<>> /\ \E s \in Sequence : PrefixOf(k, entries[k], s)

PrefixInv == RocmInv /\ Indexed /\ Backed

(* What a read returns, cut to length.                                     *)
LEMMA TokensAreReads ==
  ASSUME Ownership, Filled, NEW s \in Sequence
  PROVE  /\ Reads(s) \in Seq(Value) /\ Len(Reads(s)) = written[s] /\ written[s] \in Nat
         /\ Tokens(s) = Reads(s)
<1>. DEFINE n == written[s]
            m == BlockSize * BlocksNeeded(n)
            all == Stored(kvCache, tables[s], m)
<1>1. /\ n \in Nat /\ n <= BlockSize * Len(tables[s]) /\ tables[s] \in Seq(BlockId)
      /\ kvCache \in [BlockId -> Content] /\ Len(tables[s]) \in Nat
  BY LenProperties DEF Ownership, Filled
<1>2. Reads(s) \in Seq(Value) /\ Len(Reads(s)) = n
  BY <1>1, StoredSeq DEF Reads, Value
<1>3. BlocksNeeded(n) <= Len(tables[s]) /\ BlocksNeeded(n) \in Nat /\ n <= m
  <2>. DEFINE L == Len(tables[s])
  <2>1. BlockSize * (L + 1) = BlockSize * L + BlockSize /\ BlockSize * L \in Nat
    BY <1>1, BlockSizeAssumption
  <2>2. n + BlockSize - 1 \in Nat /\ n + BlockSize - 1 < BlockSize * (L + 1)
    BY <1>1, <2>1, BlockSizeAssumption
  <2>3. (n + BlockSize - 1) \div BlockSize <= L
    <3>1. L + 1 \in Nat
      BY <1>1
    <3>2. BlockNo(n + BlockSize - 1) <= L + 1
      BY <2>2, <3>1, CellOfPosition
    <3>3. ((n + BlockSize - 1) \div BlockSize) \in Nat
      BY <2>2, BlockSizeAssumption
    <3>. QED  BY <1>1, <3>2, <3>3 DEF BlockNo
  <2>4. BlocksNeeded(n) \in Nat /\ n <= m
    BY <1>1, EnoughBlocks
  <2>. QED  BY <1>1, <2>3, <2>4 DEF BlocksNeeded
<1>4. m \in Nat /\ m <= BlockSize * Len(tables[s])
  BY <1>1, <1>3, BlockSizeAssumption
<1>. HIDE DEF m, n
<1>5. /\ all \in Seq(Value) /\ Len(all) = m
      /\ \A i \in 1 .. m :
           all[i] = kvCache[tables[s][BlockNo(i - 1)]][SlotNo(i - 1)] /\ all[i] \in Value
  <2>1. all \in Seq(Value) /\ Len(all) = m
    BY <1>1, <1>4, StoredSeq DEF Value
  <2>2. \A i \in 1 .. m : all[i] = kvCache[tables[s][BlockNo(i - 1)]][SlotNo(i - 1)]
    BY <1>1, <1>4, StoredAt
  <2>. HIDE DEF all
  <2>. QED  BY <2>1, <2>2, ElementOfSeq
<1>6. \A i \in 1 .. n : Reads(s)[i] = kvCache[tables[s][BlockNo(i - 1)]][SlotNo(i - 1)]
  BY <1>1, StoredAt DEF Reads, n
<1>7. Tokens(s) = SubSeq(all, 1, n)
  BY DEF Tokens, GetKeyValue, m, n
<1>. HIDE DEF all
<1>8. /\ SubSeq(all, 1, n) \in Seq(Value) /\ Len(SubSeq(all, 1, n)) = n
      /\ \A i \in 1 .. n : SubSeq(all, 1, n)[i] = all[i]
  <2>1. 1 \in Int /\ n \in Int /\ \A i \in 1 .. n : all[i] \in Value
    BY <1>1, <1>3, <1>4, <1>5 DEF n
  <2>2. /\ SubSeq(all, 1, n) \in Seq(Value)
        /\ Len(SubSeq(all, 1, n)) = IF 1 <= n THEN n - 1 + 1 ELSE 0
        /\ \A i \in 1 .. n - 1 + 1 : SubSeq(all, 1, n)[i] = all[1 + i - 1]
    BY <2>1, SubSeqProperties
  <2>3. n \in Nat
    BY <1>1 DEF n
  <2>. QED  BY <2>2, <2>3
<1>9. \A i \in 1 .. n : SubSeq(all, 1, n)[i] = Reads(s)[i]
  <2>1. n \in Nat /\ n <= m
    BY <1>1, <1>3 DEF n, m
  <2>. QED  BY <2>1, <1>4, <1>5, <1>6, <1>8
<1>10. SubSeq(all, 1, n) = Reads(s)
  BY <1>2, <1>8, <1>9, SeqEqual DEF n
<1>. QED  BY <1>1, <1>2, <1>7, <1>10 DEF n

(* A list without duplicates is as long as the set of its members.         *)
LEMMA InjectiveLength ==
  ASSUME NEW S, NEW s \in Seq(S), IsInjective(s)
  PROVE  IsFiniteSet(Range(s)) /\ Cardinality(Range(s)) = Len(s)
<1>1. Len(s) \in Nat /\ DOMAIN s = 1 .. Len(s) /\ s = [i \in 1 .. Len(s) |-> s[i]]
  BY LenProperties
<1>2. s \in Surjection(1 .. Len(s), Range(s)) /\ s \in Injection(1 .. Len(s), Range(s))
  BY <1>1 DEF Surjection, Injection, Range, IsInjective
<1>3. IsFiniteSet(1 .. Len(s)) /\ Cardinality(1 .. Len(s)) = Len(s)
  <2>. DEFINE n == Len(s)
  <2>1. n \in Nat
    BY <1>1
  <2>. HIDE DEF n
  <2>2. IsFiniteSet(1 .. n) /\ Cardinality(1 .. n) = n
    BY <2>1, FS_Interval
  <2>. QED  BY <2>2 DEF n
<1>. QED  BY <1>2, <1>3, FS_Surjection

(* A prefix stays one while its sequence goes on, or another ends.         *)
LEMMA PrefixStays ==
  ASSUME Ownership, Filled, Ownership', Filled', NEW s \in Sequence,
         NEW k, NEW blocks, PrefixOf(k, blocks, s), k \in Seq(Value),
         written[s] <= written'[s],
         \A i \in 1 .. written[s] : Reads(s)'[i] = Reads(s)[i],
         Len(tables[s]) <= Len(tables'[s]),
         \A i \in 1 .. Len(tables[s]) : tables'[s][i] = tables[s][i]
  PROVE  PrefixOf(k, blocks, s)'
<1>. DEFINE n == Len(k)
            old == Reads(s)
            new == Reads(s)'
<1>1. /\ old \in Seq(Value) /\ Len(old) = written[s] /\ written[s] \in Nat
  BY TokensAreReads
<1>2. /\ new \in Seq(Value) /\ Len(new) = written'[s] /\ written'[s] \in Nat
  <2>1. /\ tables'[s] \in Seq(BlockId) /\ kvCache' \in [BlockId -> Content]
        /\ written'[s] \in Nat /\ written'[s] <= BlockSize * Len(tables'[s])
    BY DEF Ownership, Filled
  <2>. QED  BY <2>1, StoredSeq DEF Reads, Value
<1>3. /\ n \in Nat /\ n <= written[s] /\ k = SubSeq(old, 1, n)
      /\ blocks \in Seq(BlockId) /\ Len(blocks) \in Nat /\ Len(blocks) <= Len(tables[s])
      /\ n <= BlockSize * Len(blocks)
      /\ \A i \in 1 .. Len(blocks) : blocks[i] = tables[s][i]
      /\ Len(tables[s]) \in Nat /\ Len(tables'[s]) \in Nat
  BY LenProperties DEF PrefixOf, Ownership
<1>. HIDE DEF n, old, new
<1>4. \A i \in 1 .. n : new[i] = old[i] /\ old[i] \in Value /\ new[i] \in Value
  <2>1. \A i \in 1 .. n : i \in 1 .. written[s] /\ i \in 1 .. written'[s]
    BY <1>1, <1>2, <1>3
  <2>2. \A i \in 1 .. written[s] : new[i] = old[i]
    BY DEF old, new
  <2>. QED  BY <1>1, <1>2, <2>1, <2>2, ElementOfSeq
<1>5. SubSeq(new, 1, n) = SubSeq(old, 1, n)
  <2>1. 1 \in Int /\ n \in Int
    BY <1>3
  <2>2. /\ SubSeq(old, 1, n) \in Seq(Value)
        /\ Len(SubSeq(old, 1, n)) = IF 1 <= n THEN n - 1 + 1 ELSE 0
        /\ \A i \in 1 .. n - 1 + 1 : SubSeq(old, 1, n)[i] = old[1 + i - 1]
    BY <2>1, <1>4, SubSeqProperties
  <2>3. /\ SubSeq(new, 1, n) \in Seq(Value)
        /\ Len(SubSeq(new, 1, n)) = IF 1 <= n THEN n - 1 + 1 ELSE 0
        /\ \A i \in 1 .. n - 1 + 1 : SubSeq(new, 1, n)[i] = new[1 + i - 1]
    BY <2>1, <1>4, SubSeqProperties
  <2>4. \A i \in 1 .. Len(SubSeq(new, 1, n)) : SubSeq(new, 1, n)[i] = SubSeq(old, 1, n)[i]
    BY <1>3, <1>4, <2>2, <2>3
  <2>. QED  BY <2>2, <2>3, <2>4, SeqEqual
<1>6. \A i \in 1 .. Len(blocks) : blocks[i] = tables'[s][i]
  BY <1>3
<1>7. n <= written'[s] /\ Len(blocks) <= Len(tables'[s])
  BY <1>1, <1>2, <1>3
<1>. QED  BY <1>3, <1>5, <1>6, <1>7 DEF PrefixOf, n, old, new

(* Nothing is cached at the start.                                         *)
LEMMA InitPrefixInv == PrefixInit => PrefixInv
<1>. SUFFICES ASSUME PrefixInit PROVE PrefixInv
  OBVIOUS
<1>1. RocmInv /\ entries = <<>> /\ lru = <<>>
  BY InitRocmInv DEF PrefixInit
<1>2. DOMAIN entries = {}
  BY <1>1
<1>3. Indexed
  BY <1>1, <1>2, EmptyElements, MaxEntriesAssumption DEF Indexed, PrefixIndex
<1>. QED  BY <1>1, <1>2, <1>3 DEF PrefixInv, Backed

(* Cached prefixes stay where they are while their sequence grows.         *)
LEMMA AppendUncachedStep ==
  ASSUME PrefixInv, NEW s \in Sequence, NEW t \in Token, AppendUncached(s, t)
  PROVE  PrefixInv'
<1>1. /\ RocmInv /\ RocmInv' /\ TablesStore!Put(s, t)
      /\ entries' = entries /\ lru' = lru
      /\ \/ tables' = tables
         \/ \E b \in BlockId : tables' = [tables EXCEPT ![s] = Append(@, b)]
  BY AppendTokenStep DEF PrefixInv, AppendUncached
<1>2. Ownership /\ Filled /\ Ownership' /\ Filled'
  BY <1>1 DEF RocmInv
<1>3. Indexed'
  BY <1>1 DEF PrefixInv, Indexed, PrefixIndex
<1>4. DOMAIN entries \subseteq Seq(Value)
  BY RangeOfSeq DEF PrefixInv, Indexed, PrefixIndex
<1>5. ASSUME NEW r \in Sequence
      PROVE  /\ written[r] <= written'[r]
             /\ \A i \in 1 .. written[r] : Reads(r)'[i] = Reads(r)[i]
             /\ Len(tables[r]) <= Len(tables'[r])
             /\ \A i \in 1 .. Len(tables[r]) : tables'[r][i] = tables[r][i]
  <2>1. /\ Reads(r) \in Seq(Value) /\ Len(Reads(r)) = written[r] /\ written[r] \in Nat
        /\ tables[r] \in Seq(BlockId) /\ Len(tables[r]) \in Nat
    BY <1>2, TokensAreReads, LenProperties DEF Ownership
  <2>2. written'[r] = IF r = s THEN written[r] + 1 ELSE written[r]
    BY <1>1, <1>2 DEF TablesStore!Put, Filled
  <2>3. Reads(r)' = IF r = s THEN Append(Reads(r), t) ELSE Reads(r)
    BY <1>1 DEF TablesStore!Put, Reads
  <2>4. tables'[r] = tables[r] \/ \E b \in BlockId : tables'[r] = Append(tables[r], b)
    BY <1>1, <1>2 DEF Ownership
  <2>5. \A i \in 1 .. written[r] : Reads(r)'[i] = Reads(r)[i]
    <3>1. CASE r = s
      <4>1. t \in Value
        BY DEF Value
      <4>2. \A i \in 1 .. written[r] : Append(Reads(r), t)[i] = Reads(r)[i]
        BY <2>1, <4>1, AppendProperties
      <4>. QED  BY <2>3, <3>1, <4>2
    <3>2. CASE r # s
      BY <2>3, <3>2
    <3>. QED  BY <3>1, <3>2
  <2>6. /\ Len(tables[r]) <= Len(tables'[r])
        /\ \A i \in 1 .. Len(tables[r]) : tables'[r][i] = tables[r][i]
    <3>1. CASE tables'[r] = tables[r]
      BY <2>1, <3>1
    <3>2. CASE \E b \in BlockId : tables'[r] = Append(tables[r], b)
      BY <2>1, <3>2, AppendProperties
    <3>. QED  BY <2>4, <3>1, <3>2
  <2>. QED  BY <2>1, <2>2, <2>5, <2>6
<1>6. ASSUME NEW k \in DOMAIN entries
      PROVE  k # <<>> /\ \E r \in Sequence : PrefixOf(k, entries[k], r)'
  <2>1. PICK r \in Sequence : PrefixOf(k, entries[k], r)
    BY DEF PrefixInv, Backed
  <2>2. k # <<>> /\ k \in Seq(Value)
    BY <1>4 DEF PrefixInv, Backed
  <2>. DEFINE blocks == entries[k]
  <2>3. PrefixOf(k, blocks, r)
    BY <2>1
  <2>4. blocks' = blocks
    BY <1>1
  <2>. HIDE DEF blocks
  <2>5. PrefixOf(k, blocks, r)'
    <3>1. \A b : PrefixOf(k, b, r) => PrefixOf(k, b, r)'
      BY <1>2, <1>5, <2>2, PrefixStays
    <3>. QED  BY <2>3, <2>4, <3>1
  <2>. QED  BY <2>2, <2>5 DEF blocks
<1>7. Backed'
  BY <1>1, <1>6 DEF Backed
<1>. QED  BY <1>1, <1>3, <1>7 DEF PrefixInv

(* Every prefix of the ended sequence goes, so what stays is another's.    *)
LEMMA InvalidateAndEndStep ==
  ASSUME PrefixInv, NEW s \in Sequence, InvalidateAndEnd(s)
  PROVE  PrefixInv'
<1>. DEFINE gone == Prefixes(Tokens(s))
            left == DOMAIN entries \ gone
<1>1. /\ RocmInv /\ RocmInv' /\ EndSequence(s)
      /\ TablesStore!Drop(s)
  BY EndSequenceStep DEF PrefixInv, InvalidateAndEnd
<1>2. /\ entries' = [k \in left |-> entries[k]]
      /\ lru' = KeepOnly(lru, left)
  BY DEF InvalidateAndEnd, Forget
<1>3. Ownership /\ Filled /\ Ownership' /\ Filled'
  BY <1>1 DEF RocmInv
<1>4. /\ lru \in Seq(Seq(Value)) /\ IsInjective(lru) /\ Range(lru) = DOMAIN entries
      /\ DOMAIN entries \subseteq Seq(Value)
      /\ Len(lru) <= (IF MaxEntries = 0 THEN 1 ELSE MaxEntries)
  BY RangeOfSeq DEF PrefixInv, Indexed, PrefixIndex
<1>5. /\ lru' \in Seq(Seq(Value)) /\ IsInjective(lru')
      /\ Range(lru') = Range(lru) \cap left
  <2>. DEFINE S == left
  <2>. HIDE DEF S
  <2>1. /\ KeepOnly(lru, S) \in Seq(Seq(Value)) /\ IsInjective(KeepOnly(lru, S))
        /\ Range(KeepOnly(lru, S)) = Range(lru) \cap S
    BY <1>4, KeepOnlyElements
  <2>. QED  BY <2>1, <1>2 DEF S
<1>. HIDE DEF gone
<1>6. DOMAIN entries' = left /\ Range(lru') = left
  BY <1>2, <1>4, <1>5
<1>7. Len(lru') <= Len(lru) /\ Len(lru) \in Nat /\ Len(lru') \in Nat
  <2>1. IsFiniteSet(Range(lru)) /\ Cardinality(Range(lru)) = Len(lru)
    BY <1>4, InjectiveLength
  <2>2. Cardinality(Range(lru')) = Len(lru')
    BY <1>5, InjectiveLength
  <2>3. Range(lru') \in SUBSET Range(lru)
    BY <1>5
  <2>4. Cardinality(Range(lru')) <= Cardinality(Range(lru))
    BY <2>1, <2>3, FS_Subset
  <2>. QED  BY <1>4, <1>5, <2>1, <2>2, <2>4, LenProperties
<1>8. Indexed'
  BY <1>4, <1>5, <1>6, <1>7, MaxEntriesAssumption DEF Indexed, PrefixIndex
<1>9. ASSUME NEW k \in left
      PROVE  /\ entries'[k] = entries[k] /\ k # <<>>
             /\ \E r \in Sequence : PrefixOf(k, entries[k], r)'
  <2>1. PICK r \in Sequence : PrefixOf(k, entries[k], r)
    BY DEF PrefixInv, Backed
  <2>2. entries'[k] = entries[k] /\ k # <<>> /\ k \in Seq(Value)
    BY <1>2, <1>4 DEF PrefixInv, Backed
  <2>3. r # s
    <3>. SUFFICES ASSUME r = s PROVE FALSE
      OBVIOUS
    <3>1. /\ Tokens(s) = Reads(s) /\ Len(Reads(s)) = written[s] /\ written[s] \in Nat
      BY <1>3, TokensAreReads
    <3>2. Len(k) \in 0 .. Len(Tokens(s)) /\ k = SubSeq(Tokens(s), 1, Len(k))
      <4>1. Len(k) \in Nat
        BY <2>2, LenProperties
      <4>. QED  BY <2>1, <3>1, <4>1 DEF PrefixOf
    <3>3. k \in gone
      BY <3>2 DEF gone, Prefixes
    <3>. QED  BY <3>3
  <2>4. /\ tables'[r] = tables[r] /\ written'[r] = written[r] /\ Reads(r)' = Reads(r)
    <3>1. tables' = [tables EXCEPT ![s] = <<>>] /\ kvCache' = kvCache
          /\ written' = [written EXCEPT ![s] = 0]
      BY <1>1 DEF EndSequence
    <3>2. tables'[r] = tables[r] /\ written'[r] = written[r]
      BY <3>1, <2>3
    <3>. QED  BY <3>1, <3>2 DEF Reads
  <2>5. PrefixOf(k, entries[k], r)'
    BY <2>4, <2>1, <2>2 DEF PrefixOf
  <2>. QED  BY <2>2, <2>5
<1>10. Backed'
  BY <1>6, <1>9 DEF Backed
<1>. QED  BY <1>1, <1>8, <1>10 DEF PrefixInv

(* A full table loses its oldest key and no other, in both places.         *)
LEMMA CachePrefixStep ==
  ASSUME PrefixInv, NEW s \in Sequence, CachePrefix(s)
  PROVE  PrefixInv'
<1>. DEFINE q == Tokens(s)
            gone == IF Cardinality(DOMAIN entries) >= MaxEntries THEN Oldest ELSE {}
            rest == IF gone = {} THEN lru ELSE Tail(lru)
<1>1. /\ RocmInv /\ Ownership /\ Filled
      /\ freeBlocks' = freeBlocks /\ tables' = tables /\ kvCache' = kvCache
      /\ written' = written /\ blockRefs' = blockRefs
      /\ written[s] > 0 /\ q \notin DOMAIN entries
      /\ entries' = [k \in (DOMAIN entries \ gone) \cup {q} |->
                       IF k = q THEN tables[s] ELSE entries[k]]
      /\ lru' = Append(rest, q)
  BY DEF PrefixInv, RocmInv, CachePrefix, Insert, rocmVars, tableVars
<1>2. RocmInv'
  BY <1>1 DEF RocmInv, Ownership, Filled
<1>3. /\ q = Reads(s) /\ q \in Seq(Value) /\ Len(q) = written[s] /\ written[s] \in Nat
  BY <1>1, TokensAreReads
<1>4. /\ lru \in Seq(Seq(Value)) /\ IsInjective(lru) /\ Range(lru) = DOMAIN entries
      /\ Len(lru) \in Nat /\ Cardinality(DOMAIN entries) = Len(lru)
      /\ Len(lru) <= (IF MaxEntries = 0 THEN 1 ELSE MaxEntries)
  <2>1. /\ lru \in Seq(Seq(Value)) /\ IsInjective(lru) /\ Range(lru) = DOMAIN entries
        /\ Len(lru) <= (IF MaxEntries = 0 THEN 1 ELSE MaxEntries)
    BY DEF PrefixInv, Indexed, PrefixIndex
  <2>2. Cardinality(Range(lru)) = Len(lru) /\ Len(lru) \in Nat
    BY <2>1, InjectiveLength, LenProperties
  <2>. QED  BY <2>1, <2>2
<1>. HIDE DEF q
<1>5. /\ rest \in Seq(Seq(Value)) /\ IsInjective(rest) /\ Range(rest) = DOMAIN entries \ gone
      /\ Len(rest) \in Nat /\ Len(rest) + 1 <= (IF MaxEntries = 0 THEN 1 ELSE MaxEntries)
  <2>1. CASE gone = {}
    <3>1. rest = lru
      BY <2>1
    <3>2. lru = <<>> \/ ~(Len(lru) >= MaxEntries)
      BY <2>1, <1>4 DEF Oldest
    <3>3. Len(lru) + 1 <= (IF MaxEntries = 0 THEN 1 ELSE MaxEntries)
      BY <3>2, <1>4, EmptyElements, MaxEntriesAssumption
    <3>. QED  BY <2>1, <3>1, <3>3, <1>4
  <2>2. CASE gone # {}
    <3>1. rest = Tail(lru) /\ lru # <<>> /\ gone = {Head(lru)}
      BY <2>2 DEF Oldest
    <3>2. /\ Tail(lru) \in Seq(Seq(Value)) /\ IsInjective(Tail(lru))
          /\ Len(Tail(lru)) = Len(lru) - 1
          /\ Range(lru) = Range(Tail(lru)) \cup {Head(lru)}
          /\ Head(lru) \notin Range(Tail(lru))
      BY <3>1, <1>4, TailElements
    <3>3. Len(lru) # 0
      BY <3>1, <1>4, EmptySeq
    <3>. HIDE DEF gone, rest
    <3>. QED  BY <3>1, <3>2, <3>3, <1>4
  <2>. QED  BY <2>1, <2>2
<1>. HIDE DEF gone, rest
<1>6. /\ lru' \in Seq(Seq(Value)) /\ IsInjective(lru')
      /\ Range(lru') = (DOMAIN entries \ gone) \cup {q}
      /\ Len(lru') = Len(rest) + 1
  <2>1. q \notin Range(rest)
    BY <1>1, <1>5
  <2>2. /\ Append(rest, q) \in Seq(Seq(Value)) /\ IsInjective(Append(rest, q))
        /\ Range(Append(rest, q)) = Range(rest) \cup {q}
        /\ Len(Append(rest, q)) = Len(rest) + 1
    BY <2>1, <1>3, <1>5, AppendElements, AppendProperties
  <2>. QED  BY <2>2, <1>1, <1>5
<1>7. DOMAIN entries' = (DOMAIN entries \ gone) \cup {q}
  BY <1>1
<1>8. Indexed'
  BY <1>5, <1>6, <1>7 DEF Indexed, PrefixIndex
<1>9. PrefixOf(q, tables[s], s) /\ q # <<>>
  <2>1. /\ tables[s] \in Seq(BlockId) /\ Len(tables[s]) \in Nat
        /\ written[s] <= BlockSize * Len(tables[s])
    BY <1>1, LenProperties DEF Ownership, Filled
  <2>2. q = SubSeq(Reads(s), 1, Len(q))
    BY <1>3, SubSeqFull
  <2>3. q # <<>>
    BY <1>1, <1>3, EmptyElements
  <2>. QED  BY <1>3, <2>1, <2>2, <2>3 DEF PrefixOf
<1>10. ASSUME NEW k \in DOMAIN entries'
       PROVE  k # <<>> /\ \E r \in Sequence : PrefixOf(k, entries'[k], r)
  <2>1. CASE k = q
    BY <2>1, <1>1, <1>9
  <2>2. CASE k # q
    <3>1. k \in DOMAIN entries /\ entries'[k] = entries[k]
      BY <2>2, <1>1, <1>7
    <3>. QED  BY <3>1 DEF PrefixInv, Backed
  <2>. QED  BY <2>1, <2>2
<1>11. Backed'
  <2>. SUFFICES ASSUME NEW k \in DOMAIN entries'
                PROVE  k # <<>> /\ \E r \in Sequence : PrefixOf(k, entries[k], r)'
    BY DEF Backed
  <2>1. PICK r \in Sequence : PrefixOf(k, entries'[k], r)
    BY <1>10
  <2>2. /\ tables'[r] = tables[r] /\ written'[r] = written[r] /\ Reads(r)' = Reads(r)
    BY <1>1 DEF Reads
  <2>3. PrefixOf(k, entries[k], r)'
    BY <2>1, <2>2 DEF PrefixOf
  <2>. QED  BY <1>10, <2>3
<1>. QED  BY <1>2, <1>8, <1>11 DEF PrefixInv

(* Every step keeps the invariant and is one of the paged cache.           *)
LEMMA PrefixStep ==
  ASSUME PrefixInv, [PrefixNext]_prefixVars
  PROVE  PrefixInv' /\ [RocmNext]_rocmVars
<1>1. CASE UNCHANGED prefixVars
  <2>1. /\ freeBlocks' = freeBlocks /\ tables' = tables /\ kvCache' = kvCache
        /\ written' = written /\ blockRefs' = blockRefs
        /\ entries' = entries /\ lru' = lru
    BY <1>1 DEF prefixVars, rocmVars, tableVars
  <2>2. RocmInv'
    BY <2>1 DEF PrefixInv, RocmInv, Ownership, Filled
  <2>3. Indexed'
    BY <2>1 DEF PrefixInv, Indexed, PrefixIndex
  <2>4. \A s \in Sequence : Reads(s)' = Reads(s)
    BY <2>1 DEF Reads
  <2>5. Backed'
    BY <2>1, <2>4 DEF PrefixInv, Backed, PrefixOf
  <2>6. UNCHANGED rocmVars
    BY <1>1 DEF prefixVars
  <2>. QED  BY <2>2, <2>3, <2>5, <2>6 DEF PrefixInv
<1>2. CASE PrefixNext
  <2>1. PICK s \in Sequence : \/ CachePrefix(s) \/ InvalidateAndEnd(s)
                              \/ \E t \in Token : AppendUncached(s, t)
    BY <1>2 DEF PrefixNext
  <2>2. PrefixInv'
    BY <2>1, AppendUncachedStep, InvalidateAndEndStep, CachePrefixStep
  <2>3. [RocmNext]_rocmVars
    BY <2>1 DEF CachePrefix, InvalidateAndEnd, AppendUncached, RocmNext
  <2>. QED  BY <2>2, <2>3
<1>. QED  BY <1>1, <1>2

(* insert, _evict and invalidate keep the list of keys and the table in    *)
(* step, and the table within its limit.                                   *)
THEOREM PrefixIndexCorrect == PrefixSpec => []PrefixIndex
<1>1. PrefixInv /\ [PrefixNext]_prefixVars => PrefixInv'
  BY PrefixStep
<1>2. PrefixInv => PrefixIndex
  BY DEF PrefixInv, Indexed
<1>. QED  BY <1>1, <1>2, InitPrefixInv, PTL DEF PrefixSpec

(* lookup finds a cached prefix beyond which nothing longer is cached.     *)
LEMMA LookupFinds ==
  ASSUME NEW q, Len(q) \in Nat, NEW n \in 1 .. Len(q), SubSeq(q, 1, n) \in DOMAIN entries,
         \A m \in n + 1 .. Len(q) : SubSeq(q, 1, m) \notin DOMAIN entries
  PROVE  Lookup(q) = <<n, entries[SubSeq(q, 1, n)]>>
<1>. DEFINE hits == {m \in 1 .. Len(q) : SubSeq(q, 1, m) \in DOMAIN entries}
<1>1. n \in hits /\ hits # {} /\ \A m \in hits : m \in Int /\ n >= m
  <2>1. \A m \in hits : m \in Int /\ ~(m > n)
    <3>. SUFFICES ASSUME NEW m \in hits, m > n PROVE FALSE
      OBVIOUS
    <3>1. m \in n + 1 .. Len(q)
      OBVIOUS
    <3>. QED  BY <3>1
  <2>. QED  BY <2>1
<1>. HIDE DEF hits
<1>2. Max(hits) = n
  <2>1. Max(hits) \in hits /\ \A y \in hits : Max(hits) >= y
    <3>1. \E x \in hits : \A y \in hits : x >= y
      BY <1>1
    <3>. QED  BY <3>1, Zenon DEF Max
  <2>. DEFINE x == Max(hits)
  <2>. HIDE DEF x
  <2>2. x \in hits /\ x >= n
    BY <2>1, <1>1 DEF x
  <2>3. x \in Int /\ n \in Int /\ n >= x
    BY <2>2, <1>1
  <2>4. x = n
    BY <2>2, <2>3
  <2>. QED  BY <2>4 DEF x
<1>3. Lookup(q) = IF hits = {} THEN <<0, <<>>>>
                  ELSE <<Max(hits), entries[SubSeq(q, 1, Max(hits))]>>
  BY DEF Lookup, hits
<1>. QED  BY <1>1, <1>2, <1>3

(* What a cached prefix's blocks store is the prefix.                      *)
LEMMA BackedHolds ==
  ASSUME Ownership, Filled, NEW s \in Sequence, NEW k \in Seq(Value), NEW blocks,
         PrefixOf(k, blocks, s)
  PROVE  Stored(kvCache, blocks, Len(k)) = k
<1>. DEFINE n == Len(k)
            r == Stored(kvCache, blocks, n)
            mine == tables[s]
<1>1. /\ Reads(s) \in Seq(Value) /\ Len(Reads(s)) = written[s] /\ written[s] \in Nat
      /\ mine \in Seq(BlockId) /\ Len(mine) \in Nat /\ written[s] <= BlockSize * Len(mine)
      /\ kvCache \in [BlockId -> Content]
  BY TokensAreReads, LenProperties DEF Ownership, Filled
<1>2. /\ n \in Nat /\ n <= written[s] /\ k = SubSeq(Reads(s), 1, n)
      /\ blocks \in Seq(BlockId) /\ Len(blocks) \in Nat /\ Len(blocks) <= Len(mine)
      /\ DOMAIN blocks = 1 .. Len(blocks)
      /\ n <= BlockSize * Len(blocks)
      /\ \A i \in 1 .. Len(blocks) : blocks[i] = mine[i]
  BY LenProperties DEF PrefixOf
<1>3. /\ r \in Seq(Value) /\ Len(r) = n
  BY <1>1, <1>2, StoredSeq DEF Value
<1>4. \A i \in 1 .. n : /\ r[i] = kvCache[blocks[BlockNo(i - 1)]][SlotNo(i - 1)]
                        /\ BlockNo(i - 1) \in DOMAIN blocks
  BY <1>1, <1>2, StoredAt
<1>5. \A i \in 1 .. written[s] : Reads(s)[i] = kvCache[mine[BlockNo(i - 1)]][SlotNo(i - 1)]
  BY <1>1, StoredAt DEF Reads
<1>. HIDE DEF r, n, mine
<1>6. \A i \in 1 .. n : k[i] = Reads(s)[i]
  <2>1. 1 \in Int /\ n \in Int /\ \A i \in 1 .. n : Reads(s)[i] \in Value
    BY <1>1, <1>2, ElementOfSeq
  <2>2. \A i \in 1 .. n - 1 + 1 : SubSeq(Reads(s), 1, n)[i] = Reads(s)[1 + i - 1]
    BY <2>1, SubSeqProperties
  <2>. QED  BY <1>2, <2>2
<1>7. \A i \in 1 .. n : r[i] = k[i]
  <2>. SUFFICES ASSUME NEW i \in 1 .. n PROVE r[i] = k[i]
    OBVIOUS
  <2>1. i \in 1 .. written[s]
    BY <1>1, <1>2
  <2>2. blocks[BlockNo(i - 1)] = mine[BlockNo(i - 1)]
    <3>1. BlockNo(i - 1) \in 1 .. Len(blocks)
      BY <1>2, <1>4
    <3>. QED  BY <3>1, <1>2
  <2>. QED  BY <2>1, <2>2, <1>4, <1>5, <1>6
<1>8. r = k
  BY <1>2, <1>3, <1>7, SeqEqual DEF n
<1>. QED  BY <1>8 DEF r, n

(* A hit is the longest cached prefix there is, and its blocks still hold  *)
(* its tokens: no write, growth, eviction or end of a sequence in between  *)
(* has put others there.                                                   *)
THEOREM HitsCorrect == PrefixSpec => []HitsHoldPrefix
<1>1. PrefixInv /\ [PrefixNext]_prefixVars => PrefixInv'
  BY PrefixStep
<1>2. ASSUME PrefixInv  PROVE HitsHoldPrefix
  <2>. SUFFICES ASSUME NEW k \in DOMAIN entries
                PROVE  /\ Stored(kvCache, entries[k], Len(k)) = k
                       /\ \A q \in {k} \cup ({Append(k, t) : t \in Token} \ DOMAIN entries) :
                            Lookup(q) = <<Len(k), entries[k]>>
    BY DEF HitsHoldPrefix
  <2>1. k \in Seq(Value) /\ k # <<>> /\ Len(k) \in Nat \ {0}
    <3>1. k \in Seq(Value) /\ k # <<>>
      BY <1>2, RangeOfSeq DEF PrefixInv, Indexed, PrefixIndex, Backed
    <3>. QED  BY <3>1, LenProperties, EmptySeq
  <2>2. Stored(kvCache, entries[k], Len(k)) = k
    <3>1. PICK s \in Sequence : PrefixOf(k, entries[k], s)
      BY <1>2 DEF PrefixInv, Backed
    <3>2. Ownership /\ Filled
      BY <1>2 DEF PrefixInv, RocmInv
    <3>. QED  BY <2>1, <3>1, <3>2, BackedHolds
  <2>3. Lookup(k) = <<Len(k), entries[k]>>
    <3>1. SubSeq(k, 1, Len(k)) = k
      BY <2>1, SubSeqFull
    <3>2. Len(k) \in 1 .. Len(k) /\ \A m \in Len(k) + 1 .. Len(k) : FALSE
      BY <2>1
    <3>. QED  BY <2>1, <3>1, <3>2, LookupFinds
  <2>4. ASSUME NEW t \in Token, Append(k, t) \notin DOMAIN entries
        PROVE  Lookup(Append(k, t)) = <<Len(k), entries[k]>>
    <3>. DEFINE q == Append(k, t)
                n == Len(k)
    <3>1. /\ q \in Seq(Value) /\ Len(q) = n + 1 /\ t \in Value
          /\ \A i \in 1 .. n : q[i] = k[i]
      <4>1. t \in Value
        BY DEF Value
      <4>. QED  BY <2>1, <4>1, AppendProperties
    <3>2. \A i \in 1 .. n : k[i] \in Value /\ q[i] \in Value
      BY <2>1, <3>1, ElementOfSeq
    <3>3. SubSeq(q, 1, n) = k
      <4>1. 1 \in Int /\ n \in Int
        BY <2>1
      <4>. HIDE DEF q
      <4>2. /\ SubSeq(q, 1, n) \in Seq(Value)
            /\ Len(SubSeq(q, 1, n)) = IF 1 <= n THEN n - 1 + 1 ELSE 0
            /\ \A i \in 1 .. n - 1 + 1 : SubSeq(q, 1, n)[i] = q[1 + i - 1]
        BY <4>1, <3>2, SubSeqProperties
      <4>. HIDE DEF n
      <4>3. n \in Nat \ {0}
        BY <2>1 DEF n
      <4>4. Len(SubSeq(q, 1, n)) = n /\ \A i \in 1 .. n : SubSeq(q, 1, n)[i] = k[i]
        BY <4>2, <4>3, <3>1
      <4>. QED  BY <2>1, <4>2, <4>4, SeqEqual DEF n
    <3>4. SubSeq(q, 1, n + 1) = q
      BY <3>1, SubSeqFull
    <3>. HIDE DEF q, n
    <3>5. n \in Nat \ {0}
      BY <2>1 DEF n
    <3>6. q \notin DOMAIN entries
      BY <2>4 DEF q
    <3>7. \A m \in n + 1 .. Len(q) : SubSeq(q, 1, m) \notin DOMAIN entries
      <4>1. Len(q) = n + 1
        BY <3>1 DEF n
      <4>2. \A m \in n + 1 .. n + 1 : m = n + 1
        BY <3>5
      <4>. QED  BY <4>1, <4>2, <3>4, <3>6
    <3>8. Len(q) \in Nat /\ n \in 1 .. Len(q) /\ SubSeq(q, 1, n) \in DOMAIN entries
      <4>1. Len(q) = n + 1
        BY <3>1 DEF n
      <4>2. n + 1 \in Nat /\ n \in 1 .. n + 1
        BY <3>5
      <4>. QED  BY <4>1, <4>2, <3>3
    <3>9. Lookup(q) = <<n, entries[SubSeq(q, 1, n)]>>
      BY <3>7, <3>8, LookupFinds
    <3>. QED  BY <3>3, <3>9 DEF q, n
  <2>. QED  BY <2>2, <2>3, <2>4
<1>. QED  BY <1>1, <1>2, InitPrefixInv, PTL DEF PrefixSpec

----------------------------------------------------------------------------
(* The KV cache whose blocks are swapped, src/src/cache/paged_attention.py. *)

(* Blocks have one user or none, and a sequence whose contents are saved   *)
(* has no blocks.                                                          *)
KVOwned ==
  /\ \A s \in Sequence :
       /\ IsInjective(ids[s]) /\ IsInjective(away[s])
       /\ ids[s] = <<>> \/ away[s] = <<>>
       /\ Range(ids[s]) \cap Range(freeIds) = {}
  /\ \A s, r \in Sequence : s # r => Range(ids[s]) \cap Range(ids[r]) = {}
  /\ \A b \in Block : refCount[b] <= 1

(* What a sequence has written is in its blocks, or else in the buffer.    *)
KVFilled ==
  \A s \in Sequence :
    /\ ids[s] # <<>> => count[s] <= BlockSize * Len(ids[s])
    /\ ids[s] = <<>> => count[s] <= BlockSize * Len(away[s])
    /\ \A b \in Range(away[s]) : swapBuffer[s][b] \in Content

KVInv == KVTypeOK /\ FreeListOK /\ KVOwned /\ KVFilled

(* The facts about types that the steps use.                               *)
LEMMA KVTypes ==
  ASSUME KVTypeOK
  PROVE  /\ BMTypeOK /\ Range(freeIds) \subseteq Block
         /\ cells \in [Block -> Content]
         /\ \A s \in Sequence :
              /\ ids[s] \in Seq(Block) /\ Range(ids[s]) \subseteq Block
              /\ away[s] \in Seq(Block) /\ Range(away[s]) \subseteq Block
              /\ count[s] \in Nat
<1>1. /\ freeIds \in Seq(Block) /\ \A s \in Sequence : ids[s] \in Seq(Block) /\ away[s] \in Seq(Block)
      /\ BMTypeOK /\ cells \in [Block -> Content] /\ \A s \in Sequence : count[s] \in Nat
  BY DEF KVTypeOK, BMTypeOK
<1>. QED  BY <1>1, RangeOfSeq

(* At the start all blocks are free and nobody has written anything.       *)
LEMMA InitKVInv == KVInit => KVInv /\ KVStore!StoreInit
<1>. SUFFICES ASSUME KVInit PROVE KVInv /\ KVStore!StoreInit
  OBVIOUS
<1>1. BMTypeOK /\ FreeListOK /\ \A b \in Block : refCount[b] = 0
  BY InitEffect DEF KVInit
<1>2. /\ \A s \in Sequence : ids[s] = <<>> /\ away[s] = <<>> /\ count[s] = 0
      /\ ids = [s \in Sequence |-> <<>>] /\ away = [s \in Sequence |-> <<>>]
      /\ count = [s \in Sequence |-> 0]
      /\ swapBuffer = [s \in Sequence |-> [b \in Block |-> <<>>]]
      /\ cells = [b \in Block |-> [i \in Slot |-> Zero]]
  BY DEF KVInit
<1>3. KVTypeOK
  <2>1. [i \in Slot |-> Zero] \in Content
    BY DEF Content
  <2>2. cells \in [Block -> Content]
    BY <1>2, <2>1
  <2>. QED  BY <1>1, <1>2, <2>2, EmptyElements DEF KVTypeOK
<1>4. KVOwned
  BY <1>1, <1>2, EmptyElements DEF KVOwned
<1>5. KVFilled
  BY <1>2, EmptyElements, BlockSizeAssumption DEF KVFilled
<1>6. \A s \in Sequence : Readable(s) = <<>>
  BY <1>2, NothingStored DEF Readable
<1>7. KVStore!StoreInit
  BY <1>2, <1>6 DEF KVStore!StoreInit
<1>. QED  BY <1>1, <1>3, <1>4, <1>5, <1>7 DEF KVInv

(* A sequence that a step leaves alone reads what it read.                 *)
LEMMA KVUndisturbed ==
  ASSUME KVInv, NEW r \in Sequence,
         ids'[r] = ids[r], away'[r] = away[r], count'[r] = count[r],
         \A b \in Range(ids[r]) : cells'[b] = cells[b],
         \A b \in Range(away[r]) : swapBuffer'[r][b] = swapBuffer[r][b]
  PROVE  Readable(r)' = Readable(r)
<1>1. /\ ids[r] \in Seq(Block) /\ away[r] \in Seq(Block) /\ count[r] \in Nat
      /\ Range(away[r]) \subseteq Block
  BY KVTypes DEF KVInv
<1>2. CASE ids[r] # <<>>
  <2>1. count[r] <= BlockSize * Len(ids[r])
    BY <1>2 DEF KVInv, KVFilled
  <2>2. Stored(cells, ids[r], count[r]) = Stored(cells', ids[r], count[r])
    BY <1>1, <2>1, StoredAgrees
  <2>. QED  BY <1>2, <2>2 DEF Readable
<1>3. CASE ids[r] = <<>>
  <2>. DEFINE old == swapBuffer[r]
              new == swapBuffer'[r]
  <2>1. count[r] <= BlockSize * Len(away[r])
    BY <1>3 DEF KVInv, KVFilled
  <2>2. \A b \in Range(away[r]) : old[b] = new[b]
    BY <1>1
  <2>. HIDE DEF old, new
  <2>3. Stored(old, away[r], count[r]) = Stored(new, away[r], count[r])
    BY <1>1, <2>1, <2>2, StoredAgrees
  <2>4. /\ Readable(r) = Stored(old, away[r], count[r])
        /\ Readable(r)' = Stored(new, away[r], count[r])
    BY <1>3 DEF Readable, old, new
  <2>. QED  BY <2>3, <2>4
<1>. QED  BY <1>2, <1>3

(* A sequence that has written nothing reads nothing.                      *)
LEMMA KVUnwritten ==
  ASSUME KVInv, NEW r \in Sequence, count[r] = 0
  PROVE  Readable(r) = <<>>
<1>1. /\ ids[r] \in Seq(Block) /\ away[r] \in Seq(Block) /\ cells \in [Block -> Content]
      /\ Len(away[r]) \in Nat /\ DOMAIN away[r] = 1 .. Len(away[r])
  BY KVTypes, LenProperties DEF KVInv
<1>2. CASE ids[r] # <<>>
  BY <1>1, <1>2, NothingYet DEF Readable
<1>3. CASE ids[r] = <<>>
  <2>. DEFINE buf == swapBuffer[r]
              zero == [b \in Block |-> IF b \in Range(away[r]) THEN buf[b] ELSE cells[b]]
  <2>1. zero \in [Block -> Content]
    <3>1. \A b \in Block : b \in Range(away[r]) => buf[b] \in Content
      BY DEF KVInv, KVFilled
    <3>. HIDE DEF buf
    <3>. QED  BY <1>1, <3>1
  <2>2. \A b \in Range(away[r]) : buf[b] = zero[b]
    BY <1>1, RangeOfSeq
  <2>3. 0 <= BlockSize * Len(away[r])
    BY <1>1, BlockSizeAssumption
  <2>. HIDE DEF buf, zero
  <2>4. Stored(buf, away[r], 0) = Stored(zero, away[r], 0)
    BY <1>1, <2>2, <2>3, StoredAgrees
  <2>5. Stored(zero, away[r], 0) = <<>>
    BY <1>1, <2>1, NothingYet
  <2>. QED  BY <1>3, <2>4, <2>5 DEF Readable, buf
<1>. QED  BY <1>2, <1>3

(* A sequence that is not in use has written nothing.                      *)
LEMMA KVUnusedCount ==
  ASSUME KVInv, NEW s \in Sequence, Unused(s)
  PROVE  count[s] = 0
<1>1. count[s] \in Nat /\ count[s] <= BlockSize * Len(<<>>)
  BY KVTypes DEF KVInv, KVFilled, Unused
<1>2. BlockSize * Len(<<>>) = 0
  BY EmptyElements, BlockSizeAssumption
<1>. QED  BY <1>1, <1>2

(* A sequence that has no blocks is given n of them.                       *)
LEMMA KVGiven ==
  ASSUME KVInv, NEW s \in Sequence, NEW n \in Nat, Unused(s), Allocate(n),
         ids' = [ids EXCEPT ![s] = Popped(n)], away' = away
  PROVE  /\ BMTypeOK' /\ FreeListOK' /\ KVOwned'
         /\ Popped(n) \in Seq(Block) /\ Len(Popped(n)) = n /\ IsInjective(Popped(n))
         /\ ids' \in [Sequence -> Seq(Block)] /\ away' \in [Sequence -> Seq(Block)]
         /\ \A r \in Sequence : ids'[r] = IF r = s THEN Popped(n) ELSE ids[r]
         /\ \A r \in Sequence : Range(Popped(n)) \cap Range(ids[r]) = {}
<1>. DEFINE more == Popped(n)
<1>1. BMTypeOK /\ FreeListOK /\ KVOwned /\ KVTypeOK
  BY KVTypes DEF KVInv
<1>2. /\ more \in Seq(Block) /\ Len(more) = n /\ IsInjective(more)
      /\ Range(more) \subseteq Range(freeIds)
      /\ BMTypeOK' /\ FreeListOK'
      /\ Range(freeIds') = Range(freeIds) \ Range(more)
      /\ \A b \in Block : refCount'[b] = IF b \in Range(more) THEN 1 ELSE refCount[b]
  BY <1>1, AllocateEffect
<1>. HIDE DEF more
<1>3. /\ ids' \in [Sequence -> Seq(Block)] /\ away' \in [Sequence -> Seq(Block)]
      /\ \A r \in Sequence : ids'[r] = IF r = s THEN more ELSE ids[r]
  BY <1>1, <1>2 DEF KVTypeOK, more
<1>4. \A r \in Sequence : Range(more) \cap Range(ids[r]) = {}
  BY <1>1, <1>2 DEF KVOwned
<1>5. KVOwned'
  <2>1. ASSUME NEW r \in Sequence
        PROVE  /\ IsInjective(ids'[r]) /\ IsInjective(away'[r])
               /\ ids'[r] = <<>> \/ away'[r] = <<>>
               /\ Range(ids'[r]) \cap Range(freeIds') = {}
    BY <1>1, <1>2, <1>3 DEF KVOwned, Unused
  <2>2. ASSUME NEW r \in Sequence, NEW q \in Sequence, r # q
        PROVE  Range(ids'[r]) \cap Range(ids'[q]) = {}
    BY <2>2, <1>1, <1>3, <1>4 DEF KVOwned
  <2>3. \A b \in Block : refCount'[b] <= 1
    BY <1>1, <1>2 DEF KVOwned
  <2>. QED  BY <2>1, <2>2, <2>3 DEF KVOwned
<1>. QED  BY <1>2, <1>3, <1>4, <1>5 DEF more

(* A sequence that is admitted reads nothing yet.                          *)
LEMMA AdmitStep ==
  ASSUME KVInv, NEW s \in Sequence, NEW n \in 1 .. TotalBlocks, Admit(s, n)
  PROVE  KVInv' /\ UNCHANGED KVStore!storeVars
<1>. DEFINE more == Popped(n)
<1>1. /\ Unused(s) /\ Allocate(n) /\ ids' = [ids EXCEPT ![s] = Popped(n)] /\ n \in Nat
      /\ cells' = cells /\ swapBuffer' = swapBuffer /\ away' = away /\ count' = count
      /\ KVTypeOK /\ KVFilled
  BY TotalBlocksAssumption DEF Admit, KVInv
<1>2. /\ BMTypeOK' /\ FreeListOK' /\ KVOwned'
      /\ more \in Seq(Block) /\ Len(more) = n
      /\ ids' \in [Sequence -> Seq(Block)] /\ away' \in [Sequence -> Seq(Block)]
      /\ \A r \in Sequence : ids'[r] = IF r = s THEN more ELSE ids[r]
  BY <1>1, KVGiven
<1>. HIDE DEF more
<1>3. count[s] = 0 /\ 0 <= BlockSize * Len(more)
  <2>1. BlockSize * n \in Nat
    BY <1>1, BlockSizeAssumption
  <2>. QED  BY <1>1, <1>2, <2>1, KVUnusedCount
<1>4. KVTypeOK'
  BY <1>1, <1>2 DEF KVTypeOK
<1>5. KVFilled'
  BY <1>1, <1>2, <1>3 DEF KVFilled, Unused
<1>6. Readable(s)' = Readable(s)
  <2>1. Readable(s) = <<>>
    BY <1>3, KVUnwritten
  <2>2. Stored(cells, more, 0) = <<>>
    BY <1>1, <1>2, NothingYet DEF KVTypeOK
  <2>3. more # <<>>
    BY <1>2, EmptyElements
  <2>. QED  BY <1>1, <1>2, <1>3, <2>1, <2>2, <2>3 DEF Readable
<1>7. \A r \in Sequence \ {s} : Readable(r)' = Readable(r)
  BY <1>1, <1>2 DEF Readable
<1>. QED  BY <1>1, <1>2, <1>4, <1>5, <1>6, <1>7 DEF KVInv, KVStore!storeVars

(* Only the blocks of the sequence that writes are touched.                *)
LEMMA WriteKVStep ==
  ASSUME KVInv, NEW s \in Sequence, NEW t \in Token, WriteKV(s, t)
  PROVE  KVInv' /\ KVStore!Put(s, t)
<1>. DEFINE n == count[s]
            mine == ids[s]
            w == Write(cells, mine, n, t)
<1>1. /\ mine \in Seq(Block) /\ IsInjective(mine) /\ cells \in [Block -> Content]
      /\ n \in Nat /\ KVTypeOK /\ FreeListOK /\ KVOwned /\ KVFilled
      /\ Range(mine) \subseteq Block
  BY KVTypes DEF KVInv, KVOwned
<1>2. Len(mine) \in Nat
  BY <1>1, LenProperties
<1>. HIDE DEF w
<1>3. n < BlockSize * Len(mine)
  <2>1. n \div BlockSize < Len(mine)
    BY DEF WriteKV
  <2>. HIDE DEF n, mine
  <2>. QED  BY <1>1, <1>2, <2>1, BlockSizeAssumption
<1>4. /\ cells' = w /\ count' = [count EXCEPT ![s] = @ + 1]
      /\ UNCHANGED <<freeIds, isFree, refCount, swapBlocks, swapBuffer, ids, away>>
  BY DEF WriteKV, bmVars, w
<1>5. /\ w \in [Block -> Content]
      /\ \A b \in Block \ Range(mine) : w[b] = cells[b]
      /\ Stored(w, mine, n + 1) = Append(Stored(cells, mine, n), t)
  BY ONLY <1>1, <1>3, t \in Token, WriteAppends DEF w
<1>6. /\ count' \in [Sequence -> Nat]
      /\ \A r \in Sequence : count'[r] = IF r = s THEN n + 1 ELSE count[r]
  BY <1>1, <1>4 DEF KVTypeOK
<1>7. mine # <<>>
  BY <1>1, <1>3, EmptyElements, BlockSizeAssumption
<1>8. KVTypeOK'
  BY <1>1, <1>4, <1>5, <1>6 DEF KVTypeOK, BMTypeOK
<1>9. FreeListOK' /\ KVOwned'
  BY <1>1, <1>4 DEF FreeListOK, KVOwned
<1>10. KVFilled'
  <2>1. n + 1 <= BlockSize * Len(mine)
    BY <1>1, <1>2, <1>3, BlockSizeAssumption
  <2>. QED  BY <1>1, <1>4, <1>6, <1>7, <2>1 DEF KVFilled
<1>11. Readable(s)' = Append(Readable(s), t)
  BY <1>4, <1>5, <1>6, <1>7 DEF Readable
<1>12. ASSUME NEW r \in Sequence \ {s}  PROVE Readable(r)' = Readable(r)
  <2>1. Range(ids[r]) \subseteq Block \ Range(mine)
    BY <1>1, KVTypes DEF KVOwned
  <2>2. \A b \in Range(ids[r]) : cells'[b] = cells[b]
    BY <2>1, <1>4, <1>5
  <2>. QED  BY <2>2, <1>4, <1>6, KVUndisturbed
<1>13. KVStore!Put(s, t)
  BY <1>4, <1>11, <1>12 DEF KVStore!Put
<1>. QED  BY <1>8, <1>9, <1>10, <1>13 DEF KVInv

(* What the blocks of a list store is in the blocks that are copied from   *)
(* them.                                                                   *)
LEMMA CopiedStores ==
  ASSUME NEW from \in Seq(Block), NEW to \in Seq(Block), IsInjective(to), Len(to) = Len(from),
         cells \in [Block -> Content],
         NEW n \in Nat, n <= BlockSize * Len(from)
  PROVE  /\ Copied(from, to) \in [Block -> Content]
         /\ \A b \in Block \ Range(to) : Copied(from, to)[b] = cells[b]
         /\ Stored(Copied(from, to), to, n) = Stored(cells, from, n)
<1>. DEFINE c == Copied(from, to)
            at(b) == CHOOSE i \in DOMAIN to : to[i] = b
<1>1. /\ DOMAIN to = DOMAIN from /\ \A i \in DOMAIN from : from[i] \in Block
      /\ \A i \in DOMAIN to : to[i] \in Block /\ to[i] \in Range(to)
      /\ n <= BlockSize * Len(to)
  BY LenProperties, ElementOfSeq DEF Range
<1>2. \A b \in Range(to) : at(b) \in DOMAIN to /\ to[at(b)] = b
  BY DEF Range
<1>3. \A i \in DOMAIN to : at(to[i]) = i
  BY <1>1, <1>2 DEF IsInjective
<1>4. c = [b \in Block |-> IF b \in Range(to) THEN cells[from[at(b)]] ELSE cells[b]]
  BY DEF Copied
<1>. HIDE DEF at, c
<1>5. \A i \in DOMAIN to : c[to[i]] = cells[from[i]]
  BY <1>1, <1>3, <1>4
<1>6. c \in [Block -> Content]
  BY <1>1, <1>2, <1>4
<1>7. Stored(c, to, n) = Stored(cells, from, n)
  <2>1. /\ Stored(c, to, n) = [i \in 1 .. n |-> c[to[BlockNo(i - 1)]][SlotNo(i - 1)]]
        /\ \A i \in 1 .. n : BlockNo(i - 1) \in DOMAIN to
    <3>1. n <= BlockSize * Len(to)
      BY <1>1
    <3>2. Stored(c, to, n) = [i \in 1 .. n |-> c[to[BlockNo(i - 1)]][SlotNo(i - 1)]]
      BY <3>1, StoredAt
    <3>3. \A i \in 1 .. n : BlockNo(i - 1) \in DOMAIN to
      BY <3>1, StoredAt
    <3>. QED  BY <3>2, <3>3
  <2>2. Stored(cells, from, n) = [i \in 1 .. n |-> cells[from[BlockNo(i - 1)]][SlotNo(i - 1)]]
    BY StoredAt
  <2>. QED  BY <1>5, <2>1, <2>2
<1>. QED  BY <1>4, <1>6, <1>7 DEF c

(* The branch reads what its origin reads, from blocks of its own.         *)
LEMMA BranchStep ==
  ASSUME KVInv, NEW s \in Sequence, NEW d \in Sequence, Branch(s, d)
  PROVE  KVInv' /\ KVStore!Fork(s, d)
<1>. DEFINE mine == ids[s]
            more == Popped(Len(mine))
            c == Copied(mine, more)
<1>1. /\ mine # <<>> /\ Unused(d) /\ d # s /\ mine \in Seq(Block)
      /\ Len(mine) \in Nat /\ count[s] \in Nat /\ count[s] <= BlockSize * Len(mine)
      /\ KVTypeOK /\ FreeListOK /\ KVOwned /\ KVFilled /\ cells \in [Block -> Content]
      /\ Allocate(Len(mine)) /\ ids' = [ids EXCEPT ![d] = Popped(Len(mine))]
      /\ cells' = c /\ count' = [count EXCEPT ![d] = count[s]]
      /\ swapBuffer' = swapBuffer /\ away' = away
  BY KVTypes, LenProperties DEF KVInv, KVFilled, Branch, Unused
<1>2. /\ BMTypeOK' /\ FreeListOK' /\ KVOwned'
      /\ more \in Seq(Block) /\ Len(more) = Len(mine) /\ IsInjective(more)
      /\ ids' \in [Sequence -> Seq(Block)] /\ away' \in [Sequence -> Seq(Block)]
      /\ \A r \in Sequence : ids'[r] = IF r = d THEN more ELSE ids[r]
      /\ \A r \in Sequence : Range(more) \cap Range(ids[r]) = {}
  BY <1>1, KVGiven
<1>. HIDE DEF mine, more
<1>3. /\ c \in [Block -> Content]
      /\ \A b \in Block \ Range(more) : c[b] = cells[b]
      /\ Stored(c, more, count[s]) = Stored(cells, mine, count[s])
  BY <1>1, <1>2, CopiedStores
<1>. HIDE DEF c
<1>4. more # <<>>
  BY <1>1, <1>2, EmptyElements, EmptySeq
<1>5. /\ count' \in [Sequence -> Nat]
      /\ \A r \in Sequence : count'[r] = IF r = d THEN count[s] ELSE count[r]
  BY <1>1 DEF KVTypeOK
<1>6. KVTypeOK'
  BY <1>1, <1>2, <1>3, <1>5 DEF KVTypeOK
<1>7. KVFilled'
  BY <1>1, <1>2, <1>4, <1>5 DEF KVFilled, Unused
<1>8. Readable(d)' = Readable(s)
  BY <1>1, <1>2, <1>3, <1>4, <1>5 DEF Readable, mine
<1>9. ASSUME NEW r \in Sequence \ {d}  PROVE Readable(r)' = Readable(r)
  <2>1. Range(ids[r]) \subseteq Block \ Range(more)
    BY <1>1, <1>2, KVTypes
  <2>2. \A b \in Range(ids[r]) : cells'[b] = cells[b]
    BY <2>1, <1>1, <1>3
  <2>. QED  BY <2>2, <1>1, <1>2, <1>5, KVUndisturbed
<1>10. count[d] = 0
  BY <1>1, KVUnusedCount
<1>11. KVStore!Fork(s, d)
  BY <1>1, <1>8, <1>9, <1>10 DEF KVStore!Fork
<1>. QED  BY <1>2, <1>6, <1>7, <1>11 DEF KVInv

(* A sequence gives its blocks back, swapped out or for good.              *)
LEMMA KVGivenUp ==
  ASSUME KVInv, NEW s \in Sequence, Free(ids[s]) \/ SwapOut(ids[s]),
         ids' = [ids EXCEPT ![s] = <<>>],
         NEW gone \in {<<>>, ids[s]}, away' = [away EXCEPT ![s] = gone]
  PROVE  /\ BMTypeOK' /\ FreeListOK' /\ KVOwned'
         /\ ids' \in [Sequence -> Seq(Block)] /\ away' \in [Sequence -> Seq(Block)]
         /\ \A r \in Sequence : ids'[r] = IF r = s THEN <<>> ELSE ids[r]
         /\ \A r \in Sequence : away'[r] = IF r = s THEN gone ELSE away[r]
<1>. DEFINE mine == ids[s]
<1>1. /\ BMTypeOK /\ FreeListOK /\ KVOwned /\ KVTypeOK
      /\ mine \in Seq(Block) /\ IsInjective(mine) /\ Range(mine) \cap Range(freeIds) = {}
      /\ Range(mine) \subseteq Block /\ refCount \in [Block -> Int]
  BY KVTypes DEF KVInv, KVOwned, BMTypeOK
<1>2. /\ BMTypeOK' /\ FreeListOK' /\ Range(freeIds') = Range(freeIds) \cup Range(mine)
      /\ \A b \in Block : refCount'[b] <= 1
  <2>1. CASE Free(mine)
    <3>1. /\ BMTypeOK' /\ FreeListOK'
          /\ Range(freeIds') = Range(freeIds) \cup {b \in Range(mine) : refCount[b] <= 1}
          /\ \A b \in Block :
               refCount'[b] = IF b \in Range(mine) THEN refCount[b] - 1 ELSE refCount[b]
      BY <1>1, <2>1, FreeEffect
    <3>2. \A b \in Block : refCount[b] \in Int /\ refCount[b] <= 1
      BY <1>1 DEF KVOwned
    <3>. HIDE DEF mine
    <3>3. {b \in Range(mine) : refCount[b] <= 1} = Range(mine)
      BY <1>1, <3>2
    <3>. QED  BY <3>1, <3>2, <3>3
  <2>2. CASE SwapOut(mine)
    <3>1. /\ BMTypeOK' /\ FreeListOK' /\ Range(freeIds') = Range(freeIds) \cup Range(mine)
          /\ refCount' = refCount
      BY <1>1, <2>2, SwapOutEffect
    <3>. QED  BY <1>1, <3>1 DEF KVOwned
  <2>. QED  BY <2>1, <2>2
<1>. HIDE DEF mine
<1>3. /\ ids' \in [Sequence -> Seq(Block)] /\ away' \in [Sequence -> Seq(Block)]
      /\ \A r \in Sequence : ids'[r] = IF r = s THEN <<>> ELSE ids[r]
      /\ \A r \in Sequence : away'[r] = IF r = s THEN gone ELSE away[r]
      /\ IsInjective(gone)
  <2>1. gone \in Seq(Block) /\ IsInjective(gone)
    BY <1>1, EmptyElements DEF mine
  <2>. QED  BY <1>1, <2>1, EmptyElements DEF KVTypeOK
<1>4. KVOwned'
  <2>1. ASSUME NEW r \in Sequence
        PROVE  /\ IsInjective(ids'[r]) /\ IsInjective(away'[r])
               /\ ids'[r] = <<>> \/ away'[r] = <<>>
               /\ Range(ids'[r]) \cap Range(freeIds') = {}
    <3>1. CASE r = s
      BY <1>3, <3>1, EmptyElements
    <3>2. CASE r # s
      BY <1>1, <1>2, <1>3, <3>2 DEF KVOwned, mine
    <3>. QED  BY <3>1, <3>2
  <2>2. ASSUME NEW r \in Sequence, NEW q \in Sequence, r # q
        PROVE  Range(ids'[r]) \cap Range(ids'[q]) = {}
    BY <2>2, <1>1, <1>3, EmptyElements DEF KVOwned
  <2>. QED  BY <1>2, <2>1, <2>2 DEF KVOwned
<1>. QED  BY <1>2, <1>3, <1>4

(* A released sequence reads nothing.                                      *)
LEMMA ReleaseStep ==
  ASSUME KVInv, NEW s \in Sequence, Release(s)
  PROVE  KVInv' /\ KVStore!Drop(s)
<1>1. /\ Free(ids[s]) \/ SwapOut(ids[s])
      /\ ids' = [ids EXCEPT ![s] = <<>>]
      /\ ids[s] # <<>> /\ away' = away /\ cells' = cells /\ swapBuffer' = swapBuffer
      /\ count' = [count EXCEPT ![s] = 0] /\ KVTypeOK /\ KVFilled /\ KVOwned
  BY DEF Release, KVInv
<1>2. away[s] = <<>> /\ away' = [away EXCEPT ![s] = <<>>]
  BY <1>1 DEF KVOwned, KVTypeOK
<1>3. /\ BMTypeOK' /\ FreeListOK' /\ KVOwned'
      /\ ids' \in [Sequence -> Seq(Block)] /\ away' \in [Sequence -> Seq(Block)]
      /\ \A r \in Sequence : ids'[r] = IF r = s THEN <<>> ELSE ids[r]
  BY <1>1, <1>2, KVGivenUp
<1>4. /\ count' \in [Sequence -> Nat]
      /\ \A r \in Sequence : count'[r] = IF r = s THEN 0 ELSE count[r]
  BY <1>1 DEF KVTypeOK
<1>5. KVTypeOK'
  BY <1>1, <1>3, <1>4 DEF KVTypeOK
<1>6. KVFilled'
  <2>1. 0 <= BlockSize * Len(<<>>)
    BY EmptyElements, BlockSizeAssumption
  <2>. QED  BY <1>1, <1>2, <1>3, <1>4, <2>1 DEF KVFilled
<1>7. Readable(s)' = <<>>
  BY <1>1, <1>2, <1>3, <1>4, NothingStored DEF Readable
<1>8. \A r \in Sequence \ {s} : Readable(r)' = Readable(r)
  BY <1>1, <1>3, <1>4 DEF Readable
<1>9. KVStore!Drop(s)
  BY <1>1, <1>7, <1>8 DEF KVStore!Drop
<1>. QED  BY <1>3, <1>5, <1>6, <1>9 DEF KVInv

(* What was in the blocks is in the buffer.                                *)
LEMMA SaveAwayStep ==
  ASSUME KVInv, NEW s \in Sequence, SaveAway(s)
  PROVE  KVInv' /\ UNCHANGED KVStore!storeVars
<1>. DEFINE mine == ids[s]
            buf == [b \in Block |-> IF b \in Range(mine) THEN cells[b] ELSE swapBuffer[s][b]]
<1>1. /\ mine # <<>> /\ SwapOut(mine) /\ ids' = [ids EXCEPT ![s] = <<>>]
      /\ away' = [away EXCEPT ![s] = ids[s]] /\ cells' = cells /\ count' = count
      /\ KVTypeOK /\ KVFilled /\ KVOwned
      /\ swapBuffer' = [swapBuffer EXCEPT ![s] = buf]
      /\ mine \in Seq(Block) /\ Range(mine) \subseteq Block
  BY KVTypes DEF SaveAway, KVInv
<1>2. /\ BMTypeOK' /\ FreeListOK' /\ KVOwned'
      /\ ids' \in [Sequence -> Seq(Block)] /\ away' \in [Sequence -> Seq(Block)]
      /\ \A r \in Sequence : ids'[r] = IF r = s THEN <<>> ELSE ids[r]
      /\ \A r \in Sequence : away'[r] = IF r = s THEN mine ELSE away[r]
  BY <1>1, KVGivenUp
<1>3. /\ buf \in [Block -> Content \cup {<<>>}]
      /\ \A b \in Range(mine) : buf[b] = cells[b]
      /\ \A b \in Range(mine) : buf[b] \in Content
  BY <1>1 DEF KVTypeOK
<1>. HIDE DEF buf
<1>4. /\ swapBuffer' \in [Sequence -> [Block -> Content \cup {<<>>}]]
      /\ \A r \in Sequence : swapBuffer'[r] = IF r = s THEN buf ELSE swapBuffer[r]
  BY <1>1, <1>3 DEF KVTypeOK
<1>. HIDE DEF mine
<1>5. KVTypeOK'
  BY <1>1, <1>2, <1>4 DEF KVTypeOK
<1>6. count[s] \in Nat /\ count[s] <= BlockSize * Len(mine)
  BY <1>1 DEF KVFilled, KVTypeOK, mine
<1>7. KVFilled'
  BY <1>1, <1>2, <1>3, <1>4, <1>6 DEF KVFilled
<1>8. Readable(s)' = Readable(s)
  <2>1. Stored(buf, mine, count[s]) = Stored(cells, mine, count[s])
    BY <1>1, <1>3, <1>6, StoredAgrees
  <2>. QED  BY <1>1, <1>2, <1>4, <2>1 DEF Readable, mine
<1>9. \A r \in Sequence \ {s} : Readable(r)' = Readable(r)
  BY <1>1, <1>2, <1>4 DEF Readable
<1>. QED  BY <1>1, <1>2, <1>5, <1>7, <1>8, <1>9 DEF KVInv, KVStore!storeVars

(* Saved contents are never the mark of a missing key.                     *)
LEMMA ContentPresent == \A c \in Content : c # <<>>
<1>1. 0 \in Slot /\ \A c \in Content : DOMAIN c = Slot
  BY BlockSizeAssumption DEF Slot, Content
<1>2. DOMAIN <<>> = {}
  OBVIOUS
<1>. QED  BY <1>1, <1>2

(* The blocks that swap_in returns were nobody's, and what was saved of    *)
(* them is in them again: all that the sequence has, or it starts over.    *)
LEMMA BringBackStep ==
  ASSUME KVInv, NEW s \in Sequence, BringBack(s)
  PROVE  /\ KVInv'
         /\ UNCHANGED KVStore!storeVars \/ KVStore!Drop(s)
<1>. DEFINE mine == away[s]
            back == NewIds(mine)
            buf == swapBuffer[s]
            c == [b \in Block |-> IF b \in Range(back) /\ buf[b] # <<>> THEN buf[b] ELSE cells[b]]
            left == [b \in Block |-> IF b \in Range(back) \/ back # mine THEN <<>> ELSE buf[b]]
            n == IF back = mine THEN count[s] ELSE 0
<1>1. /\ mine # <<>> /\ SwapInStuck(mine) = {}
      /\ SwapIn(mine) /\ cells' = c /\ swapBuffer' = [swapBuffer EXCEPT ![s] = left]
      /\ ids' = [ids EXCEPT ![s] = back] /\ away' = [away EXCEPT ![s] = <<>>]
      /\ count' = [count EXCEPT ![s] = n]
      /\ KVTypeOK /\ FreeListOK /\ KVOwned /\ KVFilled /\ BMTypeOK
      /\ cells \in [Block -> Content] /\ buf \in [Block -> Content \cup {<<>>}]
      /\ mine \in Seq(Block) /\ IsInjective(mine) /\ Range(mine) \subseteq Block
      /\ count[s] \in Nat
  BY KVTypes DEF BringBack, KVInv, KVTypeOK, KVOwned
<1>2. /\ back \in Seq(Block) /\ IsInjective(back)
      /\ Range(back) = Range(mine) \cap swapBlocks
  BY <1>1, KeepOnlyElements DEF NewIds
<1>3. /\ BMTypeOK' /\ FreeListOK' /\ refCount' = refCount
      /\ Range(back) \subseteq Range(freeIds)
      /\ Range(freeIds') = Range(freeIds) \ Range(back)
  BY <1>1, <1>2, SwapInEffect
<1>. HIDE DEF mine, back
<1>4. /\ \A b \in Range(back) : buf[b] \in Content
      /\ c \in [Block -> Content] /\ \A b \in Range(back) : c[b] = buf[b]
      /\ \A b \in Block \ Range(back) : c[b] = cells[b]
      /\ left \in [Block -> Content \cup {<<>>}]
  <2>1. \A b \in Range(back) : buf[b] \in Content
    BY <1>1, <1>2 DEF KVFilled, mine
  <2>. HIDE DEF buf
  <2>2. \A b \in Range(back) : buf[b] # <<>>
    BY <2>1, ContentPresent
  <2>3. Range(back) \subseteq Block
    BY <1>1, <1>2
  <2>. QED  BY <1>1, <2>1, <2>2, <2>3
<1>5. n \in Nat /\ (back # mine => n = 0)
  BY <1>1
<1>. HIDE DEF c, left, n
<1>6. /\ ids' \in [Sequence -> Seq(Block)] /\ away' \in [Sequence -> Seq(Block)]
      /\ \A r \in Sequence : ids'[r] = IF r = s THEN back ELSE ids[r]
      /\ \A r \in Sequence : away'[r] = IF r = s THEN <<>> ELSE away[r]
      /\ swapBuffer' \in [Sequence -> [Block -> Content \cup {<<>>}]]
      /\ \A r \in Sequence \ {s} : swapBuffer'[r] = swapBuffer[r]
      /\ count' \in [Sequence -> Nat]
      /\ \A r \in Sequence : count'[r] = IF r = s THEN n ELSE count[r]
  BY <1>1, <1>2, <1>4, <1>5, EmptyElements DEF KVTypeOK
<1>7. KVTypeOK'
  BY <1>1, <1>3, <1>4, <1>6 DEF KVTypeOK
<1>8. \A r \in Sequence : Range(back) \cap Range(ids[r]) = {}
  BY <1>1, <1>3 DEF KVOwned
<1>9. KVOwned'
  <2>1. ASSUME NEW r \in Sequence
        PROVE  /\ IsInjective(ids'[r]) /\ IsInjective(away'[r])
               /\ ids'[r] = <<>> \/ away'[r] = <<>>
               /\ Range(ids'[r]) \cap Range(freeIds') = {}
    <3>1. CASE r = s
      BY <1>2, <1>3, <1>6, <3>1, EmptyElements
    <3>2. CASE r # s
      BY <1>1, <1>3, <1>6, <3>2 DEF KVOwned
    <3>. QED  BY <3>1, <3>2
  <2>2. ASSUME NEW r \in Sequence, NEW q \in Sequence, r # q
        PROVE  Range(ids'[r]) \cap Range(ids'[q]) = {}
    BY <2>2, <1>1, <1>6, <1>8 DEF KVOwned
  <2>. QED  BY <1>1, <1>3, <2>1, <2>2 DEF KVOwned
<1>10. ids[s] = <<>> /\ count[s] <= BlockSize * Len(mine)
  BY <1>1 DEF KVOwned, KVFilled, mine
<1>11. KVFilled'
  <2>1. n <= BlockSize * Len(back)
    <3>1. CASE back = mine
      BY <1>10, <3>1 DEF n
    <3>2. CASE back # mine
      <4>1. n = 0 /\ Len(back) \in Nat
        BY <1>2, <1>5, <3>2, LenProperties
      <4>. QED  BY <4>1, BlockSizeAssumption
    <3>. QED  BY <3>1, <3>2
  <2>2. ASSUME NEW r \in Sequence
        PROVE  /\ ids'[r] # <<>> => count'[r] <= BlockSize * Len(ids'[r])
               /\ ids'[r] = <<>> => count'[r] <= BlockSize * Len(away'[r])
               /\ \A b \in Range(away'[r]) : swapBuffer'[r][b] \in Content
    <3>1. CASE r = s
      BY <1>6, <2>1, <3>1, EmptyElements
    <3>2. CASE r # s
      BY <1>1, <1>6, <3>2 DEF KVFilled
    <3>. QED  BY <3>1, <3>2
  <2>. QED  BY <2>2 DEF KVFilled
<1>12. ASSUME NEW r \in Sequence \ {s}  PROVE Readable(r)' = Readable(r)
  <2>1. Range(ids[r]) \subseteq Block \ Range(back)
    BY <1>1, <1>8, KVTypes
  <2>2. \A b \in Range(ids[r]) : cells'[b] = cells[b]
    BY <2>1, <1>1, <1>4
  <2>. QED  BY <2>2, <1>1, <1>6, KVUndisturbed
<1>13. CASE back = mine
  <2>1. \A b \in Range(mine) : buf[b] = c[b]
    BY <1>4, <1>13
  <2>. HIDE DEF buf
  <2>2. Stored(buf, mine, count[s]) = Stored(c, mine, count[s])
    BY <1>1, <1>10, <2>1, StoredAgrees
  <2>3. Readable(s)' = Readable(s)
    BY <1>1, <1>6, <1>10, <1>13, <2>2 DEF Readable, mine, buf, n
  <2>4. count' = count
    BY <1>1, <1>13 DEF KVTypeOK, n
  <2>. QED  BY <1>3, <1>7, <1>9, <1>11, <1>12, <2>3, <2>4 DEF KVInv, KVStore!storeVars
<1>14. CASE back # mine
  <2>1. Readable(s)' = <<>>
    <3>1. CASE back = <<>>
      BY <1>5, <1>6, <3>1, NothingStored DEF Readable
    <3>2. CASE back # <<>>
      BY <1>1, <1>2, <1>4, <1>5, <1>6, <1>14, <3>2, NothingYet DEF Readable
    <3>. QED  BY <3>1, <3>2
  <2>2. count' = [count EXCEPT ![s] = 0]
    BY <1>1, <1>5, <1>14
  <2>3. KVStore!Drop(s)
    BY <2>1, <2>2, <1>12 DEF KVStore!Drop
  <2>. QED  BY <1>3, <1>7, <1>9, <1>11, <2>3 DEF KVInv
<1>. QED  BY <1>13, <1>14

(* A swap-in that raises takes blocks off the free list and changes        *)
(* nothing that anybody reads.                                             *)
LEMMA BringBackRaisesStep ==
  ASSUME KVInv, NEW s \in Sequence, BringBackRaises(s)
  PROVE  KVInv' /\ UNCHANGED KVStore!storeVars
<1>1. /\ SwapIn(away[s]) /\ UNCHANGED <<cells, swapBuffer, ids, away, count>>
      /\ away[s] \in Seq(Block)
      /\ BMTypeOK /\ FreeListOK /\ KVTypeOK /\ KVOwned /\ KVFilled
  BY KVTypes DEF BringBackRaises, KVInv, KVTypeOK
<1>2. /\ BMTypeOK' /\ FreeListOK' /\ refCount' = refCount
      /\ Range(freeIds') \subseteq Range(freeIds)
  BY <1>1, SwapInRaisedEffect
<1>3. KVTypeOK' /\ KVFilled'
  BY <1>1, <1>2 DEF KVTypeOK, KVFilled
<1>4. KVOwned'
  BY <1>1, <1>2 DEF KVOwned
<1>. QED  BY <1>1, <1>2, <1>3, <1>4 DEF KVInv, KVStore!storeVars, Readable

(* A sequence that is given up reads nothing.                              *)
LEMMA GiveUpStep ==
  ASSUME KVInv, NEW s \in Sequence, GiveUp(s)
  PROVE  KVInv' /\ KVStore!Drop(s)
<1>. DEFINE empty == [b \in Block |-> <<>>]
<1>1. /\ away[s] # <<>> /\ away' = [away EXCEPT ![s] = <<>>]
      /\ swapBuffer' = [swapBuffer EXCEPT ![s] = empty]
      /\ count' = [count EXCEPT ![s] = 0]
      /\ UNCHANGED <<freeIds, isFree, refCount, swapBlocks, cells, ids>>
      /\ KVTypeOK /\ FreeListOK /\ KVOwned /\ KVFilled
  BY DEF GiveUp, KVInv, bmVars
<1>2. empty \in [Block -> Content \cup {<<>>}]
  OBVIOUS
<1>. HIDE DEF empty
<1>3. /\ away' \in [Sequence -> Seq(Block)] /\ count' \in [Sequence -> Nat]
      /\ swapBuffer' \in [Sequence -> [Block -> Content \cup {<<>>}]]
      /\ \A r \in Sequence : away'[r] = IF r = s THEN <<>> ELSE away[r]
      /\ \A r \in Sequence : count'[r] = IF r = s THEN 0 ELSE count[r]
      /\ \A r \in Sequence \ {s} : swapBuffer'[r] = swapBuffer[r]
      /\ ids[s] = <<>>
  BY <1>1, <1>2, EmptyElements DEF KVTypeOK, KVOwned
<1>4. KVTypeOK'
  BY <1>1, <1>3 DEF KVTypeOK, BMTypeOK
<1>5. FreeListOK' /\ KVOwned'
  BY <1>1, <1>3, EmptyElements DEF FreeListOK, KVOwned
<1>6. KVFilled'
  <2>1. 0 <= BlockSize * Len(<<>>)
    BY EmptyElements, BlockSizeAssumption
  <2>. QED  BY <1>1, <1>3, <2>1, EmptyElements DEF KVFilled
<1>7. Readable(s)' = <<>>
  BY <1>1, <1>3, NothingStored DEF Readable
<1>8. \A r \in Sequence \ {s} : Readable(r)' = Readable(r)
  BY <1>1, <1>3 DEF Readable
<1>9. KVStore!Drop(s)
  BY <1>1, <1>7, <1>8 DEF KVStore!Drop
<1>. QED  BY <1>4, <1>5, <1>6, <1>9 DEF KVInv

(* Every step keeps the invariant and is one of the store.                 *)
LEMMA KVStep ==
  ASSUME KVInv, [KVNext]_kvVars
  PROVE  KVInv' /\ [KVStore!StoreNext]_(KVStore!storeVars)
<1>1. CASE UNCHANGED kvVars
  BY <1>1 DEF kvVars, KVInv, KVTypeOK, BMTypeOK, FreeListOK, KVOwned, KVFilled, Readable,
              KVStore!storeVars
<1>2. CASE KVNext
  <2>1. PICK s \in Sequence :
          \/ \E n \in 1 .. TotalBlocks : Admit(s, n)
          \/ \E t \in Token : WriteKV(s, t)
          \/ \E d \in Sequence : Branch(s, d)
          \/ Release(s) \/ SaveAway(s) \/ BringBack(s) \/ BringBackRaises(s) \/ GiveUp(s)
    BY <1>2 DEF KVNext
  <2>2. CASE \/ \E n \in 1 .. TotalBlocks : Admit(s, n)
             \/ SaveAway(s) \/ BringBackRaises(s)
    BY <2>2, AdmitStep, SaveAwayStep, BringBackRaisesStep
  <2>3. CASE \/ \E t \in Token : WriteKV(s, t)
             \/ \E d \in Sequence : Branch(s, d)
             \/ Release(s) \/ GiveUp(s)
    BY <2>3, WriteKVStep, BranchStep, ReleaseStep, GiveUpStep DEF KVStore!StoreNext
  <2>4. CASE BringBack(s)
    BY <2>4, BringBackStep DEF KVStore!StoreNext
  <2>. QED  BY <2>1, <2>2, <2>3, <2>4
<1>. QED  BY <1>1, <1>2

(* Cells, buffer and the lists of blocks keep their types.                 *)
THEOREM KVTypeCorrect == KVSpec => []KVTypeOK
<1>1. KVInv /\ [KVNext]_kvVars => KVInv'
  BY KVStep
<1>. QED  BY <1>1, InitKVInv, PTL DEF KVSpec, KVInv

(* Through writes of others, reuse of blocks, branching, swap-out and a    *)
(* swap-in at any time, which may raise after it took blocks or return     *)
(* fewer than it was asked for, a sequence reads exactly what it wrote, or *)
(* nothing once it started over because not all its blocks came back.      *)
THEOREM SwappedTokensKept == KVSpec => KVKeepsTokens
<1>1. KVInv /\ [KVNext]_kvVars => KVInv' /\ [KVStore!StoreNext]_(KVStore!storeVars)
  BY KVStep
<1>. QED
  BY <1>1, InitKVInv, PTL DEF KVSpec, KVKeepsTokens, KVStore!StoreSpec

=============================================================================
