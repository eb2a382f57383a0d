---------------------------- MODULE ClientProofs ----------------------------
(***************************************************************************)
(* Theorems about the block manager for every set of clients and every     *)
(* number of blocks, for clients that look at the free list before they    *)
(* swap in.  Without that look the accounting fails, as the run            *)
(* swap_in_leak shows.                                                     *)
(***************************************************************************)
EXTENDS BlockClients, BlockManagerProofs

(* Who holds what: blocks are free or held, and a client that waits for    *)
(* its swapped-out blocks holds none.                                      *)
Placed ==
  /\ \A c \in Client :
       /\ IsInjective(held[c]) /\ IsInjective(parked[c])
       /\ held[c] = <<>> \/ parked[c] = <<>>
       /\ Range(held[c]) \cap Range(freeIds) = {}
  /\ \A b \in Block : b \in Range(freeIds) \/ \E c \in Client : b \in Range(held[c])

SharedBy(b, c, d) == c # d /\ b \in Range(held[c]) /\ b \in Range(held[d])

(* At most two clients share a block, and then both are counted; whatever  *)
(* is not shared counts at most one.                                       *)
Counted ==
  \A b \in Block :
    /\ \A c, d \in Client : SharedBy(b, c, d) =>
         /\ refCount[b] = 2
         /\ \A e \in Client : b \in Range(held[e]) => e = c \/ e = d
    /\ (\A c, d \in Client : ~SharedBy(b, c, d)) => refCount[b] <= 1

ClientInv == TypeOK /\ FreeListOK /\ Placed /\ Counted

(* Clients hold blocks that exist.                                         *)
LEMMA HeldInBlocks ==
  ASSUME TypeOK
  PROVE  /\ Range(freeIds) \subseteq Block
         /\ \A c \in Client : Range(held[c]) \subseteq Block
<1>1. freeIds \in Seq(Block) /\ \A c \in Client : held[c] \in Seq(Block)
  BY DEF TypeOK, BMTypeOK
<1>. QED  BY <1>1, RangeOfSeq

(* At the start all blocks are free.                                       *)
LEMMA InitClientInv == Init => ClientInv
<1>. SUFFICES ASSUME Init PROVE ClientInv
  OBVIOUS
<1>1. /\ BMTypeOK /\ FreeListOK /\ Range(freeIds) = Block
      /\ \A b \in Block : refCount[b] = 0
  BY InitEffect DEF Init
<1>2. /\ held = [c \in Client |-> <<>>] /\ parked = [c \in Client |-> <<>>]
      /\ \A c \in Client : held[c] = <<>> /\ parked[c] = <<>>
  BY DEF Init
<1>3. TypeOK
  BY <1>1, <1>2, EmptyElements DEF TypeOK
<1>4. Placed
  BY <1>1, <1>2, EmptyElements DEF Placed
<1>5. Counted
  BY <1>1, <1>2, EmptyElements DEF Counted, SharedBy
<1>. QED  BY <1>1, <1>3, <1>4, <1>5 DEF ClientInv

(* The clients in os, who hold nothing, get the free blocks ids names.     *)
LEMMA GainStep ==
  ASSUME ClientInv, NEW os \in SUBSET Client, NEW ids \in Seq(Block),
         os # {}, IsInjective(ids), Range(ids) \subseteq Range(freeIds),
         \A o \in os : held[o] = <<>>,
         BMTypeOK', FreeListOK',
         Range(freeIds') = Range(freeIds) \ Range(ids),
         held' = [c \in Client |-> IF c \in os THEN ids ELSE held[c]],
         parked' \in [Client -> Seq(Block)],
         \A c \in Client : IF c \in os THEN parked'[c] = <<>> ELSE parked'[c] = parked[c],
         \A b \in Block \ Range(ids) : refCount'[b] = refCount[b],
         \/ /\ \A c, d \in os : c = d
            /\ \A b \in Range(ids) : refCount'[b] <= 1
         \/ /\ \E c, d \in os : c # d /\ os = {c, d}
            /\ \A b \in Range(ids) : refCount'[b] = 2
  PROVE  ClientInv' /\ Pool!PoolNext
<1>. DEFINE S == Range(ids)
<1>. USE DEF ClientInv
<1>1. TypeOK'
  BY DEF TypeOK
<1>2. \A c \in Client : held'[c] = IF c \in os THEN ids ELSE held[c]
  OBVIOUS
<1>3. /\ S \subseteq Block /\ Range(<<>>) = {}
      /\ \A c \in Client : Range(held[c]) \cap S = {}
  <2>1. S \subseteq Block
    BY RangeOfSeq
  <2>. QED  BY <2>1, EmptyElements DEF Placed
<1>4. \A c \in Client : Range(held'[c]) = IF c \in os THEN S ELSE Range(held[c])
  BY <1>2
<1>5. Placed'
  <2>1. ASSUME NEW c \in Client
        PROVE  /\ IsInjective(held'[c]) /\ IsInjective(parked'[c])
               /\ held'[c] = <<>> \/ parked'[c] = <<>>
    BY <1>2, EmptyElements DEF Placed
  <2>2. ASSUME NEW c \in Client  PROVE  Range(held'[c]) \cap Range(freeIds') = {}
    BY <1>4 DEF Placed
  <2>3. ASSUME NEW b \in Block
        PROVE  b \in Range(freeIds') \/ \E c \in Client : b \in Range(held'[c])
    BY <1>3, <1>4 DEF Placed
  <2>. QED  BY <2>1, <2>2, <2>3 DEF Placed
<1>6. Counted'
  <2>. SUFFICES ASSUME NEW b \in Block
                PROVE  /\ \A c, d \in Client : SharedBy(b, c, d)' =>
                            /\ refCount'[b] = 2
                            /\ \A e \in Client : b \in Range(held'[e]) => e = c \/ e = d
                       /\ (\A c, d \in Client : ~SharedBy(b, c, d)') => refCount'[b] <= 1
    BY DEF Counted
  <2>. HIDE DEF S
  <2>1. CASE b \in S
    <3>1. \A c \in Client : b \in Range(held'[c]) <=> c \in os
      BY <1>3, <1>4, <2>1
    <3>2. CASE (\A c, d \in os : c = d) /\ refCount'[b] <= 1
      BY <3>1, <3>2 DEF SharedBy
    <3>3. CASE refCount'[b] = 2 /\ \E c, d \in os : c # d /\ os = {c, d}
      BY <3>1, <3>3 DEF SharedBy
    <3>. QED  BY <3>2, <3>3, <2>1 DEF S
  <2>2. CASE b \notin S
    <3>1. \A c \in Client : b \in Range(held'[c]) <=> b \in Range(held[c])
      BY <1>3, <1>4, <2>2
    <3>2. refCount'[b] = refCount[b]
      BY <2>2 DEF S
    <3>. QED  BY <3>1, <3>2 DEF Counted, SharedBy
  <2>. QED  BY <2>1, <2>2
<1>7. Pool!Acquire(os, S)
  BY <1>3, <1>4 DEF Pool!Acquire
<1>8. Pool!PoolNext
  <2>1. os \in SUBSET Client /\ S \in SUBSET Block /\ os # {}
    BY <1>3
  <2>. QED  BY <2>1, <1>7 DEF Pool!PoolNext
<1>. QED  BY <1>1, <1>5, <1>6, <1>8

(* The client c lets go of what it holds: what nobody else holds is free.  *)
LEMMA LoseStep ==
  ASSUME ClientInv, NEW c \in Client,
         BMTypeOK', FreeListOK',
         Range(freeIds') = Range(freeIds) \cup
             {b \in Range(held[c]) : \A d \in Client \ {c} : b \notin Range(held[d])},
         held' = [held EXCEPT ![c] = <<>>],
         parked' \in [Client -> Seq(Block)],
         IsInjective(parked'[c]),
         \A d \in Client \ {c} : parked'[d] = parked[d],
         \A b \in Block \ Range(held[c]) : refCount'[b] = refCount[b],
         \A b \in Range(held[c]) : refCount'[b] <= 1
  PROVE  ClientInv' /\ Pool!PoolNext
<1>. USE DEF ClientInv
<1>1. /\ held' \in [Client -> Seq(Block)] /\ Range(<<>>) = {}
      /\ \A d \in Client : held'[d] = IF d = c THEN <<>> ELSE held[d]
  BY EmptyElements DEF TypeOK
<1>2. TypeOK'
  BY <1>1 DEF TypeOK
<1>3. \A d \in Client : Range(held'[d]) = IF d = c THEN {} ELSE Range(held[d])
  BY <1>1
<1>4. /\ Range(freeIds) \subseteq Block
      /\ \A d \in Client : Range(held[d]) \subseteq Block
  BY HeldInBlocks
<1>5. Placed'
  <2>1. ASSUME NEW d \in Client
        PROVE  /\ IsInjective(held'[d]) /\ IsInjective(parked'[d])
               /\ held'[d] = <<>> \/ parked'[d] = <<>>
    BY <1>1, EmptyElements DEF Placed
  <2>2. ASSUME NEW d \in Client  PROVE  Range(held'[d]) \cap Range(freeIds') = {}
    BY <1>3 DEF Placed
  <2>3. ASSUME NEW b \in Block
        PROVE  b \in Range(freeIds') \/ \E d \in Client : b \in Range(held'[d])
    BY <1>3 DEF Placed
  <2>. QED  BY <2>1, <2>2, <2>3 DEF Placed
<1>6. Counted'
  <2>. SUFFICES ASSUME NEW b \in Block
                PROVE  /\ \A d, e \in Client : SharedBy(b, d, e)' =>
                            /\ refCount'[b] = 2
                            /\ \A f \in Client : b \in Range(held'[f]) => f = d \/ f = e
                       /\ (\A d, e \in Client : ~SharedBy(b, d, e)') => refCount'[b] <= 1
    BY DEF Counted
  <2>1. CASE b \in Range(held[c])
    <3>1. \A d, e \in Client : ~SharedBy(b, d, e)'
      BY <1>3, <2>1 DEF Counted, SharedBy
    <3>. QED  BY <3>1, <2>1
  <2>2. CASE b \notin Range(held[c])
    <3>1. \A d \in Client : b \in Range(held'[d]) <=> b \in Range(held[d])
      BY <1>3, <2>2
    <3>. QED  BY <3>1, <2>2 DEF Counted, SharedBy
  <2>. QED  BY <2>1, <2>2
<1>7. Pool!Release(c)
  BY <1>3 DEF Pool!Release
<1>. QED  BY <1>2, <1>5, <1>6, <1>7 DEF Pool!PoolNext

(* A client that allocates gets free blocks for itself.                    *)
LEMMA AllocateForStep ==
  ASSUME ClientInv, NEW c \in Client, NEW n \in 1 .. TotalBlocks, AllocateFor(c, n)
  PROVE  ClientInv' /\ Pool!PoolNext
<1>1. n \in Nat /\ Allocate(n) /\ BMTypeOK /\ FreeListOK
  BY TotalBlocksAssumption DEF AllocateFor, ClientInv, TypeOK
<1>2. /\ Popped(n) \in Seq(Block) /\ IsInjective(Popped(n))
      /\ Range(Popped(n)) \subseteq Range(freeIds)
      /\ BMTypeOK' /\ FreeListOK'
      /\ Range(freeIds') = Range(freeIds) \ Range(Popped(n))
      /\ \A b \in Block : refCount'[b] = IF b \in Range(Popped(n)) THEN 1 ELSE refCount[b]
  BY <1>1, AllocateEffect
<1>3. /\ held' = [d \in Client |-> IF d \in {c} THEN Popped(n) ELSE held[d]]
      /\ \A d \in {c} : held[d] = <<>> /\ parked[d] = <<>>
      /\ parked' = parked /\ parked \in [Client -> Seq(Block)]
  BY DEF AllocateFor, Idle, ClientInv, TypeOK
<1>4. \A b \in Range(Popped(n)) : refCount'[b] <= 1
  BY <1>2, RangeOfSeq
<1>5. \A b \in Block \ Range(Popped(n)) : refCount'[b] = refCount[b]
  BY <1>2
<1>6. {c} \in SUBSET Client /\ {c} # {} /\ \A d, e \in {c} : d = e
  OBVIOUS
<1>. QED  BY <1>2, <1>3, <1>4, <1>5, <1>6, GainStep

(* Two clients get free blocks, counted twice.                             *)
LEMMA AllocatePrefixForStep ==
  ASSUME ClientInv, NEW c \in Client, NEW d \in Client, NEW n \in 1 .. TotalBlocks,
         AllocatePrefixFor(c, d, n)
  PROVE  ClientInv' /\ Pool!PoolNext
<1>1. n \in Nat /\ AllocateRefs(n, 2) /\ BMTypeOK /\ FreeListOK
  BY TotalBlocksAssumption DEF AllocatePrefixFor, AllocatePrefix, ClientInv, TypeOK
<1>2. /\ Popped(n) \in Seq(Block) /\ IsInjective(Popped(n))
      /\ Range(Popped(n)) \subseteq Range(freeIds)
      /\ BMTypeOK' /\ FreeListOK'
      /\ Range(freeIds') = Range(freeIds) \ Range(Popped(n))
      /\ \A b \in Block : refCount'[b] = IF b \in Range(Popped(n)) THEN 2 ELSE refCount[b]
  BY <1>1, AllocateRefsEffect
<1>3. /\ held' = [e \in Client |-> IF e \in {c, d} THEN Popped(n) ELSE held[e]]
      /\ c # d /\ \A e \in {c, d} : held[e] = <<>> /\ parked[e] = <<>>
      /\ parked' = parked /\ parked \in [Client -> Seq(Block)]
  BY DEF AllocatePrefixFor, Idle, ClientInv, TypeOK
<1>4. \A b \in Range(Popped(n)) : refCount'[b] = 2
  BY <1>2, RangeOfSeq
<1>5. \A b \in Block \ Range(Popped(n)) : refCount'[b] = refCount[b]
  BY <1>2
<1>. DEFINE os == {c, d}
            ids == Popped(n)
<1>6. /\ os \in SUBSET Client /\ os # {}
      /\ \E e, f \in os : e # f /\ os = {e, f}
  BY <1>3
<1>7. /\ held' = [e \in Client |-> IF e \in os THEN ids ELSE held[e]]
      /\ \A e \in os : held[e] = <<>>
      /\ parked' \in [Client -> Seq(Block)]
      /\ \A e \in Client : IF e \in os THEN parked'[e] = <<>> ELSE parked'[e] = parked[e]
  BY <1>3
<1>8. /\ ids \in Seq(Block) /\ IsInjective(ids) /\ Range(ids) \subseteq Range(freeIds)
      /\ BMTypeOK' /\ FreeListOK'
      /\ Range(freeIds') = Range(freeIds) \ Range(ids)
      /\ \A b \in Range(ids) : refCount'[b] = 2
      /\ \A b \in Block \ Range(ids) : refCount'[b] = refCount[b]
  BY <1>2, <1>4, <1>5
<1>. HIDE DEF os, ids
<1>. QED  BY <1>6, <1>7, <1>8, GainStep

(* A block is free again when its last holder frees it.                    *)
LEMMA FreeForStep ==
  ASSUME ClientInv, NEW c \in Client, FreeFor(c)
  PROVE  ClientInv' /\ Pool!PoolNext
<1>1. /\ held[c] \in Seq(Block) /\ IsInjective(held[c])
      /\ Range(held[c]) \cap Range(freeIds) = {} /\ Range(held[c]) \subseteq Block
      /\ Free(held[c]) /\ BMTypeOK /\ FreeListOK
  BY HeldInBlocks DEF FreeFor, ClientInv, TypeOK, Placed
<1>2. /\ BMTypeOK' /\ FreeListOK'
      /\ Range(freeIds') = Range(freeIds) \cup {b \in Range(held[c]) : refCount[b] <= 1}
      /\ \A b \in Block : refCount'[b] =
           IF b \in Range(held[c]) THEN refCount[b] - 1 ELSE refCount[b]
  BY <1>1, FreeEffect
<1>3. ASSUME NEW b \in Range(held[c])
      PROVE  /\ refCount[b] <= 1 <=> \A d \in Client \ {c} : b \notin Range(held[d])
             /\ refCount[b] <= 2 /\ refCount[b] \in Int
  <2>1. b \in Block /\ refCount[b] \in Int
    BY <1>1 DEF BMTypeOK
  <2>2. CASE \E d \in Client \ {c} : b \in Range(held[d])
    <3>1. refCount[b] = 2
      BY <2>1, <2>2 DEF ClientInv, Counted, SharedBy
    <3>. QED  BY <2>2, <3>1
  <2>3. CASE \A d \in Client \ {c} : b \notin Range(held[d])
    <3>1. \A d, e \in Client : ~SharedBy(b, d, e)
      BY <2>3 DEF SharedBy
    <3>2. refCount[b] <= 1
      BY <2>1, <3>1 DEF ClientInv, Counted
    <3>. QED  BY <2>1, <2>3, <3>2
  <2>. QED  BY <2>2, <2>3
<1>4. {b \in Range(held[c]) : refCount[b] <= 1} =
        {b \in Range(held[c]) : \A d \in Client \ {c} : b \notin Range(held[d])}
  BY <1>3
<1>5. \A b \in Range(held[c]) : refCount'[b] <= 1
  BY <1>1, <1>2, <1>3
<1>6. \A b \in Block \ Range(held[c]) : refCount'[b] = refCount[b]
  BY <1>2
<1>7. /\ held' = [held EXCEPT ![c] = <<>>] /\ parked' = parked
      /\ parked \in [Client -> Seq(Block)] /\ IsInjective(parked[c])
  BY DEF FreeFor, ClientInv, TypeOK, Placed
<1>. QED  BY <1>2, <1>4, <1>5, <1>6, <1>7, LoseStep

(* Blocks that nobody shares are free once swapped out.                    *)
LEMMA SwapOutForStep ==
  ASSUME ClientInv, NEW c \in Client, SwapOutFor(c)
  PROVE  ClientInv' /\ Pool!PoolNext
<1>1. /\ held[c] \in Seq(Block) /\ IsInjective(held[c])
      /\ Range(held[c]) \cap Range(freeIds) = {} /\ Range(held[c]) \subseteq Block
      /\ SwapOut(held[c]) /\ BMTypeOK /\ FreeListOK
  BY HeldInBlocks DEF SwapOutFor, ClientInv, TypeOK, Placed
<1>2. /\ BMTypeOK' /\ FreeListOK'
      /\ Range(freeIds') = Range(freeIds) \cup Range(held[c])
      /\ refCount' = refCount
  BY <1>1, SwapOutEffect
<1>3. \A b \in Range(held[c]) : \A d \in Client \ {c} : b \notin Range(held[d])
  BY DEF SwapOutFor, Holders
<1>4. Range(held[c]) =
        {b \in Range(held[c]) : \A d \in Client \ {c} : b \notin Range(held[d])}
  BY <1>3
<1>5. \A b \in Range(held[c]) : refCount'[b] <= 1
  <2>1. \A b \in Range(held[c]) : \A d, e \in Client : ~SharedBy(b, d, e)
    BY <1>3 DEF SharedBy
  <2>. QED  BY <2>1, <1>1, <1>2 DEF ClientInv, Counted
<1>6. /\ held' = [held EXCEPT ![c] = <<>>] /\ parked' = [parked EXCEPT ![c] = held[c]]
      /\ parked \in [Client -> Seq(Block)]
  BY DEF SwapOutFor, ClientInv, TypeOK
<1>7. /\ parked' \in [Client -> Seq(Block)] /\ IsInjective(parked'[c])
      /\ \A d \in Client \ {c} : parked'[d] = parked[d]
  BY <1>1, <1>6
<1>. QED  BY <1>2, <1>4, <1>5, <1>6, <1>7, LoseStep

(* Blocks that are free and saved have a holder again.                     *)
LEMMA SwapInForStep ==
  ASSUME ~SwapInBlind, ClientInv, NEW c \in Client, SwapInFor(c)
  PROVE  ClientInv' /\ Pool!PoolNext
<1>. DEFINE ids == SwappedIn(parked[c])
            S == Range(parked[c]) \cap swapBlocks
<1>1. /\ parked[c] \in Seq(Block) /\ SwapInStuck(parked[c]) = {} /\ SwapIn(parked[c])
      /\ IsInjective(parked[c]) /\ held[c] = <<>>
      /\ BMTypeOK /\ FreeListOK
  BY DEF SwapInFor, ClientInv, TypeOK, Placed
<1>2. /\ S \subseteq Range(freeIds)
      /\ BMTypeOK' /\ FreeListOK'
      /\ Range(freeIds') = Range(freeIds) \ S
      /\ refCount' = refCount
  BY <1>1, SwapInEffect
<1>3. ids \in Seq(Block) /\ Range(ids) = S /\ IsInjective(ids)
  BY <1>1, KeepOnlyElements DEF SwappedIn
<1>4. /\ held' = [held EXCEPT ![c] = ids] /\ parked' = [parked EXCEPT ![c] = <<>>]
      /\ held \in [Client -> Seq(Block)] /\ parked \in [Client -> Seq(Block)]
  BY <1>1 DEF SwapInFor, ClientInv, TypeOK
<1>5. \A b \in S : refCount'[b] <= 1
  <2>. SUFFICES ASSUME NEW b \in S  PROVE  refCount[b] <= 1
    BY <1>2
  <2>1. b \in Block /\ \A d, e \in Client : ~SharedBy(b, d, e)
    BY <1>2, HeldInBlocks DEF ClientInv, Placed, SharedBy
  <2>. QED  BY <2>1 DEF ClientInv, Counted
<1>. HIDE DEF ids, S
<1>6. /\ held' = [d \in Client |-> IF d \in {c} THEN ids ELSE held[d]]
      /\ parked' \in [Client -> Seq(Block)]
      /\ \A d \in Client : IF d \in {c} THEN parked'[d] = <<>> ELSE parked'[d] = parked[d]
      /\ \A d \in {c} : held[d] = <<>>
  BY <1>1, <1>4, EmptyElements
<1>. QED  BY <1>2, <1>3, <1>5, <1>6, GainStep

(* Every step keeps the invariant and is one of the pool.                  *)
LEMMA ClientStep ==
  ASSUME ~SwapInBlind, ClientInv, [Next]_vars
  PROVE  ClientInv' /\ [Pool!PoolNext]_(Pool!poolVars)
<1>1. CASE UNCHANGED vars
  BY <1>1 DEF vars, ClientInv, TypeOK, BMTypeOK, FreeListOK, Placed, Counted, SharedBy,
              Pool!poolVars
<1>2. CASE Next
  <2>1. PICK c \in Client :
          \/ \E n \in 1 .. TotalBlocks : AllocateFor(c, n)
          \/ \E d \in Client, n \in 1 .. TotalBlocks : AllocatePrefixFor(c, d, n)
          \/ FreeFor(c) \/ SwapOutFor(c) \/ SwapInFor(c)
    BY <1>2 DEF Next
  <2>2. ClientInv' /\ Pool!PoolNext
    BY <2>1, AllocateForStep, AllocatePrefixForStep, FreeForStep, SwapOutForStep,
       SwapInForStep
  <2>. QED  BY <2>2
<1>. QED  BY <1>1, <1>2

(* The lists and tables of the block manager and its clients keep their    *)
(* shape through every call, counts below zero included.                   *)
THEOREM ClientsTypeCorrect == ASSUME ~SwapInBlind PROVE Spec => []TypeOK
<1>1. ClientInv /\ [Next]_vars => ClientInv'
  BY ClientStep
<1>2. ClientInv => TypeOK
  BY DEF ClientInv
<1>. QED  BY <1>1, <1>2, InitClientInv, PTL DEF Spec

(* free_block_ids, the flags and the holders agree after any sequence of   *)
(* allocations, shared or not, frees, swap-outs and swap-ins.              *)
THEOREM FreeListCorrect == ASSUME ~SwapInBlind PROVE Spec => []FreeListConsistent
<1>1. ClientInv /\ [Next]_vars => ClientInv'
  BY ClientStep
<1>2. ASSUME ClientInv  PROVE FreeListConsistent
  <2>1. ASSUME NEW b \in Block  PROVE b \in Range(freeIds) <=> Holders(b) = {}
    BY <1>2 DEF ClientInv, Placed, Holders
  <2>. QED  BY <1>2, <2>1 DEF ClientInv, FreeListOK, FreeListConsistent
<1>. QED  BY <1>1, <1>2, InitClientInv, PTL DEF Spec

(* The count of a shared block is the number of its holders, so the last   *)
(* one of them to free it gives it back, and nobody else does.             *)
THEOREM SharedRefsCorrect == ASSUME ~SwapInBlind PROVE Spec => []SharedRefs
<1>1. ClientInv /\ [Next]_vars => ClientInv'
  BY ClientStep
<1>2. ASSUME ClientInv  PROVE SharedRefs
  <2>. SUFFICES ASSUME NEW b \in Block
                PROVE  IF Cardinality(Holders(b)) > 1
                       THEN refCount[b] = Cardinality(Holders(b)) ELSE refCount[b] <= 1
    BY DEF SharedRefs
  <2>1. CASE \A c, d \in Client : ~SharedBy(b, c, d)
    <3>1. Holders(b) = {} \/ \E c \in Client : Holders(b) = {c}
      BY <2>1 DEF Holders, SharedBy
    <3>2. Cardinality(Holders(b)) \in {0, 1}
      BY <3>1, FS_EmptySet, FS_Singleton
    <3>. QED  BY <3>2, <2>1, <1>2 DEF ClientInv, Counted
  <2>2. CASE \E c, d \in Client : SharedBy(b, c, d)
    <3>1. PICK c \in Client, d \in Client : SharedBy(b, c, d)
      BY <2>2
    <3>2. /\ refCount[b] = 2
          /\ \A e \in Client : b \in Range(held[e]) => e = c \/ e = d
      BY <3>1, <1>2 DEF ClientInv, Counted
    <3>3. Holders(b) = {c} \cup {d} /\ d \notin {c}
      BY <3>1, <3>2 DEF Holders, SharedBy
    <3>4. Cardinality(Holders(b)) = 2
      <4>1. IsFiniteSet({c}) /\ Cardinality({c}) = 1
        BY FS_Singleton
      <4>2. Cardinality({c} \cup {d}) = Cardinality({c}) + 1
        BY <4>1, <3>3, FS_AddElement
      <4>. QED  BY <3>3, <4>1, <4>2
    <3>. QED  BY <3>2, <3>4
  <2>. QED  BY <2>1, <2>2
<1>. QED  BY <1>1, <1>2, InitClientInv, PTL DEF Spec

(* The block manager is the abstract pool of blocks with shared owners:    *)
(* every call gives free blocks to clients without any, or takes back what *)
(* the caller had.                                                         *)
THEOREM ClientsImplementPool == ASSUME ~SwapInBlind PROVE Spec => RefinesPool
<1>1. ClientInv /\ [Next]_vars => ClientInv' /\ [Pool!PoolNext]_(Pool!poolVars)
  BY ClientStep
<1>2. Init => Pool!PoolInit
  BY InitEffect, EmptyElements DEF Init, Pool!PoolInit
<1>. QED  BY <1>1, <1>2, InitClientInv, PTL DEF Spec, RefinesPool, Pool!PoolSpec

=============================================================================
