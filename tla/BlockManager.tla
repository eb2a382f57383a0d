---------------------------- MODULE BlockManager ----------------------------
(***************************************************************************)
(* The GPU block manager, src/src/cache/block_manager.py: a LIFO free list *)
(* of block ids, a reference count and a free flag per block, and a table  *)
(* of blocks moved to CPU swap space.  The operations are actions on these *)
(* variables; the modules that own the callers (BlockClients, Scheduler)   *)
(* conjoin them with their own updates.                                    *)
(*                                                                         *)
(* Left out: seq_id (written, never read by the program), the swapped data *)
(* itself (a placeholder in the code), statistics and logging.             *)
(***************************************************************************)
EXTENDS Lists

CONSTANT TotalBlocks      \* config.num_kv_cache_blocks, or the estimate when 0

ASSUME TotalBlocksAssumption == TotalBlocks \in Nat \ {0}

VARIABLES
  freeIds,       \* _free_block_ids: allocate pops from its end
  isFree,        \* _blocks[b].is_free
  refCount,      \* _blocks[b].ref_count
  swapBlocks     \* the keys of _swap_blocks

bmVars == <<freeIds, isFree, refCount, swapBlocks>>

Block == 0 .. TotalBlocks - 1

BMTypeOK ==
  /\ freeIds \in Seq(Block)
  /\ isFree \in [Block -> BOOLEAN]
  /\ refCount \in [Block -> Int]
  /\ swapBlocks \in SUBSET Block

(* Mutant: ids counted from one. *)
BMInitFromOne ==
  /\ freeIds = [i \in 1 .. TotalBlocks |-> i]
  /\ isFree = [b \in Block |-> TRUE]
  /\ refCount = [b \in Block |-> 0]
  /\ swapBlocks = {}

BMInit ==
  /\ freeIds = [i \in 1 .. TotalBlocks |-> i - 1]
  /\ isFree = [b \in Block |-> TRUE]
  /\ refCount = [b \in Block |-> 0]
  /\ swapBlocks = {}

----------------------------------------------------------------------------
(* Mutant: the ids come from the front, the cut is at the end. *)
PoppedFromFront(n) == [i \in 1 .. n |-> freeIds[i]]

(* The n ids that n pops from the end of the free list return, in order. *)
Popped(n) == Pops(freeIds, n)

(* allocate(n) with the reference count each block starts at: 1, or 2 when *)
(* allocate_prefix adds the second reference.  The guard is the ValueError *)
(* exit, which leaves the state alone.                                     *)
AllocateRefs(n, refs) ==
  /\ n <= Len(freeIds)
  /\ freeIds' = AfterPops(freeIds, n)
  /\ isFree' = [b \in Block |-> isFree[b] /\ b \notin Range(Popped(n))]
  /\ refCount' = [b \in Block |-> IF b \in Range(Popped(n)) THEN refs ELSE refCount[b]]
  /\ UNCHANGED swapBlocks

Allocate(n) == AllocateRefs(n, 1)

(* Mutant: allocate_prefix forgets the second reference. *)
AllocatePrefixUncounted(n) == AllocateRefs(n, 1)

AllocatePrefix(n) == AllocateRefs(n, 2)

(* Mutant: free gives every block back, whatever references are left. *)
FreeIgnoringRefs(ids) ==
  /\ refCount' = [b \in Block |-> refCount[b] - (IF b \in Range(ids) THEN 1 ELSE 0)]
  /\ isFree' = [b \in Block |-> isFree[b] \/ b \in Range(ids)]
  /\ freeIds' = freeIds \o ids
  /\ UNCHANGED swapBlocks

(* free(ids): drop one reference from each block; those that reach zero go *)
(* to the end of the free list.  Ids out of range are skipped.             *)
Free(ids) ==
  /\ refCount' = [b \in Block |-> refCount[b] - (IF b \in Range(ids) THEN 1 ELSE 0)]
  /\ isFree' = [b \in Block |-> isFree[b] \/ (b \in Range(ids) /\ refCount[b] <= 1)]
  /\ freeIds' = freeIds \o KeepOnly(ids, {b \in Block : refCount[b] <= 1})
  /\ UNCHANGED swapBlocks

(* Mutant: swap_out saves the data and keeps the blocks. *)
SwapOutDataOnly(ids) ==
  /\ swapBlocks' = swapBlocks \cup Range(ids)
  /\ UNCHANGED <<freeIds, isFree, refCount>>

(* swap_out(ids): the reference counts are not looked at. *)
SwapOut(ids) ==
  /\ swapBlocks' = swapBlocks \cup Range(ids)
  /\ isFree' = [b \in Block |-> isFree[b] \/ b \in Range(ids)]
  /\ freeIds' = freeIds \o ids
  /\ UNCHANGED refCount

(* Where swap_in(ids) raises ValueError: a swapped id that is no longer in *)
(* the free list because someone else was given the block meanwhile.       *)
SwapInStuck(ids) ==
  {i \in DOMAIN ids : ids[i] \in swapBlocks /\ ids[i] \notin Range(freeIds)}

(* Mutant: swap_in does not take the blocks off the free list. *)
SwapInStillListed(ids) ==
  /\ swapBlocks' = swapBlocks \ Range(ids)
  /\ isFree' = [b \in Block |-> isFree[b] /\ b \notin Range(ids) \cap swapBlocks]
  /\ UNCHANGED <<freeIds, refCount>>

(* swap_in(ids): every id before the first stuck one that has a swap entry *)
(* leaves the free list; the stuck one has already lost its entry when the *)
(* remove raises.  The same block id is used again, not a free one.        *)
SwapIn(ids) ==
  LET stuck   == SwapInStuck(ids)
      reached == IF stuck = {} THEN Len(ids) ELSE Min(stuck)
      touched == {ids[i] : i \in 1 .. reached} \cap swapBlocks
  IN  /\ swapBlocks' = swapBlocks \ touched
      /\ isFree' = [b \in Block |-> isFree[b] /\ b \notin touched]
      /\ freeIds' = KeepOnly(freeIds, Block \ touched)
      /\ UNCHANGED refCount

(* Mutant: swap_in returns the list it was given. *)
AskedFor(ids) == ids

(* new_ids, what swap_in(ids) returns unless it raises: the ids that had a *)
(* swap entry.                                                             *)
NewIds(ids) == KeepOnly(ids, swapBlocks)

=============================================================================
