---------------------------- MODULE BlockClients ----------------------------
(***************************************************************************)
(* The block manager under every use its methods allow: clients that       *)
(* allocate, share a prefix, free, swap out and swap in, in any order.     *)
(* The scheduler uses three of these methods (see Scheduler); the prefix   *)
(* and swap-in ones have no caller in the repository, so a client is the   *)
(* caller their signatures ask for: it passes back the ids it was given.   *)
(***************************************************************************)
EXTENDS BlockManager, FiniteSets

CONSTANTS
  Client,
  SwapInBlind     \* may a client swap in without looking at the free list?

ASSUME ClientAssumption == SwapInBlind \in BOOLEAN

VARIABLES
  held,           \* held[c]: the block ids allocate or swap_in gave to c
  parked          \* parked[c]: the ids c passed to swap_out and wants back

vars == <<freeIds, isFree, refCount, swapBlocks, held, parked>>

TypeOK ==
  /\ BMTypeOK
  /\ held \in [Client -> Seq(Block)]
  /\ parked \in [Client -> Seq(Block)]

Init ==
  /\ BMInit
  /\ held = [c \in Client |-> <<>>]
  /\ parked = [c \in Client |-> <<>>]

Idle(c) == held[c] = <<>> /\ parked[c] = <<>>

Holders(b) == {c \in Client : b \in Range(held[c])}

AllocateFor(c, n) ==
  /\ Idle(c)
  /\ Allocate(n)
  /\ held' = [held EXCEPT ![c] = Popped(n)]
  /\ UNCHANGED parked

(* One client computes a prefix for two: allocate_prefix counts both. *)
AllocatePrefixFor(c, d, n) ==
  /\ c # d /\ Idle(c) /\ Idle(d)
  /\ AllocatePrefix(n)
  /\ held' = [held EXCEPT ![c] = Popped(n), ![d] = Popped(n)]
  /\ UNCHANGED parked

FreeFor(c) ==
  /\ held[c] # <<>>
  /\ Free(held[c])
  /\ held' = [held EXCEPT ![c] = <<>>]
  /\ UNCHANGED parked

(* Swapping out a block that somebody else holds too would take it from    *)
(* under them (swap_out looks at no count): clients keep to their own.     *)
SwapOutFor(c) ==
  /\ held[c] # <<>>
  /\ \A b \in Range(held[c]) : Holders(b) = {c}
  /\ SwapOut(held[c])
  /\ parked' = [parked EXCEPT ![c] = held[c]]
  /\ held' = [held EXCEPT ![c] = <<>>]

(* The list swap_in returns when it does not raise. *)
SwappedIn(ids) == KeepOnly(ids, swapBlocks)

(* A raising swap_in returns nothing: the client is left without blocks. *)
SwapInFor(c) ==
  /\ parked[c] # <<>>
  /\ SwapInBlind \/ SwapInStuck(parked[c]) = {}
  /\ SwapIn(parked[c])
  /\ held' = [held EXCEPT ![c] =
                IF SwapInStuck(parked[c]) = {} THEN SwappedIn(parked[c]) ELSE <<>>]
  /\ parked' = [parked EXCEPT ![c] = <<>>]

Next ==
  \E c \in Client :
    \/ \E n \in 1 .. TotalBlocks : AllocateFor(c, n)
    \/ \E d \in Client, n \in 1 .. TotalBlocks : AllocatePrefixFor(c, d, n)
    \/ FreeFor(c)
    \/ SwapOutFor(c)
    \/ SwapInFor(c)

Spec == Init /\ [][Next]_vars

----------------------------------------------------------------------------
(* The free list names a block once, exactly when the block's free flag is *)
(* up and no client holds the block: block_manager.py keeps the three in   *)
(* step across shared frees, swap-outs and swap-ins.                       *)
FreeListConsistent ==
  /\ IsInjective(freeIds)
  /\ \A b \in Block :
       /\ isFree[b] <=> b \in Range(freeIds)
       /\ isFree[b] <=> Holders(b) = {}

(* A shared block is freed by its last holder: its count is the number of  *)
(* holders while it has several.  A sole holder may see 1 or, after a      *)
(* swap-in of a block that was used in between, 0: never more, or freeing  *)
(* it would leak it.                                                       *)
SharedRefs ==
  \A b \in Block :
    LET n == Cardinality(Holders(b))
    IN  IF n > 1 THEN refCount[b] = n ELSE refCount[b] <= 1

Pool == INSTANCE BlockPool WITH
          Owner <- Client, Block <- Block,
          free <- Range(freeIds), owned <- [c \in Client |-> Range(held[c])]

(* Clients that swap out only their own blocks, and swap in only while     *)
(* the blocks are still free, see the abstract pool of blocks.             *)
RefinesPool == Pool!PoolSpec

----------------------------------------------------------------------------
(* "Free list tracks available blocks" (block_manager.py:30): a block that *)
(* nobody holds is in the free list.                                       *)
FreeListTracksAvailable ==
  \A b \in Block : Holders(b) = {} => b \in Range(freeIds)

=============================================================================
