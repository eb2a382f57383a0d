------------------------------ MODULE KVCache -------------------------------
(***************************************************************************)
(* PagedAttentionKVCacheManager, src/src/cache/paged_attention.py, on the  *)
(* blocks of the block manager: tokens written and read block by block,    *)
(* blocks copied for beam search, and the contents of an evicted sequence  *)
(* saved and restored while the block manager swaps its blocks out and in. *)
(*                                                                         *)
(* Nobody in the repository calls it, so sequences here use it together    *)
(* with the block manager the way the methods ask for.  One layer: the     *)
(* code ignores layer_idx, so with more layers each overwrites the last.   *)
(***************************************************************************)
EXTENDS BlockManager, KVBlocks

VARIABLES
  cells,         \* _key_blocks and _value_blocks
  swapBuffer,    \* swapBuffer[s][b]: _swap_buffer, <<>> where a key is missing
  ids,           \* ids[s]: the blocks of s
  away,          \* away[s]: the blocks s had when it was swapped out
  count          \* count[s]: the positions s has written

kvVars == <<freeIds, isFree, refCount, swapBlocks, cells, swapBuffer, ids, away, count>>

KVInit ==
  /\ BMInit
  /\ cells = [b \in Block |-> [i \in Slot |-> Zero]]
  /\ swapBuffer = [s \in Sequence |-> [b \in Block |-> <<>>]]
  /\ ids = [s \in Sequence |-> <<>>]
  /\ away = [s \in Sequence |-> <<>>]
  /\ count = [s \in Sequence |-> 0]

Unused(s) == ids[s] = <<>> /\ away[s] = <<>>

Admit(s, n) ==
  /\ Unused(s)
  /\ Allocate(n)
  /\ ids' = [ids EXCEPT ![s] = Popped(n)]
  /\ UNCHANGED <<cells, swapBuffer, away, count>>

(* write_kv at the next position; without a block for it, IndexError. *)
WriteKV(s, t) ==
  /\ count[s] \div BlockSize < Len(ids[s])
  /\ cells' = Write(cells, ids[s], count[s], t)
  /\ count' = [count EXCEPT ![s] = @ + 1]
  /\ UNCHANGED <<bmVars, swapBuffer, ids, away>>

(* The cells after copy_block from each block of a list to its partner. *)
Copied(from, to) ==
  [b \in Block |-> IF b \in Range(to)
                   THEN cells[from[CHOOSE i \in DOMAIN to : to[i] = b]] ELSE cells[b]]

(* A beam d splits off from s: blocks of its own, with the same contents. *)
Branch(s, d) ==
  /\ ids[s] # <<>> /\ Unused(d)
  /\ Allocate(Len(ids[s]))
  /\ cells' = Copied(ids[s], Popped(Len(ids[s])))
  /\ ids' = [ids EXCEPT ![d] = Popped(Len(ids[s]))]
  /\ count' = [count EXCEPT ![d] = count[s]]
  /\ UNCHANGED <<swapBuffer, away>>

Release(s) ==
  /\ ids[s] # <<>>
  /\ Free(ids[s])
  /\ ids' = [ids EXCEPT ![s] = <<>>]
  /\ count' = [count EXCEPT ![s] = 0]
  /\ UNCHANGED <<cells, swapBuffer, away>>

(* swap_out here, then in the block manager. *)
SaveAway(s) ==
  /\ ids[s] # <<>>
  /\ swapBuffer' = [swapBuffer EXCEPT ![s] =
                      [b \in Block |-> IF b \in Range(ids[s]) THEN cells[b] ELSE @[b]]]
  /\ SwapOut(ids[s])
  /\ away' = [away EXCEPT ![s] = ids[s]]
  /\ ids' = [ids EXCEPT ![s] = <<>>]
  /\ UNCHANGED <<cells, count>>

(* swap_in in the block manager, then here with the ids it returned.  The  *)
(* swap table is keyed by block alone, so an entry may be gone with the    *)
(* swap-in of another sequence and its block is skipped without a word; a  *)
(* caller that gets fewer blocks than it gave up cannot tell the tokens    *)
(* apart and starts over on them, under a new id as in GiveUp.             *)
BringBack(s) ==
  LET back == NewIds(away[s])
  IN  /\ away[s] # <<>> /\ SwapInStuck(away[s]) = {}
      /\ SwapIn(away[s])
      /\ cells' = [b \in Block |-> IF b \in Range(back) /\ swapBuffer[s][b] # <<>>
                                   THEN swapBuffer[s][b] ELSE cells[b]]
      /\ swapBuffer' = [swapBuffer EXCEPT ![s] =
                          [b \in Block |-> IF b \in Range(back) \/ back # away[s] THEN <<>>
                                          ELSE @[b]]]
      /\ ids' = [ids EXCEPT ![s] = back]
      /\ away' = [away EXCEPT ![s] = <<>>]
      /\ count' = [count EXCEPT ![s] = IF back = away[s] THEN @ ELSE 0]

(* swap_in raises in the block manager: a block was given to somebody      *)
(* meanwhile.  The blocks before it are nobody's from now on, and nothing  *)
(* is restored; the sequence may try again or be given up.                 *)
BringBackRaises(s) ==
  /\ away[s] # <<>> /\ SwapInStuck(away[s]) # {}
  /\ SwapIn(away[s])
  /\ UNCHANGED <<cells, swapBuffer, ids, away, count>>

(* A swapped-out sequence is given up and a new id takes its place.  What  *)
(* the old id saved stays in the code's buffer, where nobody asks for it.  *)
GiveUp(s) ==
  /\ away[s] # <<>>
  /\ away' = [away EXCEPT ![s] = <<>>]
  /\ swapBuffer' = [swapBuffer EXCEPT ![s] = [b \in Block |-> <<>>]]
  /\ count' = [count EXCEPT ![s] = 0]
  /\ UNCHANGED <<bmVars, cells, ids>>

KVNext ==
  \E s \in Sequence :
    \/ \E n \in 1 .. TotalBlocks : Admit(s, n)
    \/ \E t \in Token : WriteKV(s, t)
    \/ \E d \in Sequence : Branch(s, d)
    \/ Release(s) \/ SaveAway(s) \/ BringBack(s) \/ BringBackRaises(s) \/ GiveUp(s)

KVSpec == KVInit /\ [][KVNext]_kvVars

----------------------------------------------------------------------------
KVTypeOK ==
  /\ BMTypeOK
  /\ cells \in [Block -> Content]
  /\ swapBuffer \in [Sequence -> [Block -> Content \cup {<<>>}]]
  /\ ids \in [Sequence -> Seq(Block)] /\ away \in [Sequence -> Seq(Block)]
  /\ count \in [Sequence -> Nat]

(* What read_kv returns for s, or would return after a swap-in. *)
Readable(s) ==
  IF ids[s] # <<>> THEN Stored(cells, ids[s], count[s])
  ELSE Stored(swapBuffer[s], away[s], count[s])

KVStore == INSTANCE TokenStore WITH
             content <- [s \in Sequence |-> Readable(s)], count <- count

(* Through writes of others, reuse of blocks, branching, eviction and      *)
(* return, swap-ins that raise or bring back fewer blocks included, a      *)
(* sequence reads from the KV cache exactly what it wrote since it started *)
(* or, where blocks did not come back, started over.                       *)
KVKeepsTokens == KVStore!StoreSpec

=============================================================================
