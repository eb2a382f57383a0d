------------------------------ MODULE KVBlocks ------------------------------
(***************************************************************************)
(* Tokens in fixed-size blocks, as all three KV caches keep them: position *)
(* p of a sequence is slot p % BlockSize of its block number               *)
(* p \div BlockSize.  A token stands for its key and value tensors, which  *)
(* are always written, read, copied and saved together.                    *)
(***************************************************************************)
EXTENDS Integers, Sequences

CONSTANTS
  Sequence,    \* the sequence ids
  Token,       \* what a position may hold
  Zero,        \* torch.zeros: what it holds before the first write
  BlockSize

ASSUME BlockSizeAssumption == BlockSize \in Nat \ {0}

Slot == 0 .. BlockSize - 1
Content == [Slot -> Token \cup {Zero}]

(* Mutant: the last, partial block is forgotten. *)
WholeBlocks(n) == n \div BlockSize

BlocksNeeded(n) == (n + BlockSize - 1) \div BlockSize

(* The cells after t is written at position p of a sequence with blocks ids. *)
Write(cells, ids, p, t) ==
  [cells EXCEPT ![ids[p \div BlockSize + 1]][p % BlockSize] = t]

(* The tokens at the first n positions, as far as the blocks reach. *)
Stored(cells, ids, n) ==
  LET held == BlockSize * Len(ids)
  IN  [i \in 1 .. (IF n < held THEN n ELSE held) |->
         cells[ids[(i - 1) \div BlockSize + 1]][(i - 1) % BlockSize]]

=============================================================================
