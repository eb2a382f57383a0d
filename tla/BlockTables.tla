----------------------------- MODULE BlockTables -----------------------------
(***************************************************************************)
(* What the two PagedAttentionManager classes have in common,              *)
(* src/src/paged_attention.py (PagedAttention) and                         *)
(* src/src/vllm_rocm/paged_attention.py (RocmPagedAttention): a LIFO list  *)
(* of free blocks, a table of blocks per sequence and the tensors.  A      *)
(* behaviour is one of either class, with callers that write positions in  *)
(* order and end a sequence before they start it again.                    *)
(***************************************************************************)
EXTENDS KVBlocks, Lists

CONSTANT NumBlocks        \* max_num_blocks, num_blocks

ASSUME NumBlocksAssumption == NumBlocks \in Nat

VARIABLES
  freeBlocks,    \* free_blocks: both pop from its end
  tables,        \* block_tables, seq_blocks; <<>> for an absent sequence
  kvCache,       \* kv_cache, key_cache and value_cache
  written        \* written[s]: the positions s has written

tableVars == <<freeBlocks, tables, kvCache, written>>

BlockId == 0 .. NumBlocks - 1

TablesTypeOK ==
  /\ freeBlocks \in Seq(BlockId)
  /\ tables \in [Sequence -> Seq(BlockId)]
  /\ kvCache \in [BlockId -> Content]
  /\ written \in [Sequence -> Nat]

TablesInit ==
  /\ freeBlocks = [i \in 1 .. NumBlocks |-> i - 1]
  /\ tables = [s \in Sequence |-> <<>>]
  /\ kvCache = [b \in BlockId |-> [i \in Slot |-> Zero]]
  /\ written = [s \in Sequence |-> 0]

(* The blocks that allocating n takes. *)
Taken(n) == Pops(freeBlocks, n)

----------------------------------------------------------------------------
TablesStore == INSTANCE TokenStore WITH
                 content <- [s \in Sequence |-> Stored(kvCache, tables[s], written[s])],
                 count <- written

(* Whoever takes and returns blocks meanwhile, a sequence reads back every *)
(* token it wrote: none falls off its last block, none is overwritten.     *)
TablesKeepTokens == TablesStore!StoreSpec

TablesPool == INSTANCE BlockPool WITH
                Owner <- Sequence, Block <- BlockId, free <- Range(freeBlocks),
                owned <- [s \in Sequence |-> Range(tables[s])]

(* No block is in two tables, or in a table and in the free list, and none *)
(* is lost, whether tables are made whole or grow token by token.          *)
TablesRefinePool == TablesPool!GrowingPoolSpec

=============================================================================
