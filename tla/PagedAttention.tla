--------------------------- MODULE PagedAttention ---------------------------
(***************************************************************************)
(* PagedAttentionManager of src/src/paged_attention.py: a sequence gets    *)
(* blocks for all its tokens at once.  A caller writes no more tokens than *)
(* it asked room for.                                                      *)
(***************************************************************************)
EXTENDS BlockTables

VARIABLE room      \* room[s]: the num_tokens allocate_sequence was given

pagedVars == <<tableVars, room>>

PagedInit == TablesInit /\ room = [s \in Sequence |-> 0]

(* allocate_sequence; RuntimeError when there are not enough blocks. *)
AllocateSequence(s, n) ==
  /\ tables[s] = <<>>
  /\ BlocksNeeded(n) <= Len(freeBlocks)
  /\ tables' = [tables EXCEPT ![s] = Taken(BlocksNeeded(n))]
  /\ freeBlocks' = AfterPops(freeBlocks, BlocksNeeded(n))
  /\ room' = [room EXCEPT ![s] = n]
  /\ UNCHANGED <<kvCache, written>>

(* write_to_cache at the next position, dropped beyond the last block. *)
WriteToCache(s, t) ==
  /\ written[s] < room[s]
  /\ kvCache' = IF written[s] \div BlockSize < Len(tables[s])
                THEN Write(kvCache, tables[s], written[s], t) ELSE kvCache
  /\ written' = [written EXCEPT ![s] = @ + 1]
  /\ UNCHANGED <<freeBlocks, tables, room>>

FreeSequence(s) ==
  /\ tables[s] # <<>>
  /\ freeBlocks' = freeBlocks \o tables[s]
  /\ tables' = [tables EXCEPT ![s] = <<>>]
  /\ written' = [written EXCEPT ![s] = 0]
  /\ room' = [room EXCEPT ![s] = 0]
  /\ UNCHANGED kvCache

PagedNext ==
  \E s \in Sequence :
    \/ \E n \in 1 .. NumBlocks * BlockSize : AllocateSequence(s, n)
    \/ \E t \in Token : WriteToCache(s, t)
    \/ FreeSequence(s)

PagedSpec == PagedInit /\ [][PagedNext]_pagedVars

=============================================================================
