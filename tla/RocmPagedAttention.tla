------------------------- MODULE RocmPagedAttention -------------------------
(***************************************************************************)
(* PagedAttentionManager of src/src/vllm_rocm/paged_attention.py: a        *)
(* sequence gets its blocks one by one, as its tokens are appended.        *)
(***************************************************************************)
EXTENDS BlockTables

VARIABLE blockRefs      \* block_ref_count

rocmVars == <<tableVars, blockRefs>>

RocmInit == TablesInit /\ blockRefs = [b \in BlockId |-> 0]

(* Mutant: the new block is looked at, not popped. *)
LastPeeked(s, t) ==
  /\ freeBlocks # <<>>
  /\ tables' = [tables EXCEPT ![s] = Append(@, Last(freeBlocks))]
  /\ kvCache' = Write(kvCache, tables'[s], written[s], t)
  /\ blockRefs' = [blockRefs EXCEPT ![Last(freeBlocks)] = 1]
  /\ UNCHANGED freeBlocks

(* append_token of the first token of a block: allocate_block, by way of   *)
(* allocate_sequence for a new sequence, then the write.                   *)
AppendToNew(s, t) ==
  /\ freeBlocks # <<>>
  /\ tables' = [tables EXCEPT ![s] = Append(@, Last(freeBlocks))]
  /\ kvCache' = Write(kvCache, tables'[s], written[s], t)
  /\ blockRefs' = [blockRefs EXCEPT ![Last(freeBlocks)] = 1]
  /\ freeBlocks' = AfterPops(freeBlocks, 1)

AppendToken(s, t) ==
  /\ IF written[s] \div BlockSize >= Len(tables[s]) THEN AppendToNew(s, t)
     ELSE /\ kvCache' = Write(kvCache, tables[s], written[s], t)
          /\ UNCHANGED <<freeBlocks, tables, blockRefs>>
  /\ written' = [written EXCEPT ![s] = @ + 1]

(* The blocks of s that free_block finds without further references. *)
Unreferenced(s) == KeepOnly(tables[s], {b \in BlockId : blockRefs[b] <= 1})

(* free_sequence. *)
EndSequence(s) ==
  /\ tables[s] # <<>>
  /\ freeBlocks' = freeBlocks \o Unreferenced(s)
  /\ blockRefs' = [b \in BlockId |-> blockRefs[b] - (IF b \in Range(tables[s]) THEN 1 ELSE 0)]
  /\ tables' = [tables EXCEPT ![s] = <<>>]
  /\ written' = [written EXCEPT ![s] = 0]
  /\ UNCHANGED kvCache

(* get_key_value for n tokens: whole blocks, the last one to its end. *)
GetKeyValue(s, n) == Stored(kvCache, tables[s], BlockSize * BlocksNeeded(n))

RocmNext ==
  \E s \in Sequence : EndSequence(s) \/ \E t \in Token : AppendToken(s, t)

RocmSpec == RocmInit /\ [][RocmNext]_rocmVars

=============================================================================
