------------------------------ MODULE MCStores ------------------------------
(* The repository's KV caches and the prefix cache, one of them a behaviour: *)
(* which one is chosen at the start, and the others stay as they are.        *)
EXTENDS KVCache, PagedAttention, PrefixCache, TLC

VARIABLE store

MCVars == <<store, kvVars, prefixVars, room>>

MCInit ==
  /\ KVInit /\ PrefixInit /\ room = [s \in Sequence |-> 0]
  /\ store \in {"swapping", "reserved", "appended"}

MCNext ==
  /\ UNCHANGED store
  /\ \/ store = "swapping" /\ KVNext /\ UNCHANGED <<prefixVars, room>>
     \/ store = "reserved" /\ PagedNext /\ UNCHANGED <<kvVars, blockRefs, entries, lru>>
     \/ store = "appended" /\ PrefixNext /\ UNCHANGED <<kvVars, room>>

MCSpec == MCInit /\ [][MCNext]_MCVars

Sym == Permutations(Sequence)
=============================================================================
