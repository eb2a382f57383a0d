---------------------------- MODULE PrefixCache -----------------------------
(***************************************************************************)
(* PrefixCache, src/src/vllm_rocm/prefix_cache.py, over the sequences and  *)
(* blocks of RocmPagedAttention.  Nobody in the repository calls it: here  *)
(* a caller inserts what a sequence has computed so far and, as nothing    *)
(* else keeps the blocks from being reused, invalidates every prefix of a  *)
(* sequence before it ends it.                                             *)
(*                                                                         *)
(* A prefix stands for its hash.  ref_count and hit_count are statistics:  *)
(* no decision of the code reads them.                                     *)
(***************************************************************************)
EXTENDS RocmPagedAttention

CONSTANT MaxEntries       \* max_entries

ASSUME MaxEntriesAssumption == MaxEntries \in Nat

VARIABLES
  entries,       \* _cache: a function from the cached prefixes to block ids
  lru            \* _lru: their keys, oldest first

prefixVars == <<rocmVars, entries, lru>>

PrefixInit == RocmInit /\ entries = <<>> /\ lru = <<>>

(* What s has computed, cut out of the whole blocks that a read returns. *)
Tokens(s) == SubSeq(GetKeyValue(s, written[s]), 1, written[s])

(* The cache without the keys in gone. *)
Forget(gone) ==
  /\ entries' = [k \in DOMAIN entries \ gone |-> entries[k]]
  /\ lru' = KeepOnly(lru, DOMAIN entries \ gone)

(* The key _evict pops, in a set. *)
Oldest == IF lru = <<>> THEN {} ELSE {Head(lru)}

(* Mutant: _evict leaves the key in the list. *)
InsertKeepingKey(q, blocks) ==
  LET gone == IF Cardinality(DOMAIN entries) >= MaxEntries THEN Oldest ELSE {}
  IN  /\ entries' = [k \in (DOMAIN entries \ gone) \cup {q} |->
                       IF k = q THEN blocks ELSE entries[k]]
      /\ lru' = Append(lru, q)

(* insert of a key that is not there yet, with _evict when the table is full. *)
Insert(q, blocks) ==
  LET gone == IF Cardinality(DOMAIN entries) >= MaxEntries THEN Oldest ELSE {}
  IN  /\ entries' = [k \in (DOMAIN entries \ gone) \cup {q} |->
                       IF k = q THEN blocks ELSE entries[k]]
      /\ lru' = Append(IF gone = {} THEN lru ELSE Tail(lru), q)

CachePrefix(s) ==
  /\ written[s] > 0 /\ Tokens(s) \notin DOMAIN entries
  /\ Insert(Tokens(s), tables[s])
  /\ UNCHANGED rocmVars

AppendUncached(s, t) == AppendToken(s, t) /\ UNCHANGED <<entries, lru>>

InvalidateAndEnd(s) == EndSequence(s) /\ Forget(Prefixes(Tokens(s)))

PrefixNext ==
  \E s \in Sequence :
    \/ CachePrefix(s) \/ InvalidateAndEnd(s)
    \/ \E t \in Token : AppendUncached(s, t)

(* Mutant: the shorter prefixes tried later win. *)
LookupShortest(q) ==
  LET hits == Prefixes(q) \cap DOMAIN entries
  IN  IF hits = {} THEN <<0, <<>>>>
      ELSE LET k == CHOOSE k \in hits : \A h \in hits : Len(k) <= Len(h)
           IN  <<Len(k), entries[k]>>

(* lookup: of the prefixes of q that are cached, the longest. *)
Lookup(q) ==
  LET hits == {n \in 1 .. Len(q) : SubSeq(q, 1, n) \in DOMAIN entries}
  IN  IF hits = {} THEN <<0, <<>>>>
      ELSE <<Max(hits), entries[SubSeq(q, 1, Max(hits))]>>

PrefixSpec == PrefixInit /\ [][PrefixNext]_prefixVars

----------------------------------------------------------------------------
(* The list of keys and the table stay in step through insertions at the   *)
(* limit, evictions and invalidations; the table respects its limit, of    *)
(* which at least one entry is allowed.                                    *)
PrefixIndex ==
  /\ IsInjective(lru)
  /\ Range(lru) = DOMAIN entries
  /\ Len(lru) <= (IF MaxEntries = 0 THEN 1 ELSE MaxEntries)

(* A lookup of a cached prefix, or of one that goes on from it uncached,   *)
(* hits it, the longest there is, and the blocks it returns still hold     *)
(* exactly these tokens, whatever was evicted, appended or ended since.    *)
HitsHoldPrefix ==
  \A k \in DOMAIN entries :
    /\ Stored(kvCache, entries[k], Len(k)) = k
    /\ \A q \in {k} \cup ({Append(k, t) : t \in Token} \ DOMAIN entries) :
         Lookup(q) = <<Len(k), entries[k]>>

=============================================================================
