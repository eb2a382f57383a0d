----------------------------- MODULE BlockPool -----------------------------
(***************************************************************************)
(* What a block manager promises its users, without free lists, counters   *)
(* or swap tables: every block is free or owned, blocks are acquired only  *)
(* from the free ones, several owners may acquire the same blocks together *)
(* (a shared prefix), and a block becomes free again when its last owner   *)
(* lets go of it.                                                          *)
(***************************************************************************)
EXTENDS Integers

CONSTANTS Owner,    \* who may own blocks
          Block     \* the block ids

VARIABLES free,     \* the blocks nobody owns
          owned     \* owned[o]: the blocks that o may read and write

poolVars == <<free, owned>>

PoolTypeOK ==
  /\ free \in SUBSET Block
  /\ owned \in [Owner -> SUBSET Block]

PoolInit ==
  /\ free = Block
  /\ owned = [o \in Owner |-> {}]

(* The owners in os, who own nothing yet, get the free blocks S together. *)
Acquire(os, S) ==
  /\ S \subseteq free
  /\ \A o \in os : owned[o] = {}
  /\ free' = free \ S
  /\ owned' = [o \in Owner |-> IF o \in os THEN S ELSE owned[o]]

(* The owner o gives up everything; what nobody else owns becomes free. *)
Release(o) ==
  /\ free' = free \cup {b \in owned[o] : \A p \in Owner \ {o} : b \notin owned[p]}
  /\ owned' = [owned EXCEPT ![o] = {}]

PoolNext ==
  \/ \E os \in SUBSET Owner, S \in SUBSET Block : os # {} /\ Acquire(os, S)
  \/ \E o \in Owner : Release(o)

PoolSpec == PoolInit /\ [][PoolNext]_poolVars

(* The owner o gets the free blocks S besides those it has. *)
Grow(o, S) ==
  /\ S \subseteq free
  /\ free' = free \ S
  /\ owned' = [owned EXCEPT ![o] = @ \cup S]

(* A pool whose owners may come back for more and share nothing. *)
GrowingPoolNext ==
  \E o \in Owner : Release(o) \/ \E S \in SUBSET Block : Grow(o, S)

GrowingPoolSpec == PoolInit /\ [][GrowingPoolNext]_poolVars

(***************************************************************************)
(* No block is lost and none is both free and owned.                       *)
(***************************************************************************)
Conserved ==
  /\ \A b \in Block : b \in free \/ \E o \in Owner : b \in owned[o]
  /\ \A o \in Owner : owned[o] \cap free = {}

=============================================================================
