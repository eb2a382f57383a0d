------------------------------- MODULE Lists -------------------------------
(***************************************************************************)
(* The Python lists that several classes pop from, filter and sum up.      *)
(***************************************************************************)
EXTENDS Integers, SequencesExt

(* sum(s) *)
SumOf(s) ==
  LET sum[n \in 0 .. Len(s)] == IF n = 0 THEN 0 ELSE sum[n - 1] + s[n]
  IN  sum[Len(s)]

(* What n pops from the end of the list s return, in order, and leave. *)
Pops(s, n) == [i \in 1 .. n |-> s[Len(s) + 1 - i]]
AfterPops(s, n) == SubSeq(s, 1, Len(s) - n)

(* The positions of the list s whose member is in S, and how many of them  *)
(* lie at or before position i.                                            *)
KeptAt(s, S) == {i \in DOMAIN s : s[i] \in S}
RankIn(P, i) == Cardinality({j \in P : j <= i})

(* The members of the list s that are in S, in order.  Spelled out by      *)
(* position, not with SelectSeq, so that proofs can say what is in it; the *)
(* test for the common case changes nothing.                               *)
KeepOnly(s, S) ==
  IF Range(s) \subseteq S THEN s
  ELSE LET P == KeptAt(s, S)
       IN  [k \in 1 .. Cardinality(P) |-> s[CHOOSE i \in P : RankIn(P, i) = k]]

=============================================================================
