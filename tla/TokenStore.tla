----------------------------- MODULE TokenStore -----------------------------
(***************************************************************************)
(* What every KV cache of the repository promises, without blocks, tables  *)
(* or swap space: a sequence reads back the tokens it wrote, in order, and *)
(* nothing another sequence does changes them.                             *)
(***************************************************************************)
EXTENDS Integers, Sequences

CONSTANTS Sequence, Token

VARIABLES
  content,   \* content[s]: what reading all of s's tokens returns
  count      \* count[s]: how many tokens s has written

storeVars == <<content, count>>

StoreInit ==
  /\ content = [s \in Sequence |-> <<>>]
  /\ count = [s \in Sequence |-> 0]

Put(s, t) ==
  /\ content' = [content EXCEPT ![s] = Append(@, t)]
  /\ count' = [count EXCEPT ![s] = @ + 1]

Drop(s) ==
  /\ content' = [content EXCEPT ![s] = <<>>]
  /\ count' = [count EXCEPT ![s] = 0]

(* The sequence d, without tokens so far, goes on from where s is. *)
Fork(s, d) ==
  /\ count[d] = 0
  /\ content' = [content EXCEPT ![d] = content[s]]
  /\ count' = [count EXCEPT ![d] = count[s]]

StoreNext ==
  \E s \in Sequence :
    \/ \E t \in Token : Put(s, t)
    \/ Drop(s)
    \/ \E d \in Sequence : Fork(s, d)

StoreSpec == StoreInit /\ [][StoreNext]_storeVars

=============================================================================
