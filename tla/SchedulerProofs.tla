-------------------------- MODULE SchedulerProofs --------------------------
(***************************************************************************)
(* Theorems about the scheduler and its block manager, for every set of    *)
(* requests, every size and both preemption modes.                         *)
(*                                                                         *)
(* The first part holds with and without reuse of request ids: the blocks, *)
(* that the loop comes to rest, and what an answer is worth.  The second   *)
(* needs ids that are not used again: with reuse a tick may end in the     *)
(* middle, and what it proves is false.                                    *)
(***************************************************************************)
EXTENDS Scheduler, BlockManagerProofs

----------------------------------------------------------------------------
(* Only running sequences hold blocks, and the head of the queue is not    *)
(* one of them: this makes BlockAccounting inductive.                      *)
Queued ==
  /\ IsInjective(waiting) /\ IsInjective(running)
  /\ \A r \in Req :
       /\ status[r] = "waiting" <=> r \in Range(waiting)
       /\ r \in Range(running) => status[r] \notin {"new", "waiting"}
       /\ r \notin Range(running) => blockIds[r] = <<>>

AInv == TypeOK /\ BlockAccounting /\ Queued

(* The part of BlockAccounting that ties the sequences to the free list. *)
Held ==
  /\ \A r \in Req :
       /\ IsInjective(blockIds[r])
       /\ Range(blockIds[r]) \cap Range(freeIds) = {}
       /\ \A q \in Req \ {r} : Range(blockIds[r]) \cap Range(blockIds[q]) = {}
       /\ \A b \in Range(blockIds[r]) : refCount[b] = 1
  /\ \A b \in Block : b \in Range(freeIds) \/ \E r \in Req : b \in Range(blockIds[r])

LEMMA AccountingParts == BlockAccounting <=> FreeListOK /\ Held
BY Zenon DEF BlockAccounting, FreeListOK, Held

LEMMA InitAInv == Init => AInv
<1>. SUFFICES ASSUME Init PROVE AInv
  OBVIOUS
<1>. USE TotalBlocksAssumption, EmptyElements
<1>1. /\ freeIds \in Seq(Block) /\ Len(freeIds) = TotalBlocks
      /\ DOMAIN freeIds = 1 .. TotalBlocks
      /\ \A i \in 1 .. TotalBlocks : freeIds[i] = i - 1
  <2>1. freeIds = [i \in 1 .. TotalBlocks |-> i - 1] /\ TotalBlocks \in Nat
    BY DEF Init, BMInit
  <2>2. freeIds \in [1 .. TotalBlocks -> Block]
    BY <2>1 DEF Block
  <2>. QED  BY <2>1, <2>2
<1>2. IsInjective(freeIds)
  BY <1>1 DEF IsInjective
<1>3. ASSUME NEW b \in Block
      PROVE  b \in Range(freeIds)
  <2>1. b + 1 \in 1 .. TotalBlocks /\ freeIds[b + 1] = b
    BY <1>1 DEF Block
  <2>. QED  BY <2>1, <1>1 DEF Range
<1>4. TypeOK
  BY <1>1 DEF Init, BMInit, TypeOK, BMTypeOK, Status
<1>5. FreeListOK
  BY <1>2, <1>3 DEF FreeListOK, Init, BMInit
<1>6. Held
  BY <1>3 DEF Held, Init
<1>7. Queued
  BY DEF Queued, Init
<1>. QED  BY <1>4, <1>5, <1>6, <1>7, AccountingParts DEF AInv

----------------------------------------------------------------------------
(* The two ways a step touches the blocks of a sequence.                   *)

(* A sequence without blocks is given some.                                *)
LEMMA GrantKeepsAccounting ==
  ASSUME BMTypeOK, blockIds \in [Req -> Seq(Block)], BlockAccounting,
         NEW r \in Req, blockIds[r] = <<>>, NEW n \in Nat, Allocate(n),
         blockIds' = [blockIds EXCEPT ![r] = Popped(n)]
  PROVE  /\ BMTypeOK' /\ BlockAccounting'
         /\ blockIds' \in [Req -> Seq(Block)]
         /\ Len(blockIds'[r]) = n
         /\ Len(freeIds') = Len(freeIds) - n
         /\ Range(blockIds'[r]) \subseteq Range(freeIds)
         /\ Range(freeIds') = Range(freeIds) \ Range(blockIds'[r])
<1>1. FreeListOK /\ Held
  BY AccountingParts
<1>2. /\ Popped(n) \in Seq(Block) /\ Len(Popped(n)) = n
      /\ IsInjective(Popped(n))
      /\ Range(Popped(n)) \subseteq Range(freeIds)
      /\ BMTypeOK' /\ FreeListOK'
      /\ Len(freeIds') = Len(freeIds) - n
      /\ Range(freeIds') = Range(freeIds) \ Range(Popped(n))
      /\ \A b \in Block : refCount'[b] = IF b \in Range(Popped(n)) THEN 1 ELSE refCount[b]
  BY <1>1, AllocateEffect
<1>3. /\ blockIds' \in [Req -> Seq(Block)]
      /\ blockIds'[r] = Popped(n)
      /\ \A q \in Req \ {r} : blockIds'[q] = blockIds[q]
  BY <1>2
<1>4. \A q \in Req : Range(blockIds[q]) \subseteq Block /\ Range(Popped(n)) \subseteq Block
  BY <1>2, RangeOfSeq
<1>5. Held'
  <2>1. ASSUME NEW q \in Req
        PROVE  /\ IsInjective(blockIds'[q])
               /\ Range(blockIds'[q]) \cap Range(freeIds') = {}
               /\ \A b \in Range(blockIds'[q]) : refCount'[b] = 1
    <3>1. CASE q = r
      <4>1. IsInjective(blockIds'[q]) /\ Range(blockIds'[q]) \cap Range(freeIds') = {}
        BY <3>1, <1>2, <1>3
      <4>2. \A b \in Range(blockIds'[q]) : refCount'[b] = 1
        BY <3>1, <1>2, <1>3, <1>4
      <4>. QED  BY <4>1, <4>2
    <3>2. CASE q # r
      <4>1. blockIds'[q] = blockIds[q]
        BY <3>2, <1>3
      <4>2. /\ IsInjective(blockIds[q]) /\ Range(blockIds[q]) \cap Range(freeIds) = {}
            /\ \A b \in Range(blockIds[q]) : refCount[b] = 1
        BY <1>1 DEF Held
      <4>3. ASSUME NEW b \in Range(blockIds[q])
            PROVE  b \in Block /\ b \notin Range(Popped(n)) /\ refCount'[b] = refCount[b]
        BY <4>2, <1>2, <1>4
      <4>. QED  BY <4>1, <4>2, <4>3, <1>2
    <3>. QED  BY <3>1, <3>2
  <2>2. ASSUME NEW q \in Req, NEW o \in Req \ {q}
        PROVE  Range(blockIds'[q]) \cap Range(blockIds'[o]) = {}
    BY <1>1, <1>2, <1>3 DEF Held
  <2>3. ASSUME NEW b \in Block
        PROVE  b \in Range(freeIds') \/ \E q \in Req : b \in Range(blockIds'[q])
    BY <1>1, <1>2, <1>3, EmptyElements DEF Held
  <2>. QED  BY <2>1, <2>2, <2>3 DEF Held
<1>. QED  BY <1>2, <1>3, <1>5, AccountingParts DEF BlockAccounting, FreeListOK, Held

(* A sequence gives all its blocks back.                                   *)
LEMMA ReleaseKeepsAccounting ==
  ASSUME BMTypeOK, blockIds \in [Req -> Seq(Block)], BlockAccounting,
         NEW r \in Req, Free(blockIds[r]) \/ SwapOut(blockIds[r]),
         blockIds' = [blockIds EXCEPT ![r] = <<>>]
  PROVE  /\ BMTypeOK' /\ BlockAccounting'
         /\ blockIds' \in [Req -> Seq(Block)]
         /\ Range(freeIds') = Range(freeIds) \cup Range(blockIds[r])
<1>1. FreeListOK /\ Held
  BY AccountingParts
<1>2. /\ blockIds[r] \in Seq(Block) /\ IsInjective(blockIds[r])
      /\ Range(blockIds[r]) \cap Range(freeIds) = {}
      /\ \A b \in Range(blockIds[r]) : refCount[b] = 1
  BY <1>1 DEF Held
<1>3. /\ BMTypeOK' /\ FreeListOK'
      /\ Range(freeIds') = Range(freeIds) \cup Range(blockIds[r])
      /\ \A b \in Block \ Range(blockIds[r]) : refCount'[b] = refCount[b]
  BY <1>1, <1>2, GiveBackEffect
<1>4. /\ blockIds' \in [Req -> Seq(Block)]
      /\ blockIds'[r] = <<>>
      /\ \A q \in Req \ {r} : blockIds'[q] = blockIds[q]
  BY EmptyElements
<1>5. \A q \in Req : Range(blockIds[q]) \subseteq Block
  BY RangeOfSeq
<1>6. Held'
  <2>1. ASSUME NEW q \in Req
        PROVE  /\ IsInjective(blockIds'[q])
               /\ Range(blockIds'[q]) \cap Range(freeIds') = {}
               /\ \A b \in Range(blockIds'[q]) : refCount'[b] = 1
    <3>1. CASE q = r
      BY <3>1, <1>4, EmptyElements
    <3>2. CASE q # r
      <4>1. Range(blockIds[q]) \cap Range(blockIds[r]) = {}
        BY <3>2, <1>1 DEF Held
      <4>. QED  BY <3>2, <4>1, <1>1, <1>3, <1>4, <1>5 DEF Held
    <3>. QED  BY <3>1, <3>2
  <2>2. ASSUME NEW q \in Req, NEW o \in Req \ {q}
        PROVE  Range(blockIds'[q]) \cap Range(blockIds'[o]) = {}
    BY <1>1, <1>4, EmptyElements DEF Held
  <2>3. ASSUME NEW b \in Block
        PROVE  b \in Range(freeIds') \/ \E q \in Req : b \in Range(blockIds'[q])
    BY <1>1, <1>3, <1>4 DEF Held
  <2>. QED  BY <2>1, <2>2, <2>3 DEF Held
<1>. QED  BY <1>3, <1>4, <1>6, AccountingParts DEF BlockAccounting, FreeListOK, Held

----------------------------------------------------------------------------
(* Every step keeps the accounting, one lemma per kind of step.            *)

(* Steps that leave blocks and queues alone, except for a status between   *)
(* two that are neither new nor waiting.                                   *)
LEMMA QuietStep ==
  ASSUME AInv, TypeOK',
         UNCHANGED <<bmVars, blockIds, waiting, running>>,
         \A r \in Req : \/ status'[r] = status[r]
                        \/ /\ status[r] \notin {"new", "waiting"}
                           /\ status'[r] \notin {"new", "waiting"}
  PROVE  AInv'
<1>1. BlockAccounting'
  BY DEF AInv, BlockAccounting, bmVars
<1>2. Queued'
  BY DEF AInv, Queued
<1>. QED  BY <1>1, <1>2 DEF AInv

LEMMA AddRequestKeeps ==
  ASSUME AInv, NEW r \in Req, AddRequest(r)
  PROVE  AInv'
<1>. USE DEF AInv
<1>1. /\ waiting' = Append(waiting, r)
      /\ status' = [status EXCEPT ![r] = "waiting"]
      /\ status[r] = "new"
      /\ ticks' = ticks + 1
      /\ UNCHANGED <<bmVars, blockIds, running, preempted, generated, future, pc, batch>>
  BY DEF AddRequest
<1>2. r \notin Range(waiting) /\ r \notin Range(running)
  BY <1>1 DEF Queued
<1>3. /\ waiting' \in Seq(Req) /\ IsInjective(waiting')
      /\ Range(waiting') = Range(waiting) \cup {r}
  BY <1>1, <1>2, AppendElements DEF TypeOK, Queued
<1>4. reqId' \in [Req -> Req]
  BY DEF AddRequest, TypeOK
<1>5. TypeOK'
  <2>1. BMTypeOK'
    BY <1>1 DEF TypeOK, BMTypeOK, bmVars
  <2>2. status' \in [Req -> Status] /\ ticks' \in Nat
    BY <1>1 DEF TypeOK, Status
  <2>. QED  BY <1>1, <1>3, <1>4, <2>1, <2>2 DEF TypeOK
<1>6. BlockAccounting'
  BY <1>1 DEF BlockAccounting, bmVars
<1>7. Queued'
  BY <1>1, <1>2, <1>3 DEF Queued, TypeOK
<1>. QED  BY <1>5, <1>6, <1>7

LEMMA PreemptOneKeeps ==
  ASSUME AInv, PreemptOne
  PROVE  AInv'
<1>. USE DEF AInv
<1>1. PICK i \in DOMAIN running :
        /\ GiveUpBlocks(running[i])
        /\ running' = RemoveAt(running, i)
        /\ preempted' = Append(preempted, running[i])
        /\ status' = [status EXCEPT ![running[i]] = "preempted"]
        /\ UNCHANGED <<waiting, generated, future, reqId, ticks, pc, batch>>
  BY DEF PreemptOne, tickVars
<1>. DEFINE r == running[i]
<1>2. /\ r \in Req /\ r \in Range(running)
      /\ running' \in Seq(Req) /\ IsInjective(running')
      /\ Range(running') = Range(running) \ {r}
  BY <1>1, RemoveAtElements DEF TypeOK, Queued
<1>. HIDE DEF r
<1>3. /\ Free(blockIds[r]) \/ SwapOut(blockIds[r])
      /\ blockIds' = [blockIds EXCEPT ![r] = <<>>]
      /\ preempted' = Append(preempted, r)
      /\ status' = [status EXCEPT ![r] = "preempted"]
  BY <1>1 DEF GiveUpBlocks, r
<1>4. /\ BMTypeOK' /\ BlockAccounting'
      /\ blockIds' \in [Req -> Seq(Block)]
  BY <1>2, <1>3, ReleaseKeepsAccounting DEF TypeOK
<1>5. preempted' \in Seq(Req)
  BY <1>2, <1>3, AppendElements DEF TypeOK
<1>6. TypeOK'
  BY <1>1, <1>2, <1>3, <1>4, <1>5 DEF TypeOK, Status
<1>7. Queued'
  <2>1. waiting' = waiting
    BY <1>1
  <2>2. /\ \A q \in Req \ {r} : status'[q] = status[q] /\ blockIds'[q] = blockIds[q]
        /\ status'[r] = "preempted" /\ blockIds'[r] = <<>>
    BY <1>2, <1>3 DEF TypeOK
  <2>. QED  BY <1>2, <2>1, <2>2 DEF Queued
<1>. QED  BY <1>4, <1>6, <1>7

LEMMA PreemptRaisesKeeps ==
  ASSUME AInv, PreemptRaises
  PROVE  AInv'
<1>. USE DEF AInv
<1>1. PICK i \in DOMAIN running :
        /\ GiveUpBlocks(running[i])
        /\ status' = IF SwapMode THEN [status EXCEPT ![running[i]] = "preempted"]
                                 ELSE status
  BY DEF PreemptRaises
<1>2. pc' = "idle" /\ UNCHANGED <<waiting, running, preempted, generated, future, reqId, ticks, batch>>
  BY DEF PreemptRaises, queueVars
<1>. DEFINE r == running[i]
<1>3. r \in Req /\ r \in Range(running)
  BY <1>1, RemoveAtElements DEF TypeOK
<1>. HIDE DEF r
<1>4. /\ Free(blockIds[r]) \/ SwapOut(blockIds[r])
      /\ blockIds' = [blockIds EXCEPT ![r] = <<>>]
      /\ status' = IF SwapMode THEN [status EXCEPT ![r] = "preempted"] ELSE status
  BY <1>1 DEF GiveUpBlocks, r
<1>5. /\ BMTypeOK' /\ BlockAccounting'
      /\ blockIds' \in [Req -> Seq(Block)]
  BY <1>3, <1>4, ReleaseKeepsAccounting DEF TypeOK
<1>6. TypeOK'
  BY <1>2, <1>3, <1>4, <1>5 DEF TypeOK, Status
<1>7. Queued'
  BY <1>2, <1>3, <1>4 DEF Queued, TypeOK
<1>. QED  BY <1>5, <1>6, <1>7

LEMMA NumBlocks ==
  ASSUME NEW n \in Nat
  PROVE  /\ BlocksFor(n) \in Nat
         /\ n <= BlockSize * BlocksFor(n)
         /\ BlocksFor(n) <= BlocksFor(n + 1)
BY SchedulerAssumption, Z3 DEF BlocksFor

LEMMA ScheduleOneKeeps ==
  ASSUME AInv, ScheduleOne
  PROVE  AInv'
<1>. USE DEF AInv
<1>. DEFINE r == Head(waiting)
            n == BlocksFor(TotalLen(r))
<1>1. /\ waiting # <<>> /\ waiting' = Tail(waiting)
      /\ Allocate(n)
      /\ blockIds' = [blockIds EXCEPT ![r] = Popped(n)]
      /\ status' = [status EXCEPT ![r] = "running"]
      /\ running' = Append(running, r)
      /\ UNCHANGED <<preempted, generated, future, reqId, ticks, pc, batch>>
  BY DEF ScheduleOne, HeadFits, tickVars
<1>2. /\ r \in Req /\ r \in Range(waiting)
      /\ waiting' \in Seq(Req) /\ IsInjective(waiting')
      /\ Range(waiting) = Range(waiting') \cup {r} /\ r \notin Range(waiting')
  BY <1>1, TailElements DEF TypeOK, Queued
<1>3. TotalLen(r) \in Nat
  BY <1>2, SchedulerAssumption DEF TotalLen, TypeOK
<1>4. n \in Nat
  BY <1>3, NumBlocks
<1>. HIDE DEF r, n
<1>5. r \notin Range(running) /\ blockIds[r] = <<>>
  BY <1>2 DEF Queued
<1>6. /\ BMTypeOK' /\ BlockAccounting'
      /\ blockIds' \in [Req -> Seq(Block)]
  BY <1>1, <1>2, <1>4, <1>5, GrantKeepsAccounting DEF TypeOK
<1>7. /\ running' \in Seq(Req) /\ IsInjective(running')
      /\ Range(running') = Range(running) \cup {r}
  BY <1>1, <1>2, <1>5, AppendElements DEF TypeOK, Queued
<1>8. TypeOK'
  BY <1>1, <1>2, <1>6, <1>7 DEF TypeOK, Status
<1>9. Queued'
  BY <1>1, <1>2, <1>5, <1>7 DEF Queued, TypeOK
<1>. QED  BY <1>6, <1>8, <1>9

LEMMA RunFinishKeeps ==
  ASSUME AInv, RunFinish
  PROVE  AInv'
<1>. USE DEF AInv
<1>. DEFINE r == Head(batch)
<1>1. PICK i \in DOMAIN running : running[i] = r /\ running' = RemoveAt(running, i)
  BY DEF RunFinish
<1>2. /\ batch # <<>> /\ batch' = Tail(batch)
      /\ Free(blockIds[r])
      /\ blockIds' = [blockIds EXCEPT ![r] = <<>>]
      /\ status' = [status EXCEPT ![r] = "finished"]
      /\ future' = [future EXCEPT ![r] = Resolved(@)]
      /\ UNCHANGED <<waiting, preempted, generated, reqId, ticks, pc>>
  BY DEF RunFinish
<1>. HIDE DEF r
<1>3. /\ r \in Req /\ r \in Range(running)
      /\ running' \in Seq(Req) /\ IsInjective(running')
      /\ Range(running') = Range(running) \ {r}
  BY <1>1, RemoveAtElements DEF TypeOK, Queued
<1>4. /\ BMTypeOK' /\ BlockAccounting'
      /\ blockIds' \in [Req -> Seq(Block)]
  BY <1>2, <1>3, ReleaseKeepsAccounting DEF TypeOK
<1>5. batch' \in Seq(Req)
  BY <1>2, TailElements DEF TypeOK
<1>6. future' \in [Req -> {"pending", "done", "cancelled"}]
  BY <1>2, <1>3 DEF TypeOK, Resolved
<1>7. TypeOK'
  BY <1>2, <1>3, <1>4, <1>5, <1>6 DEF TypeOK, Status
<1>8. Queued'
  BY <1>2, <1>3 DEF Queued, TypeOK
<1>. QED  BY <1>4, <1>7, <1>8

LEMMA FinishRaisesKeeps ==
  ASSUME AInv, FinishRaises
  PROVE  AInv'
<1>. USE DEF AInv
<1>. DEFINE r == Head(batch)
<1>1. PICK i \in DOMAIN running : running[i] = r
  BY DEF FinishRaises
<1>2. /\ status' = [status EXCEPT ![r] = "finished"]
      /\ pc' = "idle" /\ batch' = <<>>
      /\ UNCHANGED <<bmVars, waiting, running, preempted, generated, blockIds, future, reqId, ticks>>
  BY DEF FinishRaises, queueVars
<1>3. r \in Req /\ r \in Range(running)
  BY <1>1, RemoveAtElements DEF TypeOK
<1>. HIDE DEF r
<1>4. TypeOK'
  BY <1>2, <1>3, EmptyElements DEF TypeOK, BMTypeOK, bmVars, Status
<1>. QED  BY <1>2, <1>3, <1>4, QuietStep DEF Queued, TypeOK

LEMMA RunGenerateKeeps ==
  ASSUME AInv, RunGenerate
  PROVE  AInv'
<1>. USE DEF AInv
<1>1. /\ batch # <<>> /\ batch' = Tail(batch)
      /\ generated' = [generated EXCEPT ![Head(batch)] = @ + 1]
      /\ UNCHANGED <<bmVars, waiting, running, preempted, status, blockIds, future, reqId, ticks, pc>>
  BY DEF RunGenerate, queueVars
<1>2. batch' \in Seq(Req) /\ Head(batch) \in Req
  BY <1>1, TailElements DEF TypeOK
<1>3. TypeOK'
  BY <1>1, <1>2 DEF TypeOK, BMTypeOK, bmVars
<1>. QED  BY <1>1, <1>3, QuietStep

LEMMA StepAInv == AInv /\ [Next]_vars => AInv'
<1>. SUFFICES ASSUME AInv, [Next]_vars PROVE AInv'
  OBVIOUS
<1>. USE DEF AInv
<1>1. CASE \E r \in Req : AddRequest(r)
  BY <1>1, AddRequestKeeps
<1>2. CASE \E r \in Req : Cancel(r)
  <2>1. TypeOK' /\ UNCHANGED <<bmVars, blockIds, waiting, running, status>>
    BY <1>2 DEF Cancel, TypeOK, BMTypeOK, bmVars, queueVars, tickVars
  <2>. QED  BY <2>1, QuietStep
<1>3. CASE StartTick
  <2>1. TypeOK' /\ UNCHANGED <<bmVars, blockIds, waiting, running, status>>
    BY <1>3 DEF StartTick, TypeOK, BMTypeOK, bmVars, queueVars, seqVars
  <2>. QED  BY <2>1, QuietStep
<1>4. CASE PreemptOne     BY <1>4, PreemptOneKeeps
<1>5. CASE PreemptRaises  BY <1>5, PreemptRaisesKeeps
<1>6. CASE PreemptDone
  <2>1. TypeOK' /\ UNCHANGED <<bmVars, blockIds, waiting, running, status>>
    BY <1>6 DEF PreemptDone, TypeOK, BMTypeOK, bmVars, queueVars, seqVars
  <2>. QED  BY <2>1, QuietStep
<1>7. CASE ScheduleOne    BY <1>7, ScheduleOneKeeps
<1>8. CASE ScheduleDone
  <2>1. TypeOK' /\ UNCHANGED <<bmVars, blockIds, waiting, running, status>>
    BY <1>8 DEF ScheduleDone, TypeOK, BMTypeOK, bmVars, queueVars, seqVars
  <2>. QED  BY <2>1, QuietStep
<1>9. CASE RunFinish      BY <1>9, RunFinishKeeps
<1>10. CASE FinishRaises  BY <1>10, FinishRaisesKeeps
<1>11. CASE RunGenerate   BY <1>11, RunGenerateKeeps
<1>12. CASE RunDone
  <2>1. TypeOK' /\ UNCHANGED <<bmVars, blockIds, waiting, running, status>>
    BY <1>12 DEF RunDone, TypeOK, BMTypeOK, bmVars, queueVars, seqVars
  <2>. QED  BY <2>1, QuietStep
<1>13. CASE UNCHANGED vars
  <2>1. TypeOK' /\ UNCHANGED <<bmVars, blockIds, waiting, running, status>>
    BY <1>13 DEF vars, TypeOK, BMTypeOK, bmVars
  <2>. QED  BY <2>1, QuietStep
<1>. QED
  BY <1>1, <1>2, <1>3, <1>4, <1>5, <1>6, <1>7, <1>8, <1>9, <1>10, <1>11, <1>12, <1>13
  DEF Next, Tick, Quiesced

(* Every variable keeps its type.                                          *)
THEOREM TypeCorrect == Spec => []TypeOK
<1>1. AInv => TypeOK  BY DEF AInv
<1>. QED  BY <1>1, InitAInv, StepAInv, PTL DEF Spec

(* No block is lost, owned twice or owned while free, in both preemption   *)
(* modes, and even when request ids are used again and ticks are aborted.  *)
THEOREM Accounting == Spec => []BlockAccounting
<1>1. AInv => BlockAccounting  BY DEF AInv
<1>. QED  BY <1>1, InitAInv, StepAInv, PTL DEF Spec

----------------------------------------------------------------------------
(* The refinement of the abstract pool, step by step.                      *)

LEMMA PoolReleaseStep ==
  ASSUME AInv, NEW r \in Req, Free(blockIds[r]) \/ SwapOut(blockIds[r]),
         blockIds' = [blockIds EXCEPT ![r] = <<>>]
  PROVE  Pool!Release(r)
<1>1. blockIds \in [Req -> Seq(Block)] /\ BMTypeOK /\ Held
  BY AccountingParts DEF AInv, TypeOK
<1>2. Range(freeIds') = Range(freeIds) \cup Range(blockIds[r])
  BY <1>1, ReleaseKeepsAccounting DEF AInv
<1>3. \A q \in Req \ {r} : Range(blockIds[q]) \cap Range(blockIds[r]) = {}
  BY <1>1 DEF Held
<1>4. Range(blockIds'[r]) = {} /\ \A q \in Req \ {r} : blockIds'[q] = blockIds[q]
  BY <1>1, EmptyElements
<1>5. [q \in Req |-> Range(blockIds'[q])]
        = [[q \in Req |-> Range(blockIds[q])] EXCEPT ![r] = {}]
  <2>. DEFINE before == [q \in Req |-> Range(blockIds[q])]
              after == [q \in Req |-> Range(blockIds'[q])]
  <2>1. \A q \in Req : after[q] = [before EXCEPT ![r] = {}][q]
    BY <1>4
  <2>. QED  BY <2>1, Zenon
<1>6. {b \in Range(blockIds[r]) : \A q \in Req \ {r} : b \notin Range(blockIds[q])}
        = Range(blockIds[r])
  BY <1>3
<1>. QED  BY <1>2, <1>5, <1>6 DEF Pool!Release

LEMMA PoolAcquireStep ==
  ASSUME AInv, NEW r \in Req, blockIds[r] = <<>>, NEW n \in Nat, Allocate(n),
         blockIds' = [blockIds EXCEPT ![r] = Popped(n)]
  PROVE  \E os \in SUBSET Req, S \in SUBSET Block : os # {} /\ Pool!Acquire(os, S)
<1>. DEFINE S == Range(blockIds'[r])
<1>1. blockIds \in [Req -> Seq(Block)] /\ BMTypeOK /\ Range(freeIds) \subseteq Block
  BY RangeOfSeq DEF AInv, TypeOK, BMTypeOK
<1>2. S \subseteq Range(freeIds) /\ Range(freeIds') = Range(freeIds) \ S
  BY <1>1, GrantKeepsAccounting DEF AInv
<1>3. \A q \in Req \ {r} : blockIds'[q] = blockIds[q]
  BY <1>1
<1>. HIDE DEF S
<1>4. [q \in Req |-> Range(blockIds'[q])]
        = [q \in Req |-> IF q \in {r} THEN S ELSE [o \in Req |-> Range(blockIds[o])][q]]
  BY <1>3 DEF S
<1>5. \A q \in {r} : [o \in Req |-> Range(blockIds[o])][q] = {}
  BY EmptyElements
<1>6. Pool!Acquire({r}, S)
  BY <1>2, <1>4, <1>5 DEF Pool!Acquire
<1>. QED  BY <1>1, <1>2, <1>6

LEMMA PoolStep == AInv /\ [Next]_vars => [Pool!PoolNext]_(Pool!poolVars)
<1>. SUFFICES ASSUME AInv, [Next]_vars PROVE [Pool!PoolNext]_(Pool!poolVars)
  OBVIOUS
<1>1. ASSUME UNCHANGED <<freeIds, blockIds>> PROVE UNCHANGED Pool!poolVars
  BY <1>1 DEF Pool!poolVars
<1>2. ASSUME NEW r \in Req, Free(blockIds[r]) \/ SwapOut(blockIds[r]),
             blockIds' = [blockIds EXCEPT ![r] = <<>>]
      PROVE  Pool!PoolNext
  BY <1>2, PoolReleaseStep DEF Pool!PoolNext
<1>3. CASE PreemptOne \/ PreemptRaises
  <2>1. PICK i \in DOMAIN running : GiveUpBlocks(running[i])
    BY <1>3 DEF PreemptOne, PreemptRaises
  <2>2. running[i] \in Req
    BY ElementOfSeq, LenProperties DEF AInv, TypeOK
  <2>. QED  BY <1>2, <2>1, <2>2 DEF GiveUpBlocks
<1>4. CASE RunFinish
  <2>1. /\ batch # <<>> /\ Free(blockIds[Head(batch)])
        /\ blockIds' = [blockIds EXCEPT ![Head(batch)] = <<>>]
    BY <1>4 DEF RunFinish
  <2>2. Head(batch) \in Req
    BY <2>1, TailElements DEF AInv, TypeOK
  <2>. QED  BY <1>2, <2>1, <2>2
<1>5. CASE ScheduleOne
  <2>. DEFINE r == Head(waiting)
              n == BlocksFor(TotalLen(r))
  <2>1. /\ waiting # <<>> /\ Allocate(n)
        /\ blockIds' = [blockIds EXCEPT ![r] = Popped(n)]
    BY <1>5 DEF ScheduleOne, HeadFits
  <2>2. r \in Req /\ r \in Range(waiting)
    BY <2>1, TailElements DEF AInv, TypeOK
  <2>3. blockIds[r] = <<>>
    BY <2>2 DEF AInv, Queued
  <2>4. n \in Nat
    <3>1. TotalLen(r) \in Nat
      BY <2>2, SchedulerAssumption DEF TotalLen, AInv, TypeOK
    <3>. QED  BY <3>1, NumBlocks
  <2>. HIDE DEF n, r
  <2>. QED  BY <2>1, <2>2, <2>3, <2>4, PoolAcquireStep DEF Pool!PoolNext
<1>6. CASE ~(PreemptOne \/ PreemptRaises \/ RunFinish \/ ScheduleOne)
  <2>. QED
    BY <1>1, <1>6 DEF Next, Tick, AddRequest, Cancel, StartTick, PreemptDone, ScheduleDone,
      FinishRaises, RunGenerate, RunDone, Quiesced, vars, bmVars, queueVars, seqVars
<1>. QED  BY <1>3, <1>4, <1>5, <1>6

(* Every run of the scheduler is a run of the abstract pool of blocks.     *)
THEOREM ImplementsPool == Spec => RefinesPool
<1>1. Init => Pool!PoolInit
  <2>. SUFFICES ASSUME Init PROVE Pool!PoolInit
    OBVIOUS
  <2>1. AInv /\ \A r \in Req : Range(blockIds[r]) = {}
    BY InitAInv, EmptyElements DEF Init
  <2>2. Range(freeIds) \subseteq Block
    BY <2>1, RangeOfSeq DEF AInv, TypeOK, BMTypeOK
  <2>3. \A b \in Block : b \in Range(freeIds)
    BY <2>1, AccountingParts DEF AInv, Held
  <2>. QED  BY <2>1, <2>2, <2>3 DEF Pool!PoolInit
<1>. QED
  BY <1>1, InitAInv, StepAInv, PoolStep, PTL DEF Spec, RefinesPool, Pool!PoolSpec

----------------------------------------------------------------------------
(* When nothing runs the whole cache is free: eviction always gets there.  *)

LEMMA NothingRunning ==
  ASSUME AInv, running = <<>>
  PROVE  Len(freeIds) = TotalBlocks
<1>1. /\ freeIds \in Seq(Block) /\ IsInjective(freeIds)
      /\ Len(freeIds) \in Nat /\ DOMAIN freeIds = 1 .. Len(freeIds)
  BY LenProperties DEF AInv, TypeOK, BMTypeOK, BlockAccounting
<1>2. \A r \in Req : Range(blockIds[r]) = {}
  BY EmptyElements DEF AInv, Queued
<1>3. \A b \in Block : \E i \in 1 .. Len(freeIds) : freeIds[i] = b
  BY <1>1, <1>2 DEF AInv, BlockAccounting, Range
<1>4. freeIds \in Bijection(1 .. Len(freeIds), Block)
  <2>1. freeIds \in [1 .. Len(freeIds) -> Block]
    BY <1>1, LenProperties
  <2>. QED  BY <2>1, <1>1, <1>3 DEF Bijection, Injection, Surjection
<1>5. Cardinality(Block) = Len(freeIds)
  BY <1>1, <1>4, FS_CountingElements DEF ExistsBijection
<1>6. Cardinality(Block) = TotalBlocks
  <2>1. TotalBlocks \in Nat \ {0} /\ 0 \in Int /\ TotalBlocks - 1 \in Int
    BY TotalBlocksAssumption
  <2>2. Cardinality(0 .. TotalBlocks - 1)
          = IF 0 > TotalBlocks - 1 THEN 0 ELSE TotalBlocks - 1 - 0 + 1
    BY <2>1, FS_Interval
  <2>. QED  BY <2>1, <2>2 DEF Block
<1>. QED  BY <1>5, <1>6

LEMMA RoomWhenNothingRuns ==
  ASSUME AInv, running = <<>>, waiting # <<>>, Feasible(Head(waiting))
  PROVE  HeadFits
<1>1. HasSeat
  BY SchedulerAssumption, EmptyElements DEF HasSeat
<1>. QED  BY <1>1, NothingRunning DEF HeadFits, CanAdd, Feasible

(* _preempt returns only when a feasible head of the queue can be admitted.*)
THEOREM EvictionHelps == Spec => PreemptMakesRoom
<1>. DEFINE A == (pc = "preempt" /\ pc' = "schedule" /\ waiting # <<>> /\ Feasible(Head(waiting)))
                   => HeadFits
<1>1. AInv /\ [Next]_vars => [A]_vars
  <2>. SUFFICES ASSUME AInv, Next, pc = "preempt", pc' = "schedule",
                       waiting # <<>>, Feasible(Head(waiting))
                PROVE  HeadFits
    OBVIOUS
  <2>1. PreemptDone
    BY DEF Next, Tick, AddRequest, Cancel, StartTick, PreemptOne, PreemptRaises,
      ScheduleOne, ScheduleDone, RunFinish, FinishRaises, RunGenerate, RunDone, Quiesced,
      tickVars
  <2>2. HeadFits \/ running = <<>>
    BY <2>1 DEF PreemptDone
  <2>. QED  BY <2>2, RoomWhenNothingRuns
<1>. QED  BY <1>1, InitAInv, StepAInv, PTL DEF Spec, PreemptMakesRoom

LEMMA StepFuture ==
  ASSUME Next, NEW r \in Req, future[r] # "pending"
  PROVE  future'[r] = future[r]
<1>. SUFFICES ASSUME future' # future PROVE future'[r] = future[r]
  OBVIOUS
<1>1. (\E q \in Req : Cancel(q)) \/ RunFinish
  BY DEF Next, Tick, AddRequest, StartTick, PreemptOne, PreemptRaises, PreemptDone,
    ScheduleOne, ScheduleDone, FinishRaises, RunGenerate, RunDone, Quiesced, vars, seqVars
<1>2. ASSUME NEW q \in Req, Cancel(q) PROVE future'[r] = future[r]
  BY <1>2 DEF Cancel
<1>3. ASSUME RunFinish PROVE future'[r] = future[r]
  <2>1. future' = [future EXCEPT ![Head(batch)] = Resolved(@)]
    BY <1>3 DEF RunFinish
  <2>. QED  BY <2>1 DEF Resolved
<1>. QED  BY <1>1, <1>2, <1>3

(* A future that has a result or is cancelled stays as it is.              *)
THEOREM FuturesSetOnce == Spec => FutureSetOnce
<1>1. [Next]_vars => [\A r \in Req : future[r] # "pending" => future'[r] = future[r]]_vars
  BY StepFuture
<1>. QED  BY <1>1, PTL DEF Spec, FutureSetOnce

----------------------------------------------------------------------------
(* The pending ticks and the running one are at most one per request.      *)
ChainInv ==
  ticks + (IF pc = "idle" THEN 0 ELSE 1) <= Cardinality({r \in Req : status[r] # "new"})

LEMMA StepChain == AInv /\ ChainInv /\ [Next]_vars => ChainInv'
<1>. SUFFICES ASSUME AInv, ChainInv, [Next]_vars PROVE ChainInv'
  OBVIOUS
<1>. DEFINE Submitted == {r \in Req : status[r] # "new"}
<1>1. IsFiniteSet(Submitted) /\ Cardinality(Submitted) \in Nat
  <2>1. Submitted \in SUBSET Req
    OBVIOUS
  <2>2. IsFiniteSet(Submitted)
    BY <2>1, SchedulerAssumption, FS_Subset
  <2>. QED  BY <2>2, FS_CardinalityType
<1>2. ticks \in Nat /\ status \in [Req -> Status]
  BY DEF AInv, TypeOK
<1>3. CASE \E r \in Req : AddRequest(r)
  <2>1. PICK r \in Req : AddRequest(r)
    BY <1>3
  <2>2. /\ status[r] = "new" /\ status' = [status EXCEPT ![r] = "waiting"]
        /\ ticks' = ticks + 1 /\ pc' = pc
    BY <2>1 DEF AddRequest
  <2>3. Submitted' = Submitted \cup {r} /\ r \notin Submitted
    BY <1>2, <2>2
  <2>4. Cardinality(Submitted') = Cardinality(Submitted) + 1
    BY <1>1, <2>3, FS_AddElement
  <2>. HIDE DEF Submitted
  <2>5. ticks + (IF pc = "idle" THEN 0 ELSE 1) <= Cardinality(Submitted)
    BY DEF ChainInv, Submitted
  <2>6. ticks' + (IF pc' = "idle" THEN 0 ELSE 1) <= Cardinality(Submitted')
    BY <1>1, <1>2, <2>2, <2>4, <2>5
  <2>. QED  BY <2>6 DEF ChainInv, Submitted
<1>4. CASE ~ \E r \in Req : AddRequest(r)
  <2>1. \A r \in Req : status'[r] = "new" <=> status[r] = "new"
    <3>1. CASE status' = status
      BY <3>1
    <3>2. ASSUME NEW q \in Req, NEW e \in Status \ {"new"},
                 status[q] # "new", status' = [status EXCEPT ![q] = e]
          PROVE  \A r \in Req : status'[r] = "new" <=> status[r] = "new"
      BY <1>2, <3>2
    <3>3. CASE PreemptOne \/ PreemptRaises
      <4>1. PICK i \in DOMAIN running :
              status' = status \/ status' = [status EXCEPT ![running[i]] = "preempted"]
        BY <3>3 DEF PreemptOne, PreemptRaises
      <4>2. running[i] \in Req /\ status[running[i]] # "new"
        BY RemoveAtElements DEF AInv, TypeOK, Queued
      <4>. QED  BY <3>1, <3>2, <4>1, <4>2 DEF Status
    <3>4. CASE ScheduleOne
      <4>1. waiting # <<>> /\ status' = [status EXCEPT ![Head(waiting)] = "running"]
        BY <3>4 DEF ScheduleOne, HeadFits
      <4>2. Head(waiting) \in Req /\ status[Head(waiting)] # "new"
        BY <4>1, TailElements DEF AInv, TypeOK, Queued
      <4>. QED  BY <3>2, <4>1, <4>2 DEF Status
    <3>5. CASE RunFinish \/ FinishRaises
      <4>1. /\ \E i \in DOMAIN running : running[i] = Head(batch)
            /\ status' = [status EXCEPT ![Head(batch)] = "finished"]
        BY <3>5 DEF RunFinish, FinishRaises
      <4>2. Head(batch) \in Req /\ status[Head(batch)] # "new"
        BY <4>1, RemoveAtElements DEF AInv, TypeOK, Queued
      <4>. QED  BY <3>2, <4>1, <4>2 DEF Status
    <3>. QED
      BY <1>4, <3>1, <3>3, <3>4, <3>5 DEF Next, Tick, Cancel, StartTick, PreemptDone,
        ScheduleDone, RunGenerate, RunDone, Quiesced, vars, seqVars
  <2>2. Submitted' = Submitted
    BY <2>1
  <2>3. ticks' + (IF pc' = "idle" THEN 0 ELSE 1) <= ticks + (IF pc = "idle" THEN 0 ELSE 1)
    BY <1>2, <1>4 DEF Next, Tick, Cancel, StartTick, PreemptOne, PreemptRaises, PreemptDone,
      ScheduleOne, ScheduleDone, RunFinish, FinishRaises, RunGenerate, RunDone, Quiesced,
      vars, tickVars
  <2>4. ticks' \in Nat
    BY StepAInv DEF AInv, TypeOK
  <2>. HIDE DEF Submitted
  <2>5. ticks + (IF pc = "idle" THEN 0 ELSE 1) <= Cardinality(Submitted)
    BY DEF ChainInv, Submitted
  <2>6. ticks' + (IF pc' = "idle" THEN 0 ELSE 1) <= Cardinality(Submitted')
    <3>1. Cardinality(Submitted') = Cardinality(Submitted)
      BY <2>2
    <3>2. \A a, b \in Int, c \in Nat : a <= b /\ b <= c => a <= c
      OBVIOUS
    <3>3. /\ ticks' + (IF pc' = "idle" THEN 0 ELSE 1) \in Int
          /\ ticks + (IF pc = "idle" THEN 0 ELSE 1) \in Int
      BY <1>2, <2>4
    <3>. QED  BY <1>1, <2>3, <2>5, <3>1, <3>2, <3>3
  <2>. QED  BY <2>6 DEF ChainInv, Submitted
<1>. QED  BY <1>3, <1>4

(* The tick chains never outnumber the requests that started them.         *)
THEOREM ChainsBounded == Spec => []OneChainPerRequest
<1>1. Init => ChainInv
  <2>1. Init => {r \in Req : status[r] # "new"} = {}
    BY DEF Init
  <2>. QED  BY <2>1, FS_EmptySet DEF Init, ChainInv
<1>2. AInv /\ ChainInv => OneChainPerRequest
  <2>. SUFFICES ASSUME AInv, ChainInv PROVE OneChainPerRequest
    OBVIOUS
  <2>1. {r \in Req : status[r] # "new"} \in SUBSET Req
    OBVIOUS
  <2>2. IsFiniteSet({r \in Req : status[r] # "new"})
    BY <2>1, SchedulerAssumption, FS_Subset
  <2>3. Cardinality({r \in Req : status[r] # "new"}) \in Nat
    BY <2>2, FS_CardinalityType
  <2>. QED  BY <2>3 DEF AInv, TypeOK, ChainInv, OneChainPerRequest
<1>. QED  BY <1>1, <1>2, InitAInv, StepAInv, StepChain, PTL DEF Spec

----------------------------------------------------------------------------
(* max_num_seqs bounds the running list.                                   *)
THEOREM SeatsBounded == Spec => []SeatsRespected
<1>1. Init => SeatsRespected
  BY SchedulerAssumption, EmptyElements DEF Init, SeatsRespected
<1>2. AInv /\ SeatsRespected /\ [Next]_vars => SeatsRespected'
  <2>. SUFFICES ASSUME AInv, SeatsRespected, [Next]_vars PROVE SeatsRespected'
    OBVIOUS
  <2>0. Len(running) \in Nat /\ running \in Seq(Req)
    BY LenProperties DEF AInv, TypeOK
  <2>1. CASE running' = running
    BY <2>1 DEF SeatsRespected
  <2>2. CASE \E i \in DOMAIN running : running' = RemoveAt(running, i)
    <3>1. Len(running') = Len(running) - 1
      BY <2>0, <2>2, RemoveAtElements
    <3>. QED  BY <2>0, <3>1, SchedulerAssumption DEF SeatsRespected
  <2>3. CASE ScheduleOne
    <3>1. HasSeat /\ waiting # <<>> /\ running' = Append(running, Head(waiting))
      BY <2>3 DEF ScheduleOne, HeadFits, CanAdd
    <3>2. Head(waiting) \in Req
      BY <3>1, TailElements DEF AInv, TypeOK
    <3>3. Len(running') = Len(running) + 1
      BY <2>0, <3>1, <3>2, AppendProperties
    <3>. QED  BY <2>0, <3>1, <3>3, SchedulerAssumption DEF HasSeat, SeatsRespected
  <2>. QED
    BY <2>1, <2>2, <2>3 DEF Next, Tick, AddRequest, Cancel, StartTick, PreemptOne,
      PreemptRaises, PreemptDone, ScheduleDone, RunFinish, FinishRaises, RunGenerate, RunDone,
      Quiesced, vars, queueVars
<1>. QED  BY <1>1, <1>2, InitAInv, StepAInv, PTL DEF Spec

----------------------------------------------------------------------------
(* The scheduler comes to rest.                                            *)

(* What is to be done, part by part. *)
Unsent == {r \in Req : status[r] = "new"}
Unserved == {r \in Req : status[r] = "new" \/ r \in Range(waiting) \/ r \in Range(running)}
Unanswered == {r \in Req : future[r] = "pending"}
Missing == UNION {{r} \X (generated[r] + 1 .. MaxTokens[r]) : r \in Req}

LEMMA ToDoParts ==
  ASSUME Unsent' \subseteq Unsent, Unserved' \subseteq Unserved,
         Unanswered' \subseteq Unanswered, Missing' \subseteq Missing
  PROVE  /\ \A i \in 1 .. 4 : ToDo'[i] \subseteq ToDo[i]
         /\ ToDo' = ToDo => /\ Unsent' = Unsent /\ Unserved' = Unserved
                            /\ Unanswered' = Unanswered /\ Missing' = Missing
<1>1. ToDo = <<Unsent, Unserved, Unanswered, Missing>>
  BY DEF ToDo, Unsent, Unserved, Unanswered, Missing
<1>2. ToDo' = <<Unsent', Unserved', Unanswered', Missing'>>
  BY DEF ToDo, Unsent, Unserved, Unanswered, Missing
<1>3. /\ ToDo[1] = Unsent /\ ToDo[2] = Unserved /\ ToDo[3] = Unanswered /\ ToDo[4] = Missing
      /\ ToDo'[1] = Unsent' /\ ToDo'[2] = Unserved'
      /\ ToDo'[3] = Unanswered' /\ ToDo'[4] = Missing'
  BY <1>1, <1>2
<1>4. \A i \in 1 .. 4 : i = 1 \/ i = 2 \/ i = 3 \/ i = 4
  OBVIOUS
<1>5. \A i \in 1 .. 4 : ToDo'[i] \subseteq ToDo[i]
  BY <1>3, <1>4
<1>. QED  BY <1>3, <1>5

(* A generated token is never missing again.                               *)
LEMMA MissingShrinks ==
  ASSUME AInv, generated' \in [Req -> Nat],
         \A r \in Req : generated[r] <= generated'[r]
  PROVE  /\ Missing' \subseteq Missing
         /\ \A r \in Req : generated[r] < generated'[r] /\ generated[r] < MaxTokens[r]
                             => Missing' # Missing
<1>0. generated \in [Req -> Nat] /\ MaxTokens \in [Req -> Nat]
  BY SchedulerAssumption DEF AInv, TypeOK
<1>1. \A r \in Req : \A k : <<r, k>> \in Missing <=> k \in generated[r] + 1 .. MaxTokens[r]
  BY DEF Missing
<1>2. \A r \in Req : \A k : <<r, k>> \in Missing' <=> k \in generated'[r] + 1 .. MaxTokens[r]
  BY DEF Missing
<1>3. \A x \in Missing' : \E r \in Req, k \in Int : x = <<r, k>>
  BY DEF Missing
<1>4. ASSUME NEW r \in Req, NEW k, k \in generated'[r] + 1 .. MaxTokens[r]
      PROVE  k \in generated[r] + 1 .. MaxTokens[r]
  BY <1>0, <1>4
<1>5. Missing' \subseteq Missing
  BY <1>1, <1>2, <1>3, <1>4
<1>6. ASSUME NEW r \in Req, generated[r] < generated'[r], generated[r] < MaxTokens[r]
      PROVE  Missing' # Missing
  <2>1. /\ generated[r] + 1 \in generated[r] + 1 .. MaxTokens[r]
        /\ generated[r] + 1 \notin generated'[r] + 1 .. MaxTokens[r]
    BY <1>0, <1>6
  <2>. QED  BY <1>1, <1>2, <2>1
<1>. QED  BY <1>5, <1>6

Nearer == Due' < Due \/ (Due' = Due /\ Stage' < Stage)
Spending == /\ \A i \in 1 .. 4 : ToDo'[i] \subseteq ToDo[i]
            /\ ToDo' = ToDo => Nearer

LEMMA StepSpends ==
  ASSUME AInv, [Next]_vars, ~UNCHANGED vars
  PROVE  Spending
<1>0. /\ status \in [Req -> Status] /\ generated \in [Req -> Nat]
      /\ future \in [Req -> {"pending", "done", "cancelled"}]
      /\ MaxTokens \in [Req -> Nat] /\ ticks \in Nat
      /\ waiting \in Seq(Req) /\ running \in Seq(Req) /\ batch \in Seq(Req)
      /\ Len(waiting) \in Nat
  BY SchedulerAssumption, LenProperties DEF AInv, TypeOK
<1>1. ASSUME generated' = generated PROVE Missing' = Missing
  BY <1>1 DEF Missing
<1>2. ASSUME UNCHANGED <<waiting, running, future, generated>>, Nearer,
             \A r \in Req : status[r] = "new" <=> status'[r] = "new"
      PROVE  Spending
  <2>1. Unsent' = Unsent /\ Unserved' = Unserved /\ Unanswered' = Unanswered
    BY <1>2 DEF Unsent, Unserved, Unanswered
  <2>2. \A i \in 1 .. 4 : ToDo'[i] \subseteq ToDo[i]
    BY <1>1, <1>2, <2>1, ToDoParts
  <2>. QED  BY <1>2, <2>2 DEF Spending
<1>3. ASSUME NEW r \in Req, AddRequest(r) PROVE Spending
  <2>1. /\ status[r] = "new" /\ status' = [status EXCEPT ![r] = "waiting"]
        /\ waiting' = Append(waiting, r)
        /\ UNCHANGED <<running, future, generated>>
    BY <1>3 DEF AddRequest
  <2>2. Range(waiting') = Range(waiting) \cup {r}
    BY <1>0, <2>1, AppendElements
  <2>3. /\ Unsent' \subseteq Unsent /\ r \in Unsent /\ r \notin Unsent'
        /\ Unserved' \subseteq Unserved
        /\ Unanswered' = Unanswered
    BY <1>0, <2>1, <2>2 DEF Unsent, Unserved, Unanswered
  <2>. QED  BY <1>1, <2>1, <2>3, ToDoParts DEF Spending
<1>4. ASSUME NEW r \in Req, Cancel(r) PROVE Spending
  <2>1. /\ future[r] = "pending" /\ future' = [future EXCEPT ![r] = "cancelled"]
        /\ UNCHANGED <<status, waiting, running, generated>>
    BY <1>4 DEF Cancel, queueVars
  <2>2. /\ Unsent' = Unsent /\ Unserved' = Unserved
        /\ Unanswered' \subseteq Unanswered /\ r \in Unanswered /\ r \notin Unanswered'
    BY <1>0, <2>1 DEF Unsent, Unserved, Unanswered
  <2>. QED  BY <1>1, <2>1, <2>2, ToDoParts DEF Spending
<1>5. CASE StartTick
  <2>1. pc = "idle" /\ pc' = "preempt" /\ ticks' = ticks - 1
    BY <1>5 DEF StartTick
  <2>2. Due = 2 * ticks + 0 /\ Due' = 2 * ticks' + 1
    BY <2>1 DEF Due
  <2>3. Due' < Due
    BY <1>0, <2>1, <2>2
  <2>. QED  BY <1>2, <1>5, <2>3 DEF Nearer, StartTick, queueVars, seqVars
<1>6. CASE PreemptOne
  <2>1. PICK i \in DOMAIN running :
          /\ running' = RemoveAt(running, i)
          /\ status' = [status EXCEPT ![running[i]] = "preempted"]
    BY <1>6 DEF PreemptOne
  <2>2. UNCHANGED <<waiting, future, generated>>
    BY <1>6 DEF PreemptOne
  <2>3. /\ running[i] \in Req /\ running[i] \in Range(running)
        /\ Range(running') = Range(running) \ {running[i]}
    BY <1>0, <2>1, RemoveAtElements DEF AInv, Queued
  <2>4. status[running[i]] \notin {"new", "waiting"} /\ running[i] \notin Range(waiting)
    BY <2>3 DEF AInv, Queued
  <2>5. /\ Unsent' = Unsent
        /\ Unserved' \subseteq Unserved /\ running[i] \in Unserved /\ running[i] \notin Unserved'
        /\ Unanswered' = Unanswered
    BY <1>0, <2>1, <2>2, <2>3, <2>4 DEF Unsent, Unserved, Unanswered
  <2>. QED  BY <1>1, <2>2, <2>5, ToDoParts DEF Spending
<1>7. CASE PreemptRaises
  <2>1. PICK i \in DOMAIN running :
          status' = status \/ status' = [status EXCEPT ![running[i]] = "preempted"]
    BY <1>7 DEF PreemptRaises
  <2>2. running[i] \in Req /\ running[i] \in Range(running)
    BY <1>0, RemoveAtElements
  <2>3. \A r \in Req : status[r] = "new" <=> status'[r] = "new"
    BY <1>0, <2>1, <2>2 DEF AInv, Queued
  <2>4. pc = "preempt" /\ pc' = "idle" /\ ticks' = ticks
    BY <1>7 DEF PreemptRaises, MustPreempt
  <2>5. Due = 2 * ticks + 1 /\ Due' = 2 * ticks + 0
    BY <2>4 DEF Due
  <2>6. Due' < Due
    BY <1>0, <2>5
  <2>. QED  BY <1>2, <1>7, <2>3, <2>6 DEF Nearer, PreemptRaises, queueVars
<1>8. CASE PreemptDone
  <2>1. pc = "preempt" /\ pc' = "schedule" /\ UNCHANGED <<ticks, waiting>>
    BY <1>8 DEF PreemptDone, queueVars
  <2>2. Due' = Due /\ Stage = Len(waiting) + 2 /\ Stage' = Len(waiting) + 1
    BY <2>1 DEF Due, Stage
  <2>3. Stage' < Stage
    BY <1>0, <2>2
  <2>. QED  BY <1>2, <1>8, <2>2, <2>3 DEF Nearer, PreemptDone, queueVars, seqVars
<1>9. CASE ScheduleOne
  <2>. DEFINE r == Head(waiting)
  <2>1. /\ pc = "schedule" /\ waiting # <<>> /\ waiting' = Tail(waiting)
        /\ running' = Append(running, r)
        /\ status' = [status EXCEPT ![r] = "running"]
        /\ UNCHANGED <<future, generated, ticks, pc>>
    BY <1>9 DEF ScheduleOne, HeadFits, tickVars
  <2>2. /\ r \in Req /\ r \in Range(waiting) /\ Range(waiting) = Range(waiting') \cup {r}
        /\ Len(waiting') = Len(waiting) - 1 /\ Range(running') = Range(running) \cup {r}
    BY <1>0, <2>1, TailElements, AppendElements
  <2>3. status[r] = "waiting"
    BY <2>2 DEF AInv, Queued
  <2>4. Unsent' = Unsent /\ Unserved' = Unserved /\ Unanswered' = Unanswered
    BY <1>0, <2>1, <2>2, <2>3 DEF Unsent, Unserved, Unanswered
  <2>5. Due' = Due /\ Stage = Len(waiting) + 1 /\ Stage' = Len(waiting') + 1
    BY <2>1 DEF Due, Stage
  <2>6. Stage' < Stage
    BY <1>0, <2>2, <2>5
  <2>. QED  BY <1>1, <2>1, <2>4, <2>5, <2>6, ToDoParts DEF Spending, Nearer
<1>10. CASE ScheduleDone
  <2>1. /\ pc = "schedule" /\ ticks' = ticks /\ batch' = running
        /\ pc' = IF running = <<>> THEN "idle" ELSE "run"
    BY <1>10 DEF ScheduleDone
  <2>2. /\ Due = 2 * ticks + 1 /\ Stage = Len(waiting) + 1
        /\ Due' = 2 * ticks + (IF running = <<>> THEN 0 ELSE 1) /\ Stage' = 0
    BY <2>1 DEF Due, Stage
  <2>3. Nearer
    BY <1>0, <2>2 DEF Nearer
  <2>. QED  BY <1>2, <1>10, <2>3 DEF ScheduleDone, queueVars, seqVars
<1>11. CASE RunFinish
  <2>1. PICK i \in DOMAIN running : running[i] = Head(batch) /\ running' = RemoveAt(running, i)
    BY <1>11 DEF RunFinish
  <2>. DEFINE r == running[i]
  <2>2. /\ status' = [status EXCEPT ![r] = "finished"]
        /\ future' = [future EXCEPT ![r] = Resolved(@)]
        /\ UNCHANGED <<waiting, generated>>
    BY <1>11, <2>1 DEF RunFinish
  <2>3. /\ r \in Req /\ r \in Range(running)
        /\ Range(running') = Range(running) \ {r}
    BY <1>0, <2>1, RemoveAtElements DEF AInv, Queued
  <2>4. status[r] \notin {"new", "waiting"} /\ r \notin Range(waiting)
    BY <2>3 DEF AInv, Queued
  <2>. HIDE DEF r
  <2>5. /\ Unsent' = Unsent
        /\ Unserved' \subseteq Unserved /\ r \in Unserved /\ r \notin Unserved'
    BY <1>0, <2>2, <2>3, <2>4 DEF Unsent, Unserved
  <2>6. Unanswered' \subseteq Unanswered
    BY <1>0, <2>2, <2>3 DEF Unanswered, Resolved
  <2>. QED  BY <1>1, <2>2, <2>5, <2>6, ToDoParts DEF Spending
<1>12. CASE FinishRaises
  <2>1. PICK i \in DOMAIN running :
          running[i] = Head(batch) /\ status' = [status EXCEPT ![running[i]] = "finished"]
    BY <1>12 DEF FinishRaises
  <2>2. running[i] \in Req /\ running[i] \in Range(running)
    BY <1>0, RemoveAtElements
  <2>3. \A r \in Req : status[r] = "new" <=> status'[r] = "new"
    BY <1>0, <2>1, <2>2 DEF AInv, Queued
  <2>4. pc = "run" /\ batch # <<>> /\ pc' = "idle" /\ ticks' = ticks
    BY <1>12 DEF FinishRaises
  <2>5. Due = 2 * ticks + 1 /\ Due' = 2 * ticks + 0
    BY <2>4 DEF Due
  <2>6. Due' < Due
    BY <1>0, <2>5
  <2>. QED  BY <1>2, <1>12, <2>3, <2>6 DEF Nearer, FinishRaises, queueVars
<1>13. CASE RunGenerate
  <2>. DEFINE r == Head(batch)
  <2>1. /\ batch # <<>> /\ ~(generated[r] >= MaxTokens[r])
        /\ generated' = [generated EXCEPT ![r] = @ + 1]
        /\ UNCHANGED <<waiting, running, status, future>>
    BY <1>13 DEF RunGenerate, Exhausted, queueVars
  <2>2. r \in Req
    BY <1>0, <2>1, TailElements
  <2>. HIDE DEF r
  <2>3. /\ generated' \in [Req -> Nat] /\ \A q \in Req : generated[q] <= generated'[q]
        /\ generated[r] < generated'[r] /\ generated[r] < MaxTokens[r]
    BY <1>0, <2>1, <2>2
  <2>4. Missing' \subseteq Missing /\ Missing' # Missing
    BY <2>2, <2>3, MissingShrinks
  <2>5. Unsent' = Unsent /\ Unserved' = Unserved /\ Unanswered' = Unanswered
    BY <2>1 DEF Unsent, Unserved, Unanswered
  <2>. QED  BY <2>4, <2>5, ToDoParts DEF Spending
<1>14. CASE RunDone
  <2>1. pc = "run" /\ batch = <<>> /\ pc' = "idle" /\ ticks' = ticks + 1
    BY <1>14 DEF RunDone
  <2>2. Due = 2 * ticks + 3 /\ Due' = 2 * (ticks + 1) + 0
    BY <2>1 DEF Due
  <2>3. Due' < Due
    BY <1>0, <2>2
  <2>. QED  BY <1>2, <1>14, <2>3 DEF Nearer, RunDone, queueVars, seqVars
<1>15. CASE Tick
  BY <1>5, <1>6, <1>7, <1>8, <1>9, <1>10, <1>11, <1>12, <1>13, <1>14, <1>15 DEF Tick
<1>16. CASE \E r \in Req : AddRequest(r) \/ Cancel(r)
  <2>1. PICK r \in Req : AddRequest(r) \/ Cancel(r)
    BY <1>16
  <2>2. CASE AddRequest(r)
    BY <1>3, <2>2
  <2>3. CASE Cancel(r)
    BY <1>4, <2>3
  <2>. QED  BY <2>1, <2>2, <2>3
<1>17. Tick \/ \E r \in Req : AddRequest(r) \/ Cancel(r)
  BY DEF Next, Quiesced
<1>. QED  BY <1>15, <1>16, <1>17

(* With and without reuse of request ids, in both modes: every step uses   *)
(* up something of which there is only so much, as requests are finitely   *)
(* many, so that the chains of ticks cannot go on for ever.                *)
THEOREM LoopSpends == Spec => StepsSpend
<1>1. AInv /\ [Next]_vars =>
        [/\ \A i \in 1 .. 4 : ToDo'[i] \subseteq ToDo[i]
         /\ ToDo' = ToDo => Due' < Due \/ (Due' = Due /\ Stage' < Stage)]_vars
  BY StepSpends DEF Spending, Nearer
<1>. QED  BY <1>1, InitAInv, StepAInv, PTL DEF Spec, StepsSpend

----------------------------------------------------------------------------
(* No tick stops in the middle.                                            *)

(* Where a tick goes on only under a guard, the guard holds: an eviction   *)
(* finds its victim, a sequence that is admitted finds its blocks, and one *)
(* that is stepped is still in the running list, from which _finish takes  *)
(* it.  The other guards of Tick are complementary at each pc.             *)
TickProceeds ==
  /\ MustPreempt /\ running # <<>> => \E i \in DOMAIN running : IsVictim(i)
  /\ pc = "schedule" /\ HeadFits => BlocksFor(TotalLen(Head(waiting))) <= Len(freeIds)
  /\ pc = "run" /\ batch # <<>> => \E i \in DOMAIN running : running[i] = Head(batch)

BatchRuns == pc = "run" => IsInjective(batch) /\ Range(batch) \subseteq Range(running)

LEMMA StepBatchRuns == AInv /\ BatchRuns /\ [Next]_vars => BatchRuns'
<1>. SUFFICES ASSUME AInv, BatchRuns, [Next]_vars PROVE BatchRuns'
  OBVIOUS
<1>0. running \in Seq(Req) /\ batch \in Seq(Req) /\ IsInjective(running)
  BY DEF AInv, TypeOK, Queued
<1>1. CASE ScheduleDone
  BY <1>0, <1>1 DEF ScheduleDone, queueVars, BatchRuns
<1>2. CASE RunFinish
  <2>. DEFINE r == Head(batch)
  <2>1. PICK i \in DOMAIN running : running[i] = r /\ running' = RemoveAt(running, i)
    BY <1>2 DEF RunFinish
  <2>2. pc = "run" /\ batch # <<>> /\ batch' = Tail(batch)
    BY <1>2 DEF RunFinish
  <2>. HIDE DEF r
  <2>3. Range(running') = Range(running) \ {r}
    BY <1>0, <2>1, RemoveAtElements
  <2>4. IsInjective(batch') /\ Range(batch') \subseteq Range(batch) \ {r}
    BY <1>0, <2>2, TailElements DEF BatchRuns, r
  <2>. QED  BY <2>2, <2>3, <2>4 DEF BatchRuns
<1>3. CASE RunGenerate
  <2>1. pc = "run" /\ batch # <<>> /\ batch' = Tail(batch) /\ running' = running
    BY <1>3 DEF RunGenerate, queueVars
  <2>2. IsInjective(batch') /\ Range(batch') \subseteq Range(batch)
    BY <1>0, <2>1, TailElements DEF BatchRuns
  <2>. QED  BY <2>1, <2>2 DEF BatchRuns
<1>4. CASE \E r \in Req : AddRequest(r) \/ Cancel(r)
  BY <1>4 DEF AddRequest, Cancel, queueVars, tickVars, BatchRuns
<1>5. CASE StartTick \/ PreemptOne \/ PreemptRaises \/ PreemptDone \/ ScheduleOne
           \/ FinishRaises \/ RunDone \/ UNCHANGED vars
  BY <1>5 DEF StartTick, PreemptOne, PreemptRaises, PreemptDone, MustPreempt, ScheduleOne,
    FinishRaises, RunDone, BatchRuns, vars, queueVars, tickVars
<1>. QED  BY <1>1, <1>2, <1>3, <1>4, <1>5 DEF Next, Tick, Quiesced

(* Of the sequences that run one is the longest, and one of these comes    *)
(* first.                                                                  *)
LEMMA LongestExists ==
  ASSUME AInv, running # <<>>
  PROVE  \E i \in DOMAIN running : IsVictim(i)
<1>. DEFINE D == DOMAIN running
            Lens == {TotalLen(running[i]) : i \in D}
            Firsts == {0 - i : i \in {j \in D : TotalLen(running[j]) = Max(Lens)}}
<1>1. /\ D = 1 .. Len(running) /\ Len(running) \in Nat \ {0} /\ IsFiniteSet(D)
      /\ \A i \in D : TotalLen(running[i]) \in Int
  <2>1. D = 1 .. Len(running) /\ Len(running) \in Nat \ {0} /\ running \in Seq(Req)
    BY LenProperties, EmptySeq DEF AInv, TypeOK
  <2>2. IsFiniteSet(1 .. Len(running))
    BY <2>1, FS_Interval
  <2>3. \A i \in D : running[i] \in Req
    BY <2>1, ElementOfSeq
  <2>4. generated \in [Req -> Nat] /\ PromptLen \in [Req -> Nat]
    BY SchedulerAssumption DEF AInv, TypeOK
  <2>. QED  BY <2>1, <2>2, <2>3, <2>4 DEF TotalLen
<1>2. Max(Lens) \in Lens /\ \A y \in Lens : Max(Lens) >= y
  <2>1. Lens \in SUBSET Int /\ Lens # {}
    BY <1>1
  <2>2. IsFiniteSet(Lens)
    <3>. DEFINE f == [i \in D |-> TotalLen(running[i])]
    <3>1. IsFiniteSet({f[i] : i \in D})
      BY <1>1, FiniteValues
    <3>2. Lens = {f[i] : i \in D}
      OBVIOUS
    <3>. QED  BY <3>1, <3>2
  <2>. HIDE DEF Lens
  <2>. QED  BY <2>1, <2>2, FiniteMax
<1>3. Max(Firsts) \in Firsts /\ \A y \in Firsts : Max(Firsts) >= y
  <2>1. Firsts \in SUBSET Int /\ Firsts # {}
    <3>1. PICK i \in D : TotalLen(running[i]) = Max(Lens)
      BY <1>2
    <3>2. 0 - i \in Firsts
      BY <3>1
    <3>3. ASSUME NEW y \in Firsts PROVE y \in Int
      <4>1. PICK j \in D : y = 0 - j
        OBVIOUS
      <4>2. j \in Int
        BY <1>1
      <4>. QED  BY <4>1, <4>2
    <3>. QED  BY <3>2, <3>3
  <2>2. IsFiniteSet(Firsts)
    <3>. DEFINE E == {j \in D : TotalLen(running[j]) = Max(Lens)}
                f == [i \in E |-> 0 - i]
    <3>0. IsFiniteSet(E)
      BY <1>1, FS_Subset
    <3>1. IsFiniteSet({f[i] : i \in E})
      <4>. HIDE DEF E
      <4>. QED  BY <3>0, FiniteValues
    <3>2. Firsts = {f[i] : i \in E}
      OBVIOUS
    <3>. QED  BY <3>1, <3>2
  <2>. HIDE DEF Firsts
  <2>. QED  BY <2>1, <2>2, FiniteMax
<1>4. PICK i \in D : TotalLen(running[i]) = Max(Lens) /\ Max(Firsts) = 0 - i
  BY <1>3
<1>5. \A j \in D : TotalLen(running[j]) <= TotalLen(running[i])
  BY <1>1, <1>2, <1>4
<1>6. ASSUME NEW j \in 1 .. i - 1
      PROVE  TotalLen(running[j]) < TotalLen(running[i])
  <2>1. j \in D /\ j < i
    BY <1>1
  <2>2. TotalLen(running[j]) # Max(Lens)
    <3>. SUFFICES ASSUME TotalLen(running[j]) = Max(Lens) PROVE FALSE
      OBVIOUS
    <3>1. 0 - j \in Firsts
      BY <2>1
    <3>2. 0 - i >= 0 - j
      BY <1>3, <1>4, <3>1
    <3>. QED  BY <1>1, <2>1, <3>2
  <2>. QED  BY <1>1, <1>4, <1>5, <2>1, <2>2
<1>. QED  BY <1>5, <1>6 DEF IsVictim

(* With and without reuse of request ids, in both modes: a tick that has   *)
(* begun goes on to its end, by returning or by raising.                   *)
THEOREM TickNeverStuck == Spec => []TickProceeds
<1>1. Init => BatchRuns
  BY DEF Init, BatchRuns
<1>2. AInv /\ BatchRuns => TickProceeds
  <2>. SUFFICES ASSUME AInv, BatchRuns PROVE TickProceeds
    OBVIOUS
  <2>1. MustPreempt /\ running # <<>> => \E i \in DOMAIN running : IsVictim(i)
    BY LongestExists
  <2>2. ASSUME pc = "schedule", HeadFits
        PROVE  BlocksFor(TotalLen(Head(waiting))) <= Len(freeIds)
    <3>. DEFINE t == TotalLen(Head(waiting))
    <3>1. Head(waiting) \in Req
      BY <2>2, TailElements DEF HeadFits, AInv, TypeOK
    <3>2. t \in Nat /\ Len(freeIds) \in Nat
      BY <3>1, SchedulerAssumption, LenProperties DEF TotalLen, AInv, TypeOK, BMTypeOK
    <3>3. BlocksFor(t + 1) <= Len(freeIds)
      BY <2>2 DEF HeadFits, CanAdd, Needed
    <3>4. BlocksFor(t) \in Nat /\ BlocksFor(t + 1) \in Nat /\ BlocksFor(t) <= BlocksFor(t + 1)
      <4>. HIDE DEF t
      <4>. QED  BY <3>2, NumBlocks, SchedulerAssumption DEF BlocksFor
    <3>. QED  BY <3>2, <3>3, <3>4
  <2>3. ASSUME pc = "run", batch # <<>>
        PROVE  \E i \in DOMAIN running : running[i] = Head(batch)
    <3>1. Head(batch) \in Range(batch)
      BY <2>3, TailElements DEF AInv, TypeOK
    <3>. QED  BY <2>3, <3>1 DEF BatchRuns, Range
  <2>. QED  BY <2>1, <2>2, <2>3 DEF TickProceeds
<1>. QED  BY <1>1, <1>2, InitAInv, StepAInv, StepBatchRuns, PTL DEF Spec

----------------------------------------------------------------------------
(* What an answer is worth, whatever ids are used again.                   *)

(* A future has a result only when its sequence left the running list with *)
(* all its tokens.  With reuse a finished sequence may keep its caller     *)
(* waiting; it never makes it a short answer.                              *)
NeverShort ==
  \A r \in Req :
    /\ generated[r] <= MaxTokens[r]
    /\ future[r] = "done" => /\ status[r] = "finished" /\ generated[r] = MaxTokens[r]
                             /\ r \notin Range(running)

LEMMA StepNeverShort == AInv /\ BatchRuns /\ NeverShort /\ [Next]_vars => NeverShort'
<1>. SUFFICES ASSUME AInv, BatchRuns, NeverShort, [Next]_vars PROVE NeverShort'
  OBVIOUS
<1>. USE DEF AInv
<1>0. /\ status \in [Req -> Status] /\ generated \in [Req -> Nat]
      /\ future \in [Req -> {"pending", "done", "cancelled"}]
      /\ MaxTokens \in [Req -> Nat]
      /\ running \in Seq(Req) /\ batch \in Seq(Req) /\ waiting \in Seq(Req)
  BY SchedulerAssumption DEF TypeOK
(* A step that answers nobody and touches none that has its answer. *)
<1>1. ASSUME NEW r \in Req, r \in Range(running) \/ status[r] \in {"new", "waiting"},
             \A q \in Req \ {r} : status'[q] = status[q],
             Range(running') \subseteq Range(running) \cup {r},
             UNCHANGED <<generated, future>>
      PROVE  NeverShort'
  <2>1. future[r] # "done"
    BY <1>1 DEF NeverShort
  <2>. QED  BY <1>1, <2>1 DEF NeverShort
<1>2. CASE \E r \in Req : AddRequest(r)
  <2>1. PICK r \in Req : AddRequest(r)
    BY <1>2
  <2>. QED  BY <1>0, <1>1, <2>1 DEF AddRequest
<1>3. CASE \E r \in Req : Cancel(r)
  BY <1>0, <1>3 DEF Cancel, queueVars, NeverShort
<1>4. CASE PreemptOne \/ PreemptRaises
  <2>1. PICK i \in DOMAIN running :
          /\ status' = status \/ status' = [status EXCEPT ![running[i]] = "preempted"]
          /\ running' = running \/ running' = RemoveAt(running, i)
          /\ UNCHANGED <<generated, future>>
    BY <1>4 DEF PreemptOne, PreemptRaises, queueVars
  <2>2. /\ running[i] \in Req /\ running[i] \in Range(running)
        /\ Range(running') \subseteq Range(running)
    BY <1>0, <2>1, RemoveAtElements DEF Queued
  <2>3. \A q \in Req \ {running[i]} : status'[q] = status[q]
    BY <1>0, <2>1, <2>2
  <2>. QED  BY <1>1, <2>1, <2>2, <2>3
<1>5. CASE ScheduleOne
  <2>1. /\ waiting # <<>> /\ status' = [status EXCEPT ![Head(waiting)] = "running"]
        /\ running' = Append(running, Head(waiting))
        /\ UNCHANGED <<generated, future>>
    BY <1>5 DEF ScheduleOne, HeadFits
  <2>2. Head(waiting) \in Req /\ Head(waiting) \in Range(waiting)
    BY <1>0, <2>1, TailElements
  <2>3. status[Head(waiting)] = "waiting"
    BY <2>2 DEF Queued
  <2>4. Range(running') = Range(running) \cup {Head(waiting)}
    BY <1>0, <2>1, <2>2, AppendElements
  <2>. QED  BY <1>0, <1>1, <2>1, <2>2, <2>3, <2>4
<1>6. CASE RunFinish
  <2>. DEFINE r == Head(batch)
  <2>1. PICK i \in DOMAIN running : running[i] = r /\ running' = RemoveAt(running, i)
    BY <1>6 DEF RunFinish
  <2>2. /\ generated[r] >= MaxTokens[r]
        /\ status' = [status EXCEPT ![r] = "finished"]
        /\ future' = [future EXCEPT ![r] = Resolved(@)]
        /\ generated' = generated
    BY <1>6 DEF RunFinish, Exhausted
  <2>. HIDE DEF r
  <2>3. r \in Req /\ Range(running') = Range(running) \ {r}
    BY <1>0, <2>1, RemoveAtElements DEF Queued
  <2>4. generated[r] = MaxTokens[r]
    BY <1>0, <2>2, <2>3 DEF NeverShort
  <2>. QED  BY <1>0, <2>2, <2>3, <2>4 DEF NeverShort
<1>7. CASE FinishRaises
  <2>1. PICK i \in DOMAIN running :
          running[i] = Head(batch) /\ status' = [status EXCEPT ![running[i]] = "finished"]
    BY <1>7 DEF FinishRaises
  <2>2. UNCHANGED <<running, generated, future>>
    BY <1>7 DEF FinishRaises, queueVars
  <2>3. running[i] \in Req /\ running[i] \in Range(running)
    BY <1>0, RemoveAtElements
  <2>. QED  BY <1>0, <1>1, <2>1, <2>2, <2>3
<1>8. CASE RunGenerate
  <2>. DEFINE r == Head(batch)
  <2>1. /\ batch # <<>> /\ pc = "run"
        /\ ~(generated[r] >= MaxTokens[r])
        /\ generated' = [generated EXCEPT ![r] = @ + 1]
        /\ UNCHANGED <<status, future, running>>
    BY <1>8 DEF RunGenerate, Exhausted, queueVars
  <2>2. r \in Req /\ r \in Range(running)
    BY <1>0, <2>1, TailElements DEF BatchRuns
  <2>3. future[r] # "done"
    BY <2>2 DEF NeverShort
  <2>. HIDE DEF r
  <2>. QED  BY <1>0, <2>1, <2>2, <2>3 DEF NeverShort
<1>9. CASE UNCHANGED <<status, generated, future, running>>
  BY <1>9 DEF NeverShort
<1>. QED
  BY <1>2, <1>3, <1>4, <1>5, <1>6, <1>7, <1>8, <1>9 DEF Next, Tick, StartTick, PreemptDone,
    ScheduleDone, RunDone, Quiesced, vars, queueVars, seqVars

(* Evicted, raised in the middle or cancelled: no caller is ever given an  *)
(* answer that lacks a token or has one too many.                          *)
THEOREM AnswersNeverShort == Spec => []NeverShort
<1>1. Init => BatchRuns /\ NeverShort
  BY SchedulerAssumption DEF Init, BatchRuns, NeverShort
<1>. QED  BY <1>1, InitAInv, StepAInv, StepBatchRuns, StepNeverShort, PTL DEF Spec

----------------------------------------------------------------------------
(* From here on no request id is used twice.  Then list.remove finds its   *)
(* sequence without comparing tensors, and every tick runs to its end.     *)

OwnIds == \A r \in Req : reqId[r] = r

LEMMA NeverRaises ==
  ASSUME AInv, OwnIds, NEW i \in DOMAIN running
  PROVE  ~RemoveRaises(i)
<1>1. /\ DOMAIN running = 1 .. Len(running) /\ Len(running) \in Nat
      /\ \A j \in DOMAIN running : running[j] \in Req
      /\ IsInjective(running)
  BY LenProperties, ElementOfSeq DEF AInv, TypeOK, Queued
<1>. QED  BY <1>1 DEF OwnIds, RemoveRaises, IsInjective

LEMMA StepOwnIds == ~AddressReuse /\ OwnIds /\ [Next]_vars => OwnIds'
BY DEF OwnIds, Next, Tick, AddRequest, Cancel, StartTick, PreemptOne, PreemptRaises,
  PreemptDone, ScheduleOne, ScheduleDone, RunFinish, FinishRaises, RunGenerate, RunDone,
  Quiesced, vars, seqVars

LEMMA NoRaise ==
  ASSUME AInv, OwnIds
  PROVE  ~PreemptRaises /\ ~FinishRaises
BY NeverRaises DEF PreemptRaises, FinishRaises

(* Between ticks nothing that could go on is left without a tick.          *)
THEOREM NoWakeupLost ==
  ASSUME ~AddressReuse
  PROVE  Spec => []NoLostWakeup
<1>1. Init => NoLostWakeup /\ OwnIds
  BY DEF Init, NoLostWakeup, OwnIds
<1>2. AInv /\ OwnIds /\ NoLostWakeup /\ [Next]_vars => NoLostWakeup'
  <2>. SUFFICES ASSUME AInv, OwnIds, NoLostWakeup, [Next]_vars, pc' = "idle", ticks' = 0
                PROVE  running' = <<>> /\ (waiting' # <<>> => ~Feasible(Head(waiting))')
    BY DEF NoLostWakeup
  <2>0. ticks \in Nat
    BY DEF AInv, TypeOK
  <2>1. CASE ScheduleDone
    <3>1. /\ ~HeadFits
          /\ running = <<>>
          /\ UNCHANGED <<running, waiting, generated>>
      BY <2>1 DEF ScheduleDone, queueVars, seqVars
    <3>2. waiting # <<>> => ~Feasible(Head(waiting))
      BY <3>1, RoomWhenNothingRuns
    <3>. QED  BY <3>1, <3>2 DEF Feasible, Needed, TotalLen
  <2>2. CASE \E r \in Req : Cancel(r)
    BY <2>2 DEF Cancel, NoLostWakeup, queueVars, tickVars, Feasible, Needed, TotalLen
  <2>3. CASE UNCHANGED vars
    BY <2>3 DEF vars, NoLostWakeup, Feasible, Needed, TotalLen
  <2>4. CASE (\E r \in Req : AddRequest(r)) \/ RunDone
    BY <2>0, <2>4 DEF AddRequest, RunDone
  <2>5. CASE StartTick \/ PreemptOne \/ PreemptDone \/ ScheduleOne \/ RunFinish \/ RunGenerate
    BY <2>5 DEF StartTick, PreemptOne, MustPreempt, PreemptDone, ScheduleOne, RunFinish,
      RunGenerate, tickVars
  <2>. QED
    BY <2>1, <2>2, <2>3, <2>4, <2>5, NoRaise DEF Next, Tick, Quiesced
<1>. QED  BY <1>1, <1>2, InitAInv, StepAInv, StepOwnIds, PTL DEF Spec

LEMMA StepPlaced == AInv /\ OwnIds /\ PlacedOnce /\ [Next]_vars => PlacedOnce'
<1>. SUFFICES ASSUME AInv, OwnIds, PlacedOnce, [Next]_vars PROVE PlacedOnce'
  OBVIOUS
<1>. USE DEF AInv
<1>0. /\ waiting \in Seq(Req) /\ running \in Seq(Req) /\ preempted \in Seq(Req)
      /\ batch \in Seq(Req) /\ status \in [Req -> Status]
  BY DEF TypeOK
<1>1. ASSUME NEW r \in Req, AddRequest(r) PROVE PlacedOnce'
  <2>1. /\ waiting' = Append(waiting, r)
        /\ status[r] = "new" /\ status' = [status EXCEPT ![r] = "waiting"]
        /\ UNCHANGED <<running, preempted, pc, batch>>
    BY <1>1 DEF AddRequest
  <2>2. r \notin Range(waiting) /\ r \notin Range(running) /\ r \notin Range(preempted)
    BY <2>1 DEF PlacedOnce
  <2>3. IsInjective(waiting') /\ Range(waiting') = Range(waiting) \cup {r}
    BY <1>0, <2>1, <2>2, AppendElements DEF PlacedOnce
  <2>. QED  BY <1>0, <2>1, <2>2, <2>3 DEF PlacedOnce
<1>2. CASE PreemptOne
  <2>1. PICK i \in DOMAIN running :
          /\ running' = RemoveAt(running, i)
          /\ preempted' = Append(preempted, running[i])
          /\ status' = [status EXCEPT ![running[i]] = "preempted"]
          /\ pc = "preempt"
          /\ UNCHANGED <<waiting, pc, batch>>
    BY <1>2 DEF PreemptOne, MustPreempt, tickVars
  <2>. DEFINE r == running[i]
  <2>2. /\ r \in Req /\ r \in Range(running) /\ IsInjective(running')
        /\ Range(running') = Range(running) \ {r}
    BY <1>0, <2>1, RemoveAtElements DEF PlacedOnce
  <2>. HIDE DEF r
  <2>3. r \notin Range(waiting) /\ r \notin Range(preempted)
    BY <2>2 DEF PlacedOnce
  <2>4. IsInjective(preempted') /\ Range(preempted') = Range(preempted) \cup {r}
    BY <1>0, <2>1, <2>2, <2>3, AppendElements DEF PlacedOnce, r
  <2>5. status'[r] = "preempted" /\ \A q \in Req \ {r} : status'[q] = status[q]
    BY <1>0, <2>1, <2>2 DEF r
  <2>6. waiting' = waiting /\ batch' = batch /\ pc' # "run"
    BY <2>1
  <2>. QED  BY <2>2, <2>3, <2>4, <2>5, <2>6 DEF PlacedOnce
<1>3. CASE ScheduleOne
  <2>. DEFINE r == Head(waiting)
  <2>1. /\ waiting # <<>> /\ waiting' = Tail(waiting)
        /\ status' = [status EXCEPT ![r] = "running"]
        /\ running' = Append(running, r)
        /\ pc = "schedule"
        /\ UNCHANGED <<preempted, pc, batch>>
    BY <1>3 DEF ScheduleOne, HeadFits, tickVars
  <2>2. /\ r \in Req /\ r \in Range(waiting) /\ IsInjective(waiting')
        /\ Range(waiting) = Range(waiting') \cup {r} /\ r \notin Range(waiting')
    BY <1>0, <2>1, TailElements DEF PlacedOnce
  <2>. HIDE DEF r
  <2>3. r \notin Range(running) /\ r \notin Range(preempted)
    BY <2>2 DEF PlacedOnce
  <2>4. IsInjective(running') /\ Range(running') = Range(running) \cup {r}
    BY <1>0, <2>1, <2>2, <2>3, AppendElements DEF PlacedOnce
  <2>5. status'[r] = "running" /\ \A q \in Req \ {r} : status'[q] = status[q]
    BY <1>0, <2>1, <2>2
  <2>. QED  BY <2>1, <2>2, <2>3, <2>4, <2>5 DEF PlacedOnce
<1>4. CASE ScheduleDone
  <2>1. batch' = running /\ UNCHANGED <<waiting, running, preempted, status>>
    BY <1>4 DEF ScheduleDone, queueVars, seqVars
  <2>. QED  BY <2>1 DEF PlacedOnce
<1>5. CASE RunFinish
  <2>. DEFINE r == Head(batch)
  <2>1. PICK i \in DOMAIN running : running[i] = r /\ running' = RemoveAt(running, i)
    BY <1>5 DEF RunFinish
  <2>2. /\ batch # <<>> /\ batch' = Tail(batch)
        /\ status' = [status EXCEPT ![r] = "finished"]
        /\ UNCHANGED <<waiting, preempted, pc>>
    BY <1>5 DEF RunFinish
  <2>. HIDE DEF r
  <2>3. /\ r \in Req /\ r \in Range(running) /\ IsInjective(running')
        /\ Range(running') = Range(running) \ {r}
    BY <1>0, <2>1, RemoveAtElements DEF PlacedOnce
  <2>4. IsInjective(batch') /\ Range(batch') \subseteq Range(batch) \ {r}
    BY <1>0, <2>2, TailElements DEF PlacedOnce, r
  <2>5. r \notin Range(waiting) /\ r \notin Range(preempted)
    BY <2>3 DEF PlacedOnce
  <2>6. status'[r] = "finished" /\ \A q \in Req \ {r} : status'[q] = status[q]
    BY <1>0, <2>2, <2>3
  <2>. QED  BY <2>2, <2>3, <2>4, <2>5, <2>6 DEF PlacedOnce
<1>6. CASE RunGenerate
  <2>1. /\ batch # <<>> /\ batch' = Tail(batch)
        /\ UNCHANGED <<waiting, running, preempted, status, pc>>
    BY <1>6 DEF RunGenerate, queueVars
  <2>2. IsInjective(batch') /\ Range(batch') \subseteq Range(batch)
    BY <1>0, <2>1, TailElements DEF PlacedOnce
  <2>. QED  BY <2>1, <2>2 DEF PlacedOnce
<1>7. ASSUME UNCHANGED <<waiting, running, preempted, status, batch>>, pc' = pc \/ pc' # "run"
      PROVE  PlacedOnce'
  BY <1>7 DEF PlacedOnce
<1>8. CASE (\E r \in Req : Cancel(r)) \/ StartTick \/ PreemptDone \/ RunDone \/ UNCHANGED vars
  BY <1>7, <1>8 DEF Cancel, StartTick, PreemptDone, RunDone, vars, queueVars, seqVars, tickVars
<1>. QED
  BY <1>1, <1>2, <1>3, <1>4, <1>5, <1>6, <1>8, NoRaise DEF Next, Tick, Quiesced

(* Every sequence is in the one queue its status names.                    *)
THEOREM PlacementCorrect ==
  ASSUME ~AddressReuse
  PROVE  Spec => []PlacedOnce
<1>1. Init => PlacedOnce /\ OwnIds
  BY EmptyElements DEF Init, PlacedOnce, OwnIds
<1>. QED  BY <1>1, InitAInv, StepAInv, StepOwnIds, StepPlaced, PTL DEF Spec

LEMMA StepCovered == AInv /\ OwnIds /\ RunningCovered /\ [Next]_vars => RunningCovered'
<1>. SUFFICES ASSUME AInv, OwnIds, RunningCovered, [Next]_vars PROVE RunningCovered'
  OBVIOUS
<1>. SUFFICES ASSUME NEW r \in Req, r \in Range(running')
              PROVE  PromptLen[r] <= BlockSize * Len(blockIds'[r])
  <2>1. AInv'
    BY StepAInv
  <2>. QED  BY <2>1 DEF AInv, Queued, RunningCovered
<1>. USE DEF AInv
<1>0. running \in Seq(Req) /\ blockIds \in [Req -> Seq(Block)] /\ PromptLen \in [Req -> Nat]
  BY SchedulerAssumption DEF TypeOK
<1>1. ASSUME r \in Range(running), blockIds'[r] = blockIds[r]
      PROVE  PromptLen[r] <= BlockSize * Len(blockIds'[r])
  BY <1>1 DEF RunningCovered
<1>2. CASE PreemptOne
  <2>1. PICK i \in DOMAIN running :
          running' = RemoveAt(running, i) /\ blockIds' = [blockIds EXCEPT ![running[i]] = <<>>]
    BY <1>2 DEF PreemptOne, GiveUpBlocks
  <2>2. Range(running') = Range(running) \ {running[i]} /\ running[i] \in Req
    BY <1>0, <2>1, RemoveAtElements DEF Queued
  <2>. QED  BY <1>0, <1>1, <2>1, <2>2
<1>3. CASE RunFinish
  <2>1. PICK i \in DOMAIN running :
          running' = RemoveAt(running, i) /\ blockIds' = [blockIds EXCEPT ![running[i]] = <<>>]
    BY <1>3 DEF RunFinish
  <2>2. Range(running') = Range(running) \ {running[i]} /\ running[i] \in Req
    BY <1>0, <2>1, RemoveAtElements DEF Queued
  <2>. QED  BY <1>0, <1>1, <2>1, <2>2
<1>4. CASE ScheduleOne
  <2>. DEFINE h == Head(waiting)
              n == BlocksFor(TotalLen(h))
  <2>1. /\ waiting # <<>> /\ running' = Append(running, h)
        /\ Allocate(n) /\ blockIds' = [blockIds EXCEPT ![h] = Popped(n)]
    BY <1>4 DEF ScheduleOne, HeadFits
  <2>2. h \in Req /\ h \in Range(waiting)
    BY <2>1, TailElements DEF TypeOK
  <2>3. PromptLen[h] \in Nat /\ TotalLen(h) \in Nat /\ PromptLen[h] <= TotalLen(h)
    BY <2>2, <1>0 DEF TotalLen, TypeOK
  <2>4. n \in Nat /\ TotalLen(h) <= BlockSize * n
    BY <2>3, NumBlocks
  <2>. HIDE DEF h, n
  <2>5. blockIds[h] = <<>>
    BY <2>2 DEF Queued
  <2>6. Len(blockIds'[h]) = n
    BY <1>0, <2>1, <2>2, <2>4, <2>5, GrantKeepsAccounting DEF TypeOK
  <2>7. Range(running') = Range(running) \cup {h}
    BY <1>0, <2>1, <2>2, AppendElements
  <2>8. CASE r = h
    <3>1. BlockSize * n \in Nat
      BY <2>4, SchedulerAssumption
    <3>. QED  BY <2>3, <2>4, <2>6, <2>8, <3>1
  <2>9. CASE r # h
    BY <1>0, <1>1, <2>1, <2>7, <2>9
  <2>. QED  BY <2>8, <2>9
<1>5. CASE UNCHANGED <<running, blockIds>>
  BY <1>1, <1>5
<1>. QED
  BY <1>2, <1>3, <1>4, <1>5, NoRaise DEF Next, Tick, AddRequest, Cancel, StartTick,
    PreemptDone, ScheduleDone, RunGenerate, RunDone, Quiesced, vars, queueVars, seqVars

(* The blocks of a running sequence always hold its prompt, and no other   *)
(* sequence has blocks.                                                    *)
THEOREM PromptsCovered ==
  ASSUME ~AddressReuse
  PROVE  Spec => []RunningCovered
<1>1. Init => RunningCovered /\ OwnIds
  BY EmptyElements DEF Init, RunningCovered, OwnIds
<1>. QED  BY <1>1, InitAInv, StepAInv, StepOwnIds, StepCovered, PTL DEF Spec

----------------------------------------------------------------------------
LEMMA StepAnswers ==
  AInv /\ OwnIds /\ PlacedOnce /\ AnswersComplete /\ [Next]_vars => AnswersComplete'
<1>. SUFFICES ASSUME AInv, OwnIds, PlacedOnce, AnswersComplete, [Next]_vars
              PROVE  AnswersComplete'
  OBVIOUS
<1>. USE DEF AInv
<1>0. /\ status \in [Req -> Status] /\ generated \in [Req -> Nat]
      /\ future \in [Req -> {"pending", "done", "cancelled"}]
      /\ MaxTokens \in [Req -> Nat]
      /\ running \in Seq(Req) /\ batch \in Seq(Req) /\ waiting \in Seq(Req)
  BY SchedulerAssumption DEF TypeOK
(* A step that changes only the status of an unfinished sequence. *)
<1>1. ASSUME NEW r \in Req, NEW e \in Status \ {"finished"}, status[r] # "finished",
             status' = [status EXCEPT ![r] = e], UNCHANGED <<generated, future>>
      PROVE  AnswersComplete'
  BY <1>0, <1>1 DEF AnswersComplete
<1>2. CASE \E r \in Req : AddRequest(r)
  BY <1>1, <1>2 DEF AddRequest, Status
<1>3. CASE \E r \in Req : Cancel(r)
  BY <1>0, <1>3 DEF Cancel, AnswersComplete
<1>4. CASE PreemptOne
  <2>1. PICK i \in DOMAIN running :
          /\ status' = [status EXCEPT ![running[i]] = "preempted"]
          /\ UNCHANGED <<generated, future>>
    BY <1>4 DEF PreemptOne
  <2>2. running[i] \in Req /\ status[running[i]] # "finished"
    BY <1>0, RemoveAtElements DEF PlacedOnce
  <2>. QED  BY <1>1, <2>1, <2>2 DEF Status
<1>5. CASE ScheduleOne
  <2>1. /\ waiting # <<>> /\ status' = [status EXCEPT ![Head(waiting)] = "running"]
        /\ UNCHANGED <<generated, future>>
    BY <1>5 DEF ScheduleOne, HeadFits
  <2>2. Head(waiting) \in Req /\ status[Head(waiting)] # "finished"
    BY <1>0, <2>1, TailElements DEF PlacedOnce
  <2>. QED  BY <1>1, <2>1, <2>2 DEF Status
<1>6. CASE RunFinish
  <2>. DEFINE r == Head(batch)
  <2>1. /\ \E i \in DOMAIN running : running[i] = r
        /\ generated[r] >= MaxTokens[r]
        /\ status' = [status EXCEPT ![r] = "finished"]
        /\ future' = [future EXCEPT ![r] = Resolved(@)]
        /\ generated' = generated
    BY <1>6 DEF RunFinish, Exhausted
  <2>2. r \in Req
    BY <1>0, <2>1, RemoveAtElements
  <2>. HIDE DEF r
  <2>3. generated[r] = MaxTokens[r] /\ Resolved(future[r]) # "pending"
    BY <1>0, <2>1, <2>2 DEF AnswersComplete, Resolved
  <2>. QED  BY <1>0, <2>1, <2>2, <2>3 DEF AnswersComplete
<1>7. CASE RunGenerate
  <2>. DEFINE r == Head(batch)
  <2>1. /\ batch # <<>> /\ pc = "run"
        /\ ~(generated[r] >= MaxTokens[r])
        /\ generated' = [generated EXCEPT ![r] = @ + 1]
        /\ UNCHANGED <<status, future>>
    BY <1>7 DEF RunGenerate, Exhausted
  <2>2. r \in Req /\ r \in Range(batch)
    BY <1>0, <2>1, TailElements
  <2>3. status[r] # "finished"
    BY <2>1, <2>2 DEF PlacedOnce
  <2>. HIDE DEF r
  <2>. QED  BY <1>0, <2>1, <2>2, <2>3 DEF AnswersComplete
<1>8. CASE UNCHANGED <<status, generated, future>>
  BY <1>8 DEF AnswersComplete
<1>. QED
  BY <1>2, <1>3, <1>4, <1>5, <1>6, <1>7, <1>8, NoRaise DEF Next, Tick, StartTick,
    PreemptDone, ScheduleDone, RunDone, Quiesced, vars, seqVars

(* Answers are complete and only finished sequences answer.                *)
THEOREM AnswersCorrect ==
  ASSUME ~AddressReuse
  PROVE  Spec => []AnswersComplete
<1>1. Init => PlacedOnce /\ OwnIds /\ AnswersComplete
  BY EmptyElements, SchedulerAssumption DEF Init, PlacedOnce, OwnIds, AnswersComplete
<1>. QED
  BY <1>1, InitAInv, StepAInv, StepOwnIds, StepPlaced, StepAnswers, PTL DEF Spec

----------------------------------------------------------------------------
(* What the loop leaves behind when it comes to rest.                      *)

(* Every prompt, with room for its next token, fits the empty cache. *)
AllFit == \A r \in Req : BlocksFor(PromptLen[r] + 1) <= TotalBlocks

(* A sequence that waits has generated nothing: preempted ones do not      *)
(* come back.                                                              *)
Fresh == \A r \in Req : status[r] \in {"new", "waiting"} => generated[r] = 0

LEMMA StepFresh == AInv /\ BatchRuns /\ Fresh /\ [Next]_vars => Fresh'
<1>. SUFFICES ASSUME AInv, BatchRuns, Fresh, [Next]_vars PROVE Fresh'
  OBVIOUS
<1>0. /\ status \in [Req -> Status] /\ generated \in [Req -> Nat]
      /\ running \in Seq(Req) /\ batch \in Seq(Req)
  BY DEF AInv, TypeOK
<1>1. CASE RunGenerate
  <2>. DEFINE r == Head(batch)
  <2>1. /\ batch # <<>> /\ pc = "run" /\ status' = status
        /\ generated' = [generated EXCEPT ![r] = @ + 1]
    BY <1>1 DEF RunGenerate
  <2>2. r \in Req /\ r \in Range(running)
    BY <1>0, <2>1, TailElements DEF BatchRuns
  <2>3. status[r] \notin {"new", "waiting"}
    BY <2>2 DEF AInv, Queued
  <2>. HIDE DEF r
  <2>. QED  BY <1>0, <2>1, <2>2, <2>3 DEF Fresh
<1>2. ASSUME NEW r \in Req, status' = [status EXCEPT ![r] = status'[r]],
             status'[r] \notin {"new", "waiting"} \/ status[r] = "new",
             generated' = generated
      PROVE  Fresh'
  <2>1. \A q \in Req : q # r => status'[q] = status[q]
    BY <1>0, <1>2
  <2>. QED  BY <1>2, <2>1 DEF Fresh
<1>3. CASE \E r \in Req : AddRequest(r)
  BY <1>0, <1>2, <1>3 DEF AddRequest
<1>4. CASE PreemptOne \/ PreemptRaises
  <2>1. PICK i \in DOMAIN running :
          /\ status' = status \/ status' = [status EXCEPT ![running[i]] = "preempted"]
          /\ generated' = generated
    BY <1>4 DEF PreemptOne, PreemptRaises
  <2>2. running[i] \in Req
    BY <1>0, ElementOfSeq
  <2>3. CASE status' = status
    BY <2>1, <2>3 DEF Fresh
  <2>4. CASE status' = [status EXCEPT ![running[i]] = "preempted"]
    BY <1>0, <1>2, <2>1, <2>2, <2>4
  <2>. QED  BY <2>1, <2>3, <2>4
<1>5. CASE ScheduleOne
  <2>1. /\ waiting # <<>> /\ status' = [status EXCEPT ![Head(waiting)] = "running"]
        /\ generated' = generated
    BY <1>5 DEF ScheduleOne, HeadFits
  <2>2. Head(waiting) \in Req
    BY <2>1, TailElements DEF AInv, TypeOK
  <2>. QED  BY <1>0, <1>2, <2>1, <2>2
<1>6. CASE RunFinish \/ FinishRaises
  <2>1. /\ \E i \in DOMAIN running : running[i] = Head(batch)
        /\ status' = [status EXCEPT ![Head(batch)] = "finished"]
        /\ generated' = generated
    BY <1>6 DEF RunFinish, FinishRaises
  <2>2. Head(batch) \in Req
    BY <1>0, <2>1, ElementOfSeq
  <2>. QED  BY <1>0, <1>2, <2>1, <2>2
<1>7. CASE UNCHANGED <<status, generated>>
  BY <1>7 DEF Fresh
<1>. QED
  BY <1>1, <1>3, <1>4, <1>5, <1>6, <1>7 DEF Next, Tick, Cancel, StartTick, PreemptDone,
    ScheduleDone, RunDone, Quiesced, vars, seqVars

LEMMA WaitingFits ==
  ASSUME AInv, Fresh, AllFit, waiting # <<>>
  PROVE  Feasible(Head(waiting))
<1>1. Head(waiting) \in Req /\ Head(waiting) \in Range(waiting)
  BY TailElements DEF AInv, TypeOK
<1>2. generated[Head(waiting)] = 0 /\ PromptLen[Head(waiting)] \in Nat
  BY <1>1, SchedulerAssumption DEF AInv, Queued, Fresh
<1>3. TotalLen(Head(waiting)) = PromptLen[Head(waiting)]
  BY <1>2 DEF TotalLen
<1>. QED  BY <1>1, <1>3 DEF AllFit, Feasible, Needed

(* Whoever was evicted made room for another, which runs until it is       *)
(* finished or evicted in its turn: as long as none has finished, one      *)
(* runs or is about to be admitted.                                        *)
Serving ==
  (\E r \in Req : status[r] = "preempted") =>
    \/ \E r \in Req : status[r] = "finished"
    \/ running # <<>>
    \/ pc \in {"preempt", "schedule"} /\ waiting # <<>>

LEMMA StepServing == AllFit /\ AInv /\ Fresh /\ Serving /\ [Next]_vars => Serving'
<1>. SUFFICES ASSUME AllFit, AInv, Fresh, Serving, [Next]_vars PROVE Serving'
  OBVIOUS
<1>0. /\ status \in [Req -> Status] /\ running \in Seq(Req)
      /\ Len(running) \in Nat
  BY LenProperties DEF AInv, TypeOK
<1>1. CASE \E r \in Req : AddRequest(r)
  BY <1>0, <1>1 DEF AddRequest, Serving
<1>2. CASE PreemptOne
  BY <1>2 DEF PreemptOne, MustPreempt, Serving, tickVars
<1>3. CASE PreemptRaises
  <2>1. running' = running /\ DOMAIN running # {}
    BY <1>3 DEF PreemptRaises, queueVars
  <2>. QED  BY <2>1, EmptyElements DEF Serving
<1>4. CASE ScheduleOne
  <2>1. waiting # <<>> /\ running' = Append(running, Head(waiting))
    BY <1>4 DEF ScheduleOne, HeadFits
  <2>2. Head(waiting) \in Req
    BY <2>1, TailElements DEF AInv, TypeOK
  <2>3. Len(running') = Len(running) + 1
    BY <1>0, <2>1, <2>2, AppendProperties
  <2>4. running' # <<>>
    BY <1>0, <2>3
  <2>. QED  BY <2>4 DEF Serving
<1>5. CASE ScheduleDone
  <2>1. ~HeadFits /\ UNCHANGED <<running, status>>
    BY <1>5 DEF ScheduleDone, queueVars, seqVars
  <2>2. running # <<>> \/ waiting = <<>>
    BY <2>1, WaitingFits, RoomWhenNothingRuns
  <2>. QED  BY <2>1, <2>2 DEF Serving
<1>6. CASE RunFinish \/ FinishRaises
  <2>1. /\ \E i \in DOMAIN running : running[i] = Head(batch)
        /\ status' = [status EXCEPT ![Head(batch)] = "finished"]
    BY <1>6 DEF RunFinish, FinishRaises
  <2>2. Head(batch) \in Req
    BY <1>0, <2>1, ElementOfSeq
  <2>3. status'[Head(batch)] = "finished"
    BY <1>0, <2>1, <2>2
  <2>. QED  BY <2>2, <2>3 DEF Serving
<1>7. CASE (\E r \in Req : Cancel(r)) \/ StartTick \/ PreemptDone \/ RunGenerate \/ RunDone
           \/ UNCHANGED vars
  BY <1>7 DEF Cancel, StartTick, PreemptDone, RunGenerate, RunDone, Serving, vars, queueVars,
    seqVars, tickVars
<1>. QED
  BY <1>1, <1>2, <1>3, <1>4, <1>5, <1>6, <1>7 DEF Next, Tick, Quiesced

(* At rest every sequence that was submitted is finished or preempted; if  *)
(* one is preempted another finished; and the whole cache is free.         *)
AtRest ==
  (pc = "idle" /\ ticks = 0) =>
    /\ \A r \in Req : status[r] \in {"new", "finished", "preempted"}
    /\ (\E r \in Req : status[r] = "preempted") => \E r \in Req : status[r] = "finished"
    /\ Len(freeIds) = TotalBlocks

(* If every prompt fits the cache, the loop does not come to rest before   *)
(* its work is done.  That it comes to rest is LoopSpends, and that no     *)
(* tick prevents it TickNeverStuck.                                        *)
THEOREM RestIsServed ==
  ASSUME ~AddressReuse, AllFit
  PROVE  Spec => []AtRest
<1>1. Init => BatchRuns /\ Fresh /\ Serving /\ PlacedOnce /\ OwnIds /\ NoLostWakeup
  BY EmptyElements DEF Init, BatchRuns, Fresh, Serving, PlacedOnce, OwnIds, NoLostWakeup
<1>2. AInv /\ Fresh /\ Serving /\ PlacedOnce /\ NoLostWakeup => AtRest
  <2>. SUFFICES ASSUME AInv, Fresh, Serving, PlacedOnce, NoLostWakeup, pc = "idle", ticks = 0
                PROVE  /\ \A r \in Req : status[r] \in {"new", "finished", "preempted"}
                       /\ (\E r \in Req : status[r] = "preempted")
                            => \E r \in Req : status[r] = "finished"
                       /\ Len(freeIds) = TotalBlocks
    BY DEF AtRest
  <2>1. running = <<>> /\ waiting = <<>>
    BY WaitingFits DEF NoLostWakeup
  <2>2. Len(freeIds) = TotalBlocks
    BY <2>1, NothingRunning
  <2>3. \A r \in Req : status[r] \in Status \ {"waiting", "running"}
    BY <2>1, EmptyElements DEF PlacedOnce, AInv, TypeOK
  <2>. QED  BY <2>1, <2>2, <2>3 DEF Serving, Status
<1>3. Spec => []NoLostWakeup
  BY NoWakeupLost
<1>4. AInv /\ BatchRuns /\ Fresh /\ Serving /\ [Next]_vars => Serving'
  BY StepServing
<1>. QED
  BY <1>1, <1>2, <1>3, <1>4, InitAInv, StepAInv, StepOwnIds, StepPlaced, StepBatchRuns,
    StepFresh, PTL DEF Spec

=============================================================================
