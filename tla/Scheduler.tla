----------------------------- MODULE Scheduler -----------------------------
(***************************************************************************)
(* The continuous-batching scheduler, src/src/scheduler.py, with the block *)
(* manager it drives.  It runs on one asyncio loop: a tick (_schedule_tick)*)
(* is one callback without an await, so add_request and the cancellation   *)
(* of a caller happen between ticks.  A tick is modelled loop iteration by *)
(* loop iteration, pc saying where it is.                                  *)
(*                                                                         *)
(* Left out: token values (the code appends a placeholder), the stop       *)
(* strings (compared with the empty string, so never found), the KV cache  *)
(* (the scheduler stores it and never calls it), time and logging.         *)
(***************************************************************************)
EXTENDS BlockManager, FiniteSets

CONSTANTS
  Req,             \* the SequenceGroups ever submitted
  PromptLen,       \* PromptLen[r]: input_ids.shape[1]
  MaxTokens,       \* MaxTokens[r]: max_tokens
  BlockSize,       \* config.block_size
  MaxNumSeqs,      \* config.max_num_seqs; 0 is no limit
  SwapMode,        \* config.preemption_mode == "swap"
  AddressReuse     \* may a request id be used again (see AddRequest)?

ASSUME SchedulerAssumption ==
  /\ IsFiniteSet(Req)
  /\ PromptLen \in [Req -> Nat]
  /\ MaxTokens \in [Req -> Nat]
  /\ BlockSize \in Nat \ {0}
  /\ MaxNumSeqs \in Nat
  /\ SwapMode \in BOOLEAN
  /\ AddressReuse \in BOOLEAN

VARIABLES
  waiting,         \* self.waiting, a deque
  running,         \* self.running, a list
  preempted,       \* self.preempted, a list
  status,          \* seq.status; "new" before add_request
  generated,       \* len(seq.generated_tokens)
  blockIds,        \* seq.block_ids
  future,          \* seq.completion_future
  reqId,           \* seq.request_id, as the request that first had it
  ticks,           \* the _schedule_tick callbacks the loop still has to run
  pc,              \* where the running tick is, "idle" between callbacks
  batch            \* what is left of list(self.running) in _run_step

queueVars == <<waiting, running, preempted>>
seqVars == <<status, generated, blockIds, future, reqId>>
tickVars == <<ticks, pc, batch>>
vars == <<freeIds, isFree, refCount, swapBlocks, waiting, running, preempted,
          status, generated, blockIds, future, reqId, ticks, pc, batch>>

Status == {"new", "waiting", "running", "preempted", "finished"}

TypeOK ==
  /\ BMTypeOK
  /\ waiting \in Seq(Req)
  /\ running \in Seq(Req)
  /\ preempted \in Seq(Req)
  /\ status \in [Req -> Status]
  /\ generated \in [Req -> Nat]
  /\ blockIds \in [Req -> Seq(Block)]
  /\ future \in [Req -> {"pending", "done", "cancelled"}]
  /\ reqId \in [Req -> Req]
  /\ ticks \in Nat
  /\ pc \in {"idle", "preempt", "schedule", "run"}
  /\ batch \in Seq(Req)

Init ==
  /\ BMInit
  /\ waiting = <<>> /\ running = <<>> /\ preempted = <<>>
  /\ status = [r \in Req |-> "new"]
  /\ generated = [r \in Req |-> 0]
  /\ blockIds = [r \in Req |-> <<>>]
  /\ future = [r \in Req |-> "pending"]
  /\ reqId = [r \in Req |-> r]
  /\ ticks = 0 /\ pc = "idle" /\ batch = <<>>

----------------------------------------------------------------------------
TotalLen(r) == PromptLen[r] + generated[r]

(* Mutant: rounds down. *)
BlocksForFull(tokens) == tokens \div BlockSize

BlocksFor(tokens) == (tokens + BlockSize - 1) \div BlockSize

(* One token more than the sequence has: room for the next one. *)
Needed(r) == BlocksFor(TotalLen(r) + 1)

(* Mutant: off by one. *)
HasSeatOneMore == MaxNumSeqs = 0 \/ Len(running) <= MaxNumSeqs

HasSeat == MaxNumSeqs = 0 \/ Len(running) < MaxNumSeqs

CanAdd(r) == HasSeat /\ Needed(r) <= Len(freeIds)

HeadFits == waiting # <<>> /\ CanAdd(Head(waiting))

(* max(running, key=total_len) is the first of the longest. *)
IsVictim(i) ==
  /\ \A j \in DOMAIN running : TotalLen(running[j]) <= TotalLen(running[i])
  /\ \A j \in 1 .. i - 1 : TotalLen(running[j]) < TotalLen(running[i])

(* list.remove compares each earlier element with the one to remove.  The  *)
(* dataclass equality gets past the request id only when it is the same,   *)
(* and then asks a tensor of more than one element for its truth value,    *)
(* which raises RuntimeError.                                              *)
RemoveRaises(i) ==
  \E j \in 1 .. i - 1 :
    /\ reqId[running[j]] = reqId[running[i]]
    /\ PromptLen[running[j]] # 1 \/ PromptLen[running[i]] # 1

----------------------------------------------------------------------------
(* add_request.  The engine's request id is "gen-" and the address of the  *)
(* prompt.  Two requests have the same id when they have the same prompt   *)
(* object (strings of one character are unique objects in CPython), or     *)
(* when the caller of the first is gone, its prompt freed and the address  *)
(* used again while its sequence is still in the scheduler.                *)
AddRequest(r) ==
  /\ pc = "idle"
  /\ status[r] = "new"
  /\ waiting' = Append(waiting, r)
  /\ status' = [status EXCEPT ![r] = "waiting"]
  /\ \/ UNCHANGED reqId
     \/ /\ AddressReuse
        /\ \E q \in Req :
             /\ status[q] # "new"
             /\ \A p \in Req : (reqId[p] = reqId[q] /\ future[p] = "pending")
                                 => PromptLen[p] = PromptLen[r]
             /\ reqId' = [reqId EXCEPT ![r] = reqId[q]]
  /\ ticks' = ticks + 1
  /\ UNCHANGED <<running, preempted, generated, blockIds, future, pc, batch, bmVars>>

(* The caller gives up (a timeout around generate_text, or the handler is  *)
(* cancelled): asyncio cancels the future it awaits; the sequence stays.   *)
Cancel(r) ==
  /\ pc = "idle"
  /\ status[r] # "new"
  /\ future[r] = "pending"
  /\ future' = [future EXCEPT ![r] = "cancelled"]
  /\ UNCHANGED <<queueVars, status, generated, blockIds, reqId, tickVars, bmVars>>

StartTick ==
  /\ pc = "idle"
  /\ ticks > 0
  /\ ticks' = ticks - 1
  /\ pc' = "preempt"
  /\ UNCHANGED <<queueVars, seqVars, batch, bmVars>>

----------------------------------------------------------------------------
(* _preempt: what both ways out of an iteration do to the blocks. *)
MustPreempt ==
  /\ pc = "preempt"
  /\ waiting # <<>> /\ ~HeadFits

(* Mutants: block_ids is not cleared; the blocks are not given back. *)
GiveUpBlocksNoClear(r) ==
  /\ IF SwapMode THEN SwapOut(blockIds[r]) ELSE Free(blockIds[r])
  /\ UNCHANGED blockIds

GiveUpBlocksLeaked(r) ==
  /\ blockIds' = [blockIds EXCEPT ![r] = <<>>]
  /\ UNCHANGED bmVars

GiveUpBlocks(r) ==
  /\ IF SwapMode THEN SwapOut(blockIds[r]) ELSE Free(blockIds[r])
  /\ blockIds' = [blockIds EXCEPT ![r] = <<>>]

(* Mutant: the status is set for swap mode only (line 114 dropped). *)
PreemptOneStatusLeft ==
  /\ MustPreempt
  /\ \E i \in DOMAIN running :
       /\ IsVictim(i) /\ ~RemoveRaises(i)
       /\ GiveUpBlocks(running[i])
       /\ running' = RemoveAt(running, i)
       /\ preempted' = Append(preempted, running[i])
  /\ UNCHANGED <<waiting, status, generated, future, reqId, tickVars>>

PreemptOne ==
  /\ MustPreempt
  /\ \E i \in DOMAIN running :
       /\ IsVictim(i)
       /\ ~RemoveRaises(i)
       /\ GiveUpBlocks(running[i])
       /\ running' = RemoveAt(running, i)
       /\ preempted' = Append(preempted, running[i])
       /\ status' = [status EXCEPT ![running[i]] = "preempted"]
  /\ UNCHANGED <<waiting, generated, future, reqId, tickVars>>

(* The exception ends the tick: no scheduling, no next tick. *)
PreemptRaises ==
  /\ MustPreempt
  /\ \E i \in DOMAIN running :
       /\ IsVictim(i)
       /\ RemoveRaises(i)
       /\ GiveUpBlocks(running[i])
       /\ status' = IF SwapMode THEN [status EXCEPT ![running[i]] = "preempted"]
                                ELSE status
  /\ pc' = "idle"
  /\ UNCHANGED <<queueVars, generated, future, reqId, ticks, batch>>

PreemptDone ==
  /\ pc = "preempt"
  /\ waiting = <<>> \/ HeadFits \/ running = <<>>
  /\ pc' = "schedule"
  /\ UNCHANGED <<queueVars, seqVars, ticks, batch, bmVars>>

----------------------------------------------------------------------------
(* _schedule *)
ScheduleOne ==
  /\ pc = "schedule"
  /\ HeadFits
  /\ LET r == Head(waiting)
         n == BlocksFor(TotalLen(r))
     IN  /\ Allocate(n)
         /\ blockIds' = [blockIds EXCEPT ![r] = Popped(n)]
         /\ status' = [status EXCEPT ![r] = "running"]
         /\ running' = Append(running, r)
  /\ waiting' = Tail(waiting)
  /\ UNCHANGED <<preempted, generated, future, reqId, tickVars>>

(* Mutant: a step without sequences asks for the next tick as well. *)
ScheduleDoneNoReturn ==
  /\ pc = "schedule" /\ ~HeadFits
  /\ pc' = "run" /\ batch' = running
  /\ UNCHANGED <<queueVars, seqVars, ticks, bmVars>>

(* _run_step returns at once, without another tick, if nothing runs. *)
ScheduleDone ==
  /\ pc = "schedule"
  /\ ~HeadFits
  /\ pc' = IF running = <<>> THEN "idle" ELSE "run"
  /\ batch' = running
  /\ UNCHANGED <<queueVars, seqVars, ticks, bmVars>>

----------------------------------------------------------------------------
(* _run_step over the copy of the running list *)

(* Mutant: one token early. *)
ExhaustedEarly(r) == generated[r] + 1 >= MaxTokens[r]

Exhausted(r) == generated[r] >= MaxTokens[r]

(* Mutant: set_result without asking done(). *)
ResolvedAlways(f) == "done"

Resolved(f) == IF f = "pending" THEN "done" ELSE f

(* _finish of a sequence that has all its tokens. *)
RunFinish ==
  /\ pc = "run" /\ batch # <<>>
  /\ LET r == Head(batch)
     IN  /\ Exhausted(r)
         /\ \E i \in DOMAIN running :
              /\ running[i] = r
              /\ ~RemoveRaises(i)
              /\ running' = RemoveAt(running, i)
         /\ Free(blockIds[r])
         /\ blockIds' = [blockIds EXCEPT ![r] = <<>>]
         /\ status' = [status EXCEPT ![r] = "finished"]
         /\ future' = [future EXCEPT ![r] = Resolved(@)]
  /\ batch' = Tail(batch)
  /\ UNCHANGED <<waiting, preempted, generated, reqId, ticks, pc>>

(* The status is set, and then running.remove raises and ends the tick. *)
FinishRaises ==
  /\ pc = "run" /\ batch # <<>>
  /\ LET r == Head(batch)
     IN  /\ Exhausted(r)
         /\ \E i \in DOMAIN running : running[i] = r /\ RemoveRaises(i)
         /\ status' = [status EXCEPT ![r] = "finished"]
  /\ pc' = "idle"
  /\ batch' = <<>>
  /\ UNCHANGED <<queueVars, generated, blockIds, future, reqId, ticks, bmVars>>

RunGenerate ==
  /\ pc = "run" /\ batch # <<>>
  /\ ~Exhausted(Head(batch))
  /\ generated' = [generated EXCEPT ![Head(batch)] = @ + 1]
  /\ batch' = Tail(batch)
  /\ UNCHANGED <<queueVars, status, blockIds, future, reqId, ticks, pc, bmVars>>

(* Mutants: the next tick only for waiting sequences; one per sequence. *)
RunDoneIfWaiting ==
  /\ pc = "run" /\ batch = <<>>
  /\ ticks' = ticks + (IF waiting = <<>> THEN 0 ELSE 1)
  /\ pc' = "idle"
  /\ UNCHANGED <<queueVars, seqVars, batch, bmVars>>

RunDonePerSequence ==
  /\ pc = "run" /\ batch = <<>>
  /\ ticks' = ticks + Len(running)
  /\ pc' = "idle"
  /\ UNCHANGED <<queueVars, seqVars, batch, bmVars>>

(* The else of the for loop is always reached: it has no break. *)
RunDone ==
  /\ pc = "run" /\ batch = <<>>
  /\ ticks' = ticks + 1
  /\ pc' = "idle"
  /\ UNCHANGED <<queueVars, seqVars, batch, bmVars>>

----------------------------------------------------------------------------
Tick ==
  \/ StartTick
  \/ PreemptOne \/ PreemptRaises \/ PreemptDone
  \/ ScheduleOne \/ ScheduleDone
  \/ RunFinish \/ FinishRaises \/ RunGenerate \/ RunDone

(* The loop waits for events when no callback is pending. *)
Quiesced ==
  /\ pc = "idle" /\ ticks = 0
  /\ \A r \in Req : status[r] # "new"
  /\ UNCHANGED vars

Next ==
  \/ Tick
  \/ \E r \in Req : AddRequest(r) \/ Cancel(r)
  \/ Quiesced

Spec == Init /\ [][Next]_vars

(* asyncio runs every callback it has accepted. *)
FairSpec == Spec /\ WF_vars(Tick)

----------------------------------------------------------------------------
(* A block is in the free list or belongs to one sequence, never to two    *)
(* and never lost, whatever sequence of allocations, evictions (of either  *)
(* mode), completions and aborted ticks went before; a held block has one  *)
(* reference, so that the free that follows really frees it.               *)
BlockAccounting ==
  /\ IsInjective(freeIds)
  /\ \A r \in Req :
       /\ IsInjective(blockIds[r])
       /\ Range(blockIds[r]) \cap Range(freeIds) = {}
       /\ \A q \in Req \ {r} : Range(blockIds[r]) \cap Range(blockIds[q]) = {}
       /\ \A b \in Range(blockIds[r]) : refCount[b] = 1
  /\ \A b \in Block :
       /\ b \in Range(freeIds) \/ \E r \in Req : b \in Range(blockIds[r])
       /\ isFree[b] <=> b \in Range(freeIds)

Pool == INSTANCE BlockPool WITH
          Owner <- Req, Block <- Block,
          free <- Range(freeIds), owned <- [r \in Req |-> Range(blockIds[r])]

(* Under the scheduler's calls the block manager is the abstract pool, in  *)
(* both preemption modes.                                                  *)
RefinesPool == Pool!PoolSpec

(* A sequence is in the queue its status names, once, and in no other; the *)
(* sequences still to be stepped are among the running ones.               *)
PlacedOnce ==
  /\ IsInjective(waiting) /\ IsInjective(running) /\ IsInjective(preempted)
  /\ IsInjective(batch) /\ (pc = "run" => Range(batch) \subseteq Range(running))
  /\ \A r \in Req :
       /\ status[r] = "waiting" <=> r \in Range(waiting)
       /\ status[r] = "running" <=> r \in Range(running)
       /\ status[r] = "preempted" <=> r \in Range(preempted)

(* Only running sequences have blocks, and these cover the prompt.         *)
RunningCovered ==
  \A r \in Req :
    IF r \in Range(running) THEN PromptLen[r] <= BlockSize * Len(blockIds[r])
                            ELSE blockIds[r] = <<>>

(* A caller gets an answer only when its sequence finished, the answer has *)
(* exactly max_tokens tokens, and no finished sequence leaves its caller   *)
(* waiting.                                                                *)
AnswersComplete ==
  \A r \in Req :
    /\ generated[r] <= MaxTokens[r]
    /\ future[r] = "done" => status[r] = "finished"
    /\ status[r] = "finished" => future[r] # "pending" /\ generated[r] = MaxTokens[r]

(* max_num_seqs bounds the running list at every point of a tick.          *)
SeatsRespected == MaxNumSeqs # 0 => Len(running) <= MaxNumSeqs

(* Fits in an empty cache. *)
Feasible(r) == Needed(r) <= TotalBlocks

(* Between ticks, if the loop has no tick left to run, then nothing runs   *)
(* and nothing that could ever be admitted heads the queue: the chain of   *)
(* ticks never stops too early.                                            *)
NoLostWakeup ==
  (pc = "idle" /\ ticks = 0) =>
    /\ running = <<>>
    /\ waiting # <<>> => ~Feasible(Head(waiting))

(* Evictions are not in vain: when _preempt returns, a head of the queue   *)
(* that fits the cache at all can be admitted.                             *)
PreemptMakesRoom ==
  [][(pc = "preempt" /\ pc' = "schedule" /\ waiting # <<>> /\ Feasible(Head(waiting)))
       => HeadFits]_vars

(* A future is set at most once, and a cancelled one stays cancelled: the  *)
(* zombie sequence of a cancelled caller finishes without raising.         *)
FutureSetOnce ==
  [][\A r \in Req : future[r] # "pending" => future'[r] = future[r]]_vars

(* Each request keeps at most one tick pending: the chains that every      *)
(* add_request starts end again and never multiply.                        *)
OneChainPerRequest == ticks <= Cardinality({r \in Req : status[r] # "new"})

(* What is still to be done: requests to come, sequences to serve, callers *)
(* to answer and tokens to generate.  All four sets are finite.            *)
ToDo ==
  <<{r \in Req : status[r] = "new"},
    {r \in Req : status[r] = "new" \/ r \in Range(waiting) \/ r \in Range(running)},
    {r \in Req : future[r] = "pending"},
    UNION {{r} \X (generated[r] + 1 .. MaxTokens[r]) : r \in Req}>>

(* The ticks due, each worth two, with the one under way; and how far it   *)
(* is.  A step that ran through its sequences asks for the next tick.      *)
Due ==
  2 * ticks + (IF pc = "idle" THEN 0 ELSE IF pc = "run" /\ batch = <<>> THEN 3 ELSE 1)
Stage ==
  IF pc = "preempt" THEN Len(waiting) + 2
  ELSE IF pc = "schedule" THEN Len(waiting) + 1 ELSE 0

(* Nothing goes round in circles: what was done is never to be done again, *)
(* and a step that does none of it brings a tick nearer to its end and     *)
(* starts none.  With finitely many requests the loop is idle in the end,  *)
(* even if evictions and completions raise.                                *)
StepsSpend ==
  [][/\ \A i \in 1 .. 4 : ToDo'[i] \subseteq ToDo[i]
     /\ ToDo' = ToDo => Due' < Due \/ (Due' = Due /\ Stage' < Stage)]_vars

(* If every request fits the cache, each one submitted is finished or has  *)
(* been preempted in the end: the queue does not starve.                   *)
EventuallySettled ==
  \A r \in Req : status[r] = "waiting" ~> status[r] \in {"finished", "preempted"}

Completions == Cardinality({r \in Req : status[r] = "finished"})

(* Whoever is evicted makes room for a head of the queue, and as long as   *)
(* there is one, one sequence more than by now finishes in the end, if     *)
(* every request fits the cache: no eviction is in vain, however many      *)
(* finished before it.                                                     *)
SomeoneFinishes ==
  \A n \in 0 .. Cardinality(Req) :
    (waiting # <<>> /\ Completions = n) ~> Completions > n

(* The chains of ticks end: the loop is left alone once there is nothing   *)
(* to do (requests are finitely many).                                     *)
LoopGoesIdle == <>[](ticks = 0 /\ pc = "idle")

----------------------------------------------------------------------------
(* "Swapped sequences are re-added to waiting queue when space is freed."  *)
(* (scheduler.py:66): one does not stay behind in an empty system.         *)
PreemptedReadded ==
  \A r \in Req :
    (r \in Range(preempted) /\ running = <<>> /\ waiting = <<>>)
      ~> r \notin Range(preempted)

(* "Dynamic allocation as sequences grow" (docs/architecture.md:47): the   *)
(* blocks of a running sequence hold its tokens.                           *)
BlocksGrow ==
  \A r \in Range(running) : TotalLen(r) <= BlockSize * Len(blockIds[r])

(* "All sequences continue - schedule next tick" (scheduler.py:151): while *)
(* sequences run, a tick is pending.                                       *)
TickWhileRunning == (pc = "idle" /\ running # <<>>) => ticks > 0

=============================================================================
