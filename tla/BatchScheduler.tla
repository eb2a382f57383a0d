--------------------------- MODULE BatchScheduler ---------------------------
(***************************************************************************)
(* ContinuousBatchScheduler of src/src/vllm_rocm/scheduler.py.  Threads    *)
(* call add_request, schedule and update_generated_tokens; each holds the  *)
(* lock from its first statement to its last.  schedule is modelled loop   *)
(* iteration by loop iteration, with pc # "unlocked" while it has the lock.*)
(*                                                                         *)
(* The class has no caller in the repository.  It is modelled with the one *)
(* its methods ask for: a thread runs the batch that schedule returned and *)
(* reports the tokens of each of its sequences once, in any order.         *)
(***************************************************************************)
EXTENDS FiniteSets, Lists

CONSTANTS
  Req,               \* the Sequences ever created
  PromptLen,         \* PromptLen[r]: len(prompt_tokens)
  MaxTokens,         \* MaxTokens[r]: max_tokens
  Priority,          \* Priority[r]: priority
  MaxBatchSize,      \* max_batch_size
  MaxNumSeqs,        \* max_num_seqs
  MaxTotalTokens,    \* max_total_tokens
  Budget,            \* max_total_tokens * preemption_budget, rounded down
  MaxStep,           \* most tokens a step reports for a sequence
  Pipelined          \* is schedule called while results are outstanding?

ASSUME BatchAssumption ==
  /\ IsFiniteSet(Req)
  /\ PromptLen \in [Req -> Nat] /\ MaxTokens \in [Req -> Nat]
  /\ Priority \in [Req -> Int]
  /\ MaxBatchSize \in Nat /\ MaxNumSeqs \in Nat
  /\ MaxTotalTokens \in Nat /\ Budget \in 0 .. MaxTotalTokens
  /\ MaxStep \in Nat \ {0} /\ Pipelined \in BOOLEAN

VARIABLES
  waiting,           \* self.waiting
  running,           \* self.running: a dict keeps the order of insertion
  finished,          \* self.finished
  status,            \* seq.status; "new" before add_request
  generated,         \* len(seq.generated_tokens)
  created,           \* the sequences in the order of seq.created_at
  pc,                \* where the thread inside schedule is
  batch,             \* schedule's batch
  rest,              \* what is left of schedule's copy of the waiting list
  inFlight           \* sequences of returned batches without their result

vars == <<waiting, running, finished, status, generated, created, pc, batch, rest, inFlight>>
passVars == <<pc, batch, rest, inFlight>>

Status == {"new", "waiting", "running", "preempted", "finished"}

TypeOK ==
  /\ waiting \in Seq(Req) /\ running \in Seq(Req) /\ finished \in Seq(Req)
  /\ status \in [Req -> Status]
  /\ generated \in [Req -> Nat]
  /\ created \in Seq(Req)
  /\ pc \in {"unlocked", "admit", "preempt"}
  /\ batch \in Seq(Req) /\ rest \in Seq(Req)
  /\ inFlight \in SUBSET Req

Init ==
  /\ waiting = <<>> /\ running = <<>> /\ finished = <<>> /\ created = <<>>
  /\ status = [r \in Req |-> "new"]
  /\ generated = [r \in Req |-> 0]
  /\ pc = "unlocked" /\ batch = <<>> /\ rest = <<>> /\ inFlight = {}

----------------------------------------------------------------------------
TotalTokens(r) == PromptLen[r] + generated[r]

(* sum(s.total_tokens for s in list) *)
Tokens(list) == SumOf([i \in DOMAIN list |-> TotalTokens(list[i])])

Age(r) == CHOOSE i \in DOMAIN created : created[i] = r

(* Mutant: the lowest priority first. *)
ByPriorityUp(s) ==
  \A i, j \in DOMAIN s : i < j => Priority[s[i]] <= Priority[s[j]]

ByPriority(s) ==
  \A i, j \in DOMAIN s : i < j => Priority[s[i]] >= Priority[s[j]]

(* The orders a stable sort can bring the list s into: there is one.       *)
StableSorts(s) ==
  {p \in Bijection(DOMAIN s, DOMAIN s) :
     /\ ByPriority([k \in DOMAIN s |-> s[p[k]]])
     /\ \A i, j \in DOMAIN s :
          (i < j /\ Priority[s[p[i]]] = Priority[s[p[j]]]) => p[i] < p[j]}

HasSlot == Len(batch) < MaxBatchSize /\ Len(batch) + 1 <= MaxNumSeqs

Fits(r) == Tokens(batch) + TotalTokens(r) <= MaxTotalTokens

(* Mutant: stops as soon as the list is within max_total_tokens. *)
OverBudgetTotal == Tokens(batch) > MaxTotalTokens

OverBudget == Tokens(batch) > Budget

(* The first of sorted(batch, key = (priority, -created_at)). *)
IsVictim(i) ==
  \A j \in DOMAIN batch \ {i} :
    \/ Priority[batch[i]] < Priority[batch[j]]
    \/ /\ Priority[batch[i]] = Priority[batch[j]]
       /\ Age(batch[i]) > Age(batch[j])

(* list.remove(r), and del of the key of r. *)
Without(list, r) == RemoveAt(list, CHOOSE i \in DOMAIN list : list[i] = r)

----------------------------------------------------------------------------
AddRequest(r) ==
  /\ pc = "unlocked"
  /\ status[r] = "new"
  /\ waiting' = Append(waiting, r)
  /\ status' = [status EXCEPT ![r] = "waiting"]
  /\ created' = Append(created, r)
  /\ UNCHANGED <<running, finished, generated, passVars>>

StartPass ==
  /\ pc = "unlocked"
  /\ Pipelined \/ inFlight = {}
  /\ batch' = running
  /\ \E p \in StableSorts(waiting) :
       waiting' = [k \in DOMAIN waiting |-> waiting[p[k]]]
  /\ rest' = waiting'
  /\ pc' = "admit"
  /\ UNCHANGED <<running, finished, status, generated, created, inFlight>>

Admit ==
  /\ pc = "admit"
  /\ rest # <<>> /\ HasSlot /\ Fits(Head(rest))
  /\ LET r == Head(rest)
     IN  /\ status' = [status EXCEPT ![r] = "running"]
         /\ running' = Append(running, r)
         /\ batch' = Append(batch, r)
         /\ waiting' = Without(waiting, r)
  /\ rest' = Tail(rest)
  /\ UNCHANGED <<finished, generated, created, pc, inFlight>>

(* The next sequence does not fit: _maybe_preempt. *)
StartPreempt ==
  /\ pc = "admit"
  /\ rest # <<>> /\ HasSlot /\ ~Fits(Head(rest))
  /\ pc' = "preempt"
  /\ UNCHANGED <<waiting, running, finished, status, generated, created, batch, rest, inFlight>>

(* Mutants: the victim stays in the batch; it is forgotten; the token it   *)
(* may be running for is taken back.                                       *)
PreemptKeepsBatch ==
  /\ pc = "preempt" /\ OverBudget
  /\ \E i \in DOMAIN batch :
       /\ IsVictim(i)
       /\ status' = [status EXCEPT ![batch[i]] = "preempted"]
       /\ running' = Without(running, batch[i])
       /\ waiting' = Append(waiting, batch[i])
  /\ UNCHANGED <<finished, generated, created, passVars>>

PreemptForgets ==
  /\ pc = "preempt" /\ OverBudget
  /\ \E i \in DOMAIN batch :
       /\ IsVictim(i)
       /\ status' = [status EXCEPT ![batch[i]] = "preempted"]
       /\ running' = Without(running, batch[i])
       /\ batch' = RemoveAt(batch, i)
  /\ UNCHANGED <<waiting, finished, generated, created, pc, rest, inFlight>>

PreemptTakesBack ==
  /\ pc = "preempt" /\ OverBudget
  /\ \E i \in DOMAIN batch :
       /\ IsVictim(i)
       /\ status' = [status EXCEPT ![batch[i]] = "preempted"]
       /\ generated' = [generated EXCEPT ![batch[i]] = @ - 1]
       /\ running' = Without(running, batch[i])
       /\ batch' = RemoveAt(batch, i)
       /\ waiting' = Append(waiting, batch[i])
  /\ UNCHANGED <<finished, created, pc, rest, inFlight>>

Preempt ==
  /\ pc = "preempt"
  /\ OverBudget
  /\ \E i \in DOMAIN batch :
       /\ IsVictim(i)
       /\ status' = [status EXCEPT ![batch[i]] = "preempted"]
       /\ running' = Without(running, batch[i])
       /\ batch' = RemoveAt(batch, i)
       /\ waiting' = Append(waiting, batch[i])
  /\ UNCHANGED <<finished, generated, created, pc, rest, inFlight>>

(* After the evictions the sequence fits, and the loop goes on with it. *)
PreemptHelped ==
  /\ pc = "preempt"
  /\ ~OverBudget \/ batch = <<>>
  /\ Fits(Head(rest))
  /\ pc' = "admit"
  /\ UNCHANGED <<waiting, running, finished, status, generated, created, batch, rest, inFlight>>

(* The loop ends or breaks, and the lock is released. *)
EndPass ==
  /\ \/ pc = "admit" /\ (rest = <<>> \/ ~HasSlot)
     \/ pc = "preempt" /\ (~OverBudget \/ batch = <<>>) /\ ~Fits(Head(rest))
  /\ inFlight' = inFlight \cup Range(batch)
  /\ pc' = "unlocked" /\ batch' = <<>> /\ rest' = <<>>
  /\ UNCHANGED <<waiting, running, finished, status, generated, created>>

(* Mutant: a finished sequence stays in the dict. *)
UpdateKeepsRunning(r, n) ==
  /\ pc = "unlocked" /\ r \in inFlight
  /\ inFlight' = inFlight \ {r}
  /\ IF r \in Range(running)
     THEN /\ generated' = [generated EXCEPT ![r] = @ + n]
          /\ IF generated[r] + n >= MaxTokens[r]
             THEN /\ status' = [status EXCEPT ![r] = "finished"]
                  /\ finished' = Append(finished, r)
             ELSE UNCHANGED <<status, finished>>
     ELSE UNCHANGED <<generated, status, finished>>
  /\ UNCHANGED <<waiting, running, created, pc, batch, rest>>

(* update_generated_tokens: the tokens of a sequence that has been evicted *)
(* since are dropped.                                                      *)
Update(r, n) ==
  /\ pc = "unlocked"
  /\ r \in inFlight
  /\ inFlight' = inFlight \ {r}
  /\ IF r \in Range(running)
     THEN /\ generated' = [generated EXCEPT ![r] = @ + n]
          /\ IF generated[r] + n >= MaxTokens[r]
             THEN /\ status' = [status EXCEPT ![r] = "finished"]
                  /\ finished' = Append(finished, r)
                  /\ running' = Without(running, r)
             ELSE UNCHANGED <<status, finished, running>>
     ELSE UNCHANGED <<generated, status, finished, running>>
  /\ UNCHANGED <<waiting, created, pc, batch, rest>>

----------------------------------------------------------------------------
Pass == StartPass \/ Admit \/ StartPreempt \/ Preempt \/ PreemptHelped \/ EndPass

Next ==
  \/ Pass
  \/ \E r \in Req : AddRequest(r) \/ \E n \in 1 .. MaxStep : Update(r, n)

Spec == Init /\ [][Next]_vars

(* The serving thread calls schedule again and again, and reports what it  *)
(* ran.                                                                    *)
FairSpec ==
  /\ Spec
  /\ WF_vars(Pass)
  /\ \A r \in Req : WF_vars(\E n \in 1 .. MaxStep : Update(r, n))

----------------------------------------------------------------------------
(* A sequence is in the list its status names, once, and in no other, and  *)
(* all along a pass the batch is what the dict of running sequences holds. *)
PlacedOnce ==
  /\ IsInjective(waiting) /\ IsInjective(running) /\ IsInjective(finished)
  /\ \A r \in Req :
       /\ status[r] \in {"waiting", "preempted"} <=> r \in Range(waiting)
       /\ status[r] = "running" <=> r \in Range(running)
       /\ status[r] = "finished" <=> r \in Range(finished)
  /\ pc # "unlocked" => batch = running
  /\ Range(rest) \subseteq Range(waiting)

(* Neither limit on the number of sequences is ever exceeded.              *)
BatchBounded == Len(running) <= MaxBatchSize /\ Len(running) <= MaxNumSeqs

(* A sequence finishes when it has its tokens, and is never run again: one *)
(* in the system still lacks some, whether or not it was evicted.          *)
FinishedWhenDone ==
  \A r \in Req :
    /\ status[r] = "finished" => generated[r] >= MaxTokens[r]
    /\ status[r] \in {"waiting", "preempted", "running"} =>
         generated[r] = 0 \/ generated[r] < MaxTokens[r]

(* A sequence admitted for the first time overtakes no older one of the    *)
(* same or a higher priority that has also never run: the sort is stable,  *)
(* and admissions and evictions keep the order of the others.              *)
FirstComeFirstServed ==
  [][\A r, q \in Req :
       (/\ status[r] = "waiting" /\ status'[r] = "running"
        /\ status[q] = "waiting" /\ q # r /\ q \in Range(created))
         => Priority[q] < Priority[r] \/ (Priority[q] = Priority[r] /\ Age(q) > Age(r))]_vars

(* A pass ends with a free slot and sequences left over only if the next   *)
(* of them is larger than the reserve that preemption_budget keeps free,   *)
(* and, when nothing is left running, larger than the whole limit.         *)
ReserveAdmits ==
  [][(pc # "unlocked" /\ pc' = "unlocked" /\ HasSlot /\ rest # <<>>)
       => /\ TotalTokens(Head(rest)) > MaxTotalTokens - Budget
          /\ batch = <<>> => TotalTokens(Head(rest)) > MaxTotalTokens]_vars

(* What the sequence the pass is looking at still has to wait for.         *)
ToEvict ==
  IF pc = "preempt" THEN 1 + Len(batch)
  ELSE IF rest = <<>> \/ Fits(Head(rest)) THEN 0 ELSE 2 + Len(batch)

(* schedule returns, whatever it evicts and takes up on the way: with the  *)
(* lock held, every step is one of its own, and ends the pass, deals with  *)
(* a sequence for good, or brings the one at hand nearer to an answer.     *)
PassSpends ==
  [][pc # "unlocked" =>
       \/ pc' = "unlocked"
       \/ Len(rest') < Len(rest)
       \/ Len(rest') = Len(rest) /\ ToEvict' < ToEvict]_vars

(* If every sequence fits alone, each one added finishes, whatever evicts  *)
(* what: a pass never comes back empty-handed, and evicted tokens stay.    *)
EveryoneFinishes ==
  \A r \in Req : status[r] = "waiting" ~> status[r] = "finished"

=============================================================================
