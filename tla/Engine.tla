------------------------------- MODULE Engine -------------------------------
(***************************************************************************)
(* The HTTP handlers of src/src/api_server.py and the engine they call,    *)
(* src/src/engine.py, on the event loop they share with the scheduler.  A  *)
(* completions request may have several prompts: asyncio.gather makes a    *)
(* task of generate_text for each, which all start in the next round of    *)
(* the loop, one after the other.  A chat request awaits generate_text in  *)
(* the handler itself.                                                     *)
(*                                                                         *)
(* Left out: request validation, tokenizing and decoding, usage counts and *)
(* the wire format.  The words of a streamed chat answer are sent when the *)
(* whole answer is there, so a streamed answer is an answer.               *)
(***************************************************************************)
EXTENDS Scheduler

CONSTANTS
  Handler,         \* the HTTP requests
  PromptsOf,       \* PromptsOf[h]: the prompts of h, in order
  IsChat,          \* IsChat[h]: h is a chat request, which has one prompt
  MayNotEncode     \* prompts on which the tokenizer may raise

ASSUME EngineAssumption ==
  /\ PromptsOf \in [Handler -> Seq(Req)]
  /\ IsChat \in [Handler -> BOOLEAN]
  /\ \A h \in Handler : IsChat[h] => Len(PromptsOf[h]) = 1
  /\ \A h \in Handler : IsInjective(PromptsOf[h])
  /\ \A g, h \in Handler : g # h => Range(PromptsOf[g]) \cap Range(PromptsOf[h]) = {}
  /\ MayNotEncode \subseteq Req

VARIABLES
  started,         \* engine._started
  http,            \* http[h]: where the handler of h is
  task,            \* task[r]: where generate_text for the prompt r is
  todo             \* what the present round of the loop still does, prompt by prompt

engineVars == <<vars, started, http, task, todo>>

HttpState == {"none", "opened", "waiting", "answered", "failed", "gone"}
TaskState == {"none", "awaiting", "returned", "raised", "cancelled"}

EngineTypeOK ==
  /\ started \in BOOLEAN
  /\ http \in [Handler -> HttpState]
  /\ task \in [Req -> TaskState]
  /\ todo \in Seq({"start", "cancel"} \X Req)

EngineInit ==
  /\ Init
  /\ started = TRUE
  /\ http = [h \in Handler |-> "none"]
  /\ task = [r \in Req |-> "none"]
  /\ todo = <<>>

(* No callback is running: the loop may run any that is ready. *)
Between == pc = "idle" /\ todo = <<>>

Prompts(h) == Range(PromptsOf[h])

----------------------------------------------------------------------------
(* completions: the handler runs up to the await of gather. *)
OpenCompletions(h) ==
  /\ Between
  /\ http[h] = "none" /\ ~IsChat[h]
  /\ http' = [http EXCEPT ![h] = "opened"]
  /\ UNCHANGED <<vars, started, task, todo>>

(* generate_text begins for every prompt of the request: in the tasks of   *)
(* gather, which follow each other in the loop, or in the chat handler.    *)
StartPrompts(h) ==
  /\ Between
  /\ http[h] = IF IsChat[h] THEN "none" ELSE "opened"
  /\ http' = [http EXCEPT ![h] = "waiting"]
  /\ todo' = [i \in DOMAIN PromptsOf[h] |-> <<"start", PromptsOf[h][i]>>]
  /\ UNCHANGED <<vars, started, task>>

(* Mutant: a chat handler is left in the state of its task. *)
EndTaskSwapped(r, outcome, answer) ==
  /\ task' = [task EXCEPT ![r] = outcome]
  /\ http' = [h \in Handler |->
                IF IsChat[h] /\ r \in Prompts(h) THEN outcome ELSE http[h]]

(* The end of generate_text is the end of the handler of a chat request.   *)
(* A task of gather only leaves its result there.                          *)
EndTask(r, outcome, answer) ==
  /\ task' = [task EXCEPT ![r] = outcome]
  /\ http' = [h \in Handler |->
                IF IsChat[h] /\ r \in Prompts(h) THEN answer ELSE http[h]]

StartOne ==
  /\ todo # <<>> /\ Head(todo)[1] = "start"
  /\ LET r == Head(todo)[2]
     IN  /\ started
         /\ AddRequest(r)
         /\ task' = [task EXCEPT ![r] = "awaiting"]
  /\ todo' = Tail(todo)
  /\ UNCHANGED <<started, http>>

(* The engine is not started, or encoding the prompt raises. *)
StartRaises ==
  /\ todo # <<>> /\ Head(todo)[1] = "start"
  /\ LET r == Head(todo)[2]
     IN  /\ ~started \/ r \in MayNotEncode
         /\ EndTask(r, "raised", "failed")
  /\ todo' = Tail(todo)
  /\ UNCHANGED <<vars, started>>

(* The future is done: the task runs on to the return of the text. *)
Resume(r) ==
  /\ Between
  /\ task[r] = "awaiting" /\ future[r] = "done"
  /\ EndTask(r, "returned", "answered")
  /\ UNCHANGED <<vars, started, todo>>

(* Mutant: the first result is enough. *)
RespondFirst(h) ==
  /\ Between
  /\ http[h] = "waiting"
  /\ \E r \in Prompts(h) : task[r] = "returned"
  /\ http' = [http EXCEPT ![h] = "answered"]
  /\ UNCHANGED <<vars, started, task, todo>>

Respond(h) ==
  /\ Between
  /\ http[h] = "waiting"
  /\ \A r \in Prompts(h) : task[r] = "returned"
  /\ http' = [http EXCEPT ![h] = "answered"]
  /\ UNCHANGED <<vars, started, task, todo>>

(* Mutant: an exception is kept until every task has ended. *)
FailLast(h) ==
  /\ Between
  /\ http[h] = "waiting"
  /\ \A r \in Prompts(h) : task[r] = "raised"
  /\ http' = [http EXCEPT ![h] = "failed"]
  /\ UNCHANGED <<vars, started, task, todo>>

(* The first exception ends the await of gather; the other tasks go on. *)
Fail(h) ==
  /\ Between
  /\ http[h] = "waiting"
  /\ \E r \in Prompts(h) : task[r] = "raised"
  /\ http' = [http EXCEPT ![h] = "failed"]
  /\ UNCHANGED <<vars, started, task, todo>>

----------------------------------------------------------------------------
(* The handler is cancelled, and gather passes it on to its tasks. *)
CancelHandler(h) ==
  /\ Between
  /\ http[h] \in {"opened", "waiting"}
  /\ http' = [http EXCEPT ![h] = "gone"]
  /\ todo' = [i \in DOMAIN PromptsOf[h] |-> <<"cancel", PromptsOf[h][i]>>]
  /\ UNCHANGED <<vars, started, task>>

(* Mutant: the future is cancelled though it has its result. *)
CancelOneLate ==
  /\ todo # <<>> /\ Head(todo)[1] = "cancel"
  /\ LET r == Head(todo)[2]
     IN  /\ future' = [future EXCEPT ![r] = "cancelled"]
         /\ task' = [task EXCEPT ![r] = "cancelled"]
  /\ todo' = Tail(todo)
  /\ UNCHANGED <<bmVars, queueVars, status, generated, blockIds, reqId, tickVars,
                 started, http>>

(* A task that has not begun never will.  One whose future has its result  *)
(* but that has not run yet is cancelled as well: the result is lost.      *)
CancelOne ==
  /\ todo # <<>> /\ Head(todo)[1] = "cancel"
  /\ LET r == Head(todo)[2]
     IN  /\ IF task[r] = "awaiting" /\ future[r] = "pending"
            THEN Cancel(r) ELSE UNCHANGED vars
         /\ task' = [task EXCEPT ![r] =
                       IF @ \in {"none", "awaiting"} THEN "cancelled" ELSE @]
  /\ todo' = Tail(todo)
  /\ UNCHANGED <<started, http>>

(* shutdown: the scheduler is not told, its ticks go on. *)
Shutdown ==
  /\ Between
  /\ started
  /\ started' = FALSE
  /\ UNCHANGED <<vars, http, task, todo>>

LoopTick ==
  /\ todo = <<>>
  /\ Tick
  /\ UNCHANGED <<started, http, task, todo>>

(* Every handler has run as far as it gets. *)
EngineQuiesced ==
  /\ Between /\ ticks = 0
  /\ \A h \in Handler : http[h] \notin {"none", "opened"}
  /\ UNCHANGED engineVars

----------------------------------------------------------------------------
EngineNext ==
  \/ LoopTick \/ StartOne \/ StartRaises \/ CancelOne
  \/ \E h \in Handler :
       OpenCompletions(h) \/ StartPrompts(h) \/ Respond(h) \/ Fail(h) \/ CancelHandler(h)
  \/ \E r \in Req : Resume(r)
  \/ Shutdown
  \/ EngineQuiesced

EngineSpec == EngineInit /\ [][EngineNext]_engineVars

(* The loop runs every callback that is ready; clients need not send       *)
(* requests, and nobody has to cancel one.                                 *)
FairEngineSpec ==
  /\ EngineSpec
  /\ WF_engineVars(LoopTick)
  /\ WF_engineVars(StartOne \/ StartRaises \/ CancelOne)
  /\ \A h \in Handler :
       /\ WF_engineVars(http[h] = "opened" /\ StartPrompts(h))
       /\ WF_engineVars(Respond(h) \/ Fail(h))
  /\ \A r \in Req : WF_engineVars(Resume(r))

----------------------------------------------------------------------------
(* A request is answered with the whole text of every prompt, whichever of *)
(* them finished first, and whoever was cancelled or evicted meanwhile.    *)
AnsweredWhole ==
  \A h \in Handler : http[h] = "answered" =>
    \A r \in Prompts(h) : status[r] = "finished" /\ generated[r] = MaxTokens[r]

(* However handlers open, fail and are cancelled, the engine drives the    *)
(* scheduler as Scheduler!Next says: every sequence is submitted once, and *)
(* cancelled only while its future is pending.                             *)
ImplementsScheduler == Spec

(* A handler that waits ends, unless a prompt of it has been preempted:    *)
(* after a shutdown too, for the scheduler goes on.                        *)
HandlerEnds ==
  \A h \in Handler :
    http[h] = "waiting"
      ~> (http[h] # "waiting" \/ \E r \in Prompts(h) : status[r] = "preempted")

(* The sequences a cancelled or failed handler leaves behind end as well,  *)
(* and give back their blocks for good.                                    *)
ZombiesEnd ==
  \A h \in Handler :
    http[h] \in {"gone", "failed"}
      ~> [](\A r \in Prompts(h) : blockIds[r] = <<>>)

=============================================================================
