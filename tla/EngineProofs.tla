---------------------------- MODULE EngineProofs ----------------------------
(***************************************************************************)
(* The engine and its HTTP handlers implement the scheduler's              *)
(* specification, so every theorem of SchedulerProofs holds of them, and a *)
(* request is answered with the whole text of each of its prompts.         *)
(***************************************************************************)
EXTENDS Engine, SchedulerProofs

(* What a callback still has to do concerns requests of one handler that   *)
(* has been opened.                                                        *)
TodoOpened ==
  \A i \in DOMAIN todo, h \in Handler :
    todo[i][2] \in Prompts(h) => http[h] \notin {"none", "opened"}

(* A prompt that is still to start has no result. *)
StartsFresh ==
  \A i \in DOMAIN todo : todo[i][1] = "start" => task[todo[i][2]] # "returned"

NotBegun ==
  \A h \in Handler : http[h] \in {"none", "opened"} =>
    \A r \in Prompts(h) : task[r] = "none"

AnsweredReturned ==
  \A h \in Handler : http[h] = "answered" =>
    \A r \in Prompts(h) : task[r] = "returned"

ReturnedDone == \A r \in Req : task[r] = "returned" => future[r] = "done"

EInv ==
  /\ EngineTypeOK
  /\ TodoOpened /\ StartsFresh /\ NotBegun /\ AnsweredReturned /\ ReturnedDone

----------------------------------------------------------------------------
LEMMA PromptsInReq ==
  ASSUME NEW h \in Handler
  PROVE  /\ PromptsOf[h] \in Seq(Req)
         /\ Prompts(h) \subseteq Req
         /\ \A i \in DOMAIN PromptsOf[h] : PromptsOf[h][i] \in Prompts(h)
<1>1. PromptsOf[h] \in Seq(Req)
  BY EngineAssumption
<1>. QED  BY <1>1, RangeOfSeq DEF Prompts, Range

(* A chat request is about the one prompt that ends. *)
LEMMA ChatPrompt ==
  ASSUME NEW h \in Handler, IsChat[h], NEW r \in Prompts(h)
  PROVE  Prompts(h) = {r}
<1>1. /\ PromptsOf[h] \in Seq(Req) /\ Len(PromptsOf[h]) = 1
  BY EngineAssumption
<1>2. DOMAIN PromptsOf[h] = 1 .. 1
  BY <1>1, LenProperties
<1>. QED  BY <1>2 DEF Prompts, Range

LEMMA TodoHead ==
  ASSUME EngineTypeOK, todo # <<>>
  PROVE  /\ Head(todo)[1] \in {"start", "cancel"} /\ Head(todo)[2] \in Req
         /\ 1 \in DOMAIN todo /\ Head(todo) = todo[1]
         /\ Tail(todo) \in Seq({"start", "cancel"} \X Req)
         /\ \A i \in DOMAIN Tail(todo) : i + 1 \in DOMAIN todo /\ Tail(todo)[i] = todo[i + 1]
<1>. DEFINE S == {"start", "cancel"} \X Req
<1>1. todo \in Seq(S)
  BY DEF EngineTypeOK
<1>2. /\ Head(todo) \in S /\ Tail(todo) \in Seq(S) /\ Head(todo) = todo[1]
      /\ Len(todo) \in Nat \ {0} /\ DOMAIN todo = 1 .. Len(todo)
      /\ Len(Tail(todo)) = Len(todo) - 1 /\ DOMAIN Tail(todo) = 1 .. Len(todo) - 1
      /\ \A i \in 1 .. Len(todo) - 1 : Tail(todo)[i] = todo[i + 1]
  BY <1>1, HeadTailProperties, LenProperties, EmptySeq
<1>. QED  BY <1>2

(* The queue of starts or of cancellations of a handler is well formed. *)
LEMMA TodoOf ==
  ASSUME NEW h \in Handler, NEW k \in {"start", "cancel"},
         todo' = [i \in DOMAIN PromptsOf[h] |-> <<k, PromptsOf[h][i]>>]
  PROVE  /\ todo' \in Seq({"start", "cancel"} \X Req)
         /\ \A i \in DOMAIN todo' : todo'[i][1] = k /\ todo'[i][2] \in Prompts(h)
<1>1. /\ PromptsOf[h] \in Seq(Req)
      /\ DOMAIN PromptsOf[h] = 1 .. Len(PromptsOf[h]) /\ Len(PromptsOf[h]) \in Nat
      /\ \A i \in DOMAIN PromptsOf[h] : PromptsOf[h][i] \in Prompts(h) /\ PromptsOf[h][i] \in Req
  BY PromptsInReq, LenProperties
<1>2. \A i \in 1 .. Len(PromptsOf[h]) : <<k, PromptsOf[h][i]>> \in {"start", "cancel"} \X Req
  BY <1>1
<1>. QED  BY <1>1, <1>2, SeqDef

----------------------------------------------------------------------------
(* Every step of the engine is one of the scheduler or leaves it alone.    *)
LEMMA EngineStepIsNext == EngineTypeOK /\ [EngineNext]_engineVars => [Next]_vars
<1>. SUFFICES ASSUME EngineTypeOK, [EngineNext]_engineVars PROVE [Next]_vars
  OBVIOUS
<1>1. CASE LoopTick
  BY <1>1 DEF LoopTick, Next
<1>2. CASE StartOne
  BY <1>2, TodoHead DEF StartOne, Next
<1>3. CASE CancelOne
  BY <1>3, TodoHead DEF CancelOne, Next
<1>4. CASE UNCHANGED vars
  BY <1>4
<1>. QED
  BY <1>1, <1>2, <1>3, <1>4 DEF EngineNext, engineVars, StartRaises, OpenCompletions,
    StartPrompts, Respond, Fail, CancelHandler, Resume, Shutdown, EngineQuiesced

LEMMA DoneStays ==
  ASSUME EInv, [EngineNext]_engineVars, NEW r \in Req, future[r] = "done"
  PROVE  future'[r] = "done"
<1>1. [Next]_vars
  BY EngineStepIsNext DEF EInv
<1>2. CASE UNCHANGED vars
  BY <1>2 DEF vars
<1>. QED  BY <1>1, <1>2, StepFuture

(* What the end of generate_text may change. *)
LEMMA EndTaskEffect ==
  ASSUME EngineTypeOK, NEW r \in Req, NEW outcome \in TaskState, NEW answer \in HttpState,
         EndTask(r, outcome, answer)
  PROVE  /\ http' \in [Handler -> HttpState] /\ task' \in [Req -> TaskState]
         /\ task'[r] = outcome
         /\ \A q \in Req \ {r} : task'[q] = task[q]
         /\ \A h \in Handler : http'[h] # http[h] =>
              IsChat[h] /\ Prompts(h) = {r} /\ http'[h] = answer
<1>1. /\ task' = [task EXCEPT ![r] = outcome]
      /\ http' = [h \in Handler |-> IF IsChat[h] /\ r \in Prompts(h) THEN answer ELSE http[h]]
  BY DEF EndTask
<1>2. \A h \in Handler : http'[h] # http[h] =>
        IsChat[h] /\ r \in Prompts(h) /\ http'[h] = answer
  BY <1>1
<1>. QED  BY <1>1, <1>2, ChatPrompt DEF EngineTypeOK

LEMMA StepEInv == EInv /\ [EngineNext]_engineVars => EInv'
<1>. SUFFICES ASSUME EInv, [EngineNext]_engineVars PROVE EInv'
  OBVIOUS
<1>. USE DEF EInv
<1>t. /\ started \in BOOLEAN /\ http \in [Handler -> HttpState]
      /\ task \in [Req -> TaskState] /\ todo \in Seq({"start", "cancel"} \X Req)
  BY DEF EngineTypeOK
<1>d. ASSUME \A r \in Req : task'[r] = "returned" => task[r] = "returned"
      PROVE  ReturnedDone'
  BY <1>d, DoneStays DEF ReturnedDone
<1>0. ASSUME UNCHANGED <<http, task, todo>>, started' \in BOOLEAN PROVE EInv'
  <2>1. ReturnedDone'
    BY <1>0, <1>d
  <2>. QED  BY <1>0, <2>1, <1>t
            DEF EngineTypeOK, TodoOpened, StartsFresh, NotBegun, AnsweredReturned
<1>1. CASE LoopTick \/ Shutdown \/ EngineQuiesced \/ UNCHANGED engineVars
  BY <1>0, <1>1, <1>t DEF LoopTick, Shutdown, EngineQuiesced, engineVars
<1>2. ASSUME NEW h \in Handler, OpenCompletions(h) PROVE EInv'
  <2>1. /\ http[h] = "none" /\ http' = [http EXCEPT ![h] = "opened"]
        /\ UNCHANGED <<started, task, todo>>
    BY <1>2 DEF OpenCompletions
  <2>2. ReturnedDone'
    BY <2>1, <1>d
  <2>. QED  BY <2>1, <2>2, <1>t
            DEF EngineTypeOK, HttpState, TodoOpened, StartsFresh, NotBegun, AnsweredReturned
<1>3. ASSUME NEW h \in Handler, StartPrompts(h) \/ CancelHandler(h) PROVE EInv'
  <2>1. PICK k \in {"start", "cancel"} :
          /\ todo' = [i \in DOMAIN PromptsOf[h] |-> <<k, PromptsOf[h][i]>>]
          /\ k = "start" => http[h] \in {"none", "opened"}
    BY <1>3 DEF StartPrompts, CancelHandler
  <2>2. /\ http' \in [Handler -> HttpState] /\ http'[h] \in {"waiting", "gone"}
        /\ \A g \in Handler : g # h => http'[g] = http[g]
        /\ UNCHANGED <<started, task>>
    BY <1>3, <1>t DEF StartPrompts, CancelHandler, HttpState
  <2>3. /\ todo' \in Seq({"start", "cancel"} \X Req)
        /\ \A i \in DOMAIN todo' : todo'[i][1] = k /\ todo'[i][2] \in Prompts(h)
    BY <2>1, TodoOf
  <2>4. TodoOpened'
    <3>. SUFFICES ASSUME NEW i \in DOMAIN todo', NEW g \in Handler, todo'[i][2] \in Prompts(g)
                  PROVE  http'[g] \notin {"none", "opened"}
      BY DEF TodoOpened, Prompts
    <3>1. g = h
      BY <2>3, EngineAssumption DEF Prompts
    <3>. QED  BY <3>1, <2>2
  <2>5. StartsFresh'
    BY <2>1, <2>2, <2>3 DEF StartsFresh, NotBegun
  <2>6. ReturnedDone'
    BY <2>2, <1>d
  <2>. QED  BY <2>2, <2>3, <2>4, <2>5, <2>6, <1>t DEF EngineTypeOK, NotBegun, AnsweredReturned, Prompts
<1>. DEFINE first == Head(todo)[2]
<1>s. ASSUME todo # <<>>, todo' = Tail(todo), UNCHANGED started,
             http' \in [Handler -> HttpState], task' \in [Req -> TaskState],
             \A q \in Req \ {first} : task'[q] = task[q],
             task'[first] = "returned" <=> task[first] = "returned",
             \A h \in Handler : http'[h] = http[h] \/ http'[h] = "failed"
      PROVE  EInv'
  <2>1. /\ first \in Req /\ 1 \in DOMAIN todo /\ first = todo[1][2]
        /\ todo' \in Seq({"start", "cancel"} \X Req)
        /\ \A i \in DOMAIN todo' : i + 1 \in DOMAIN todo /\ todo'[i] = todo[i + 1]
    BY <1>s, TodoHead
  <2>2. \A q \in Req : task'[q] = "returned" <=> task[q] = "returned"
    BY <1>s
  <2>3. \A i \in DOMAIN todo' : todo'[i] \in {"start", "cancel"} \X Req
    BY <2>1, ElementOfSeq, LenProperties
  <2>4. TodoOpened'
    BY <1>s, <2>1 DEF TodoOpened, Prompts
  <2>5. StartsFresh'
    BY <2>1, <2>2, <2>3 DEF StartsFresh
  <2>6. NotBegun'
    <3>. SUFFICES ASSUME NEW h \in Handler, http'[h] \in {"none", "opened"}, NEW q \in Prompts(h)
                  PROVE  task'[q] = "none"
      BY DEF NotBegun, Prompts
    <3>1. http[h] \in {"none", "opened"}
      BY <1>s
    <3>2. q # first
      BY <2>1, <3>1 DEF TodoOpened
    <3>. QED  BY <1>s, <3>1, <3>2, PromptsInReq DEF NotBegun
  <2>7. AnsweredReturned'
    BY <1>s, <2>2, PromptsInReq DEF AnsweredReturned, Prompts
  <2>8. ReturnedDone'
    BY <2>2, <1>d
  <2>. QED  BY <1>s, <2>1, <2>4, <2>5, <2>6, <2>7, <2>8, <1>t DEF EngineTypeOK
<1>4. CASE StartOne
  <2>1. task[first] # "returned" /\ first \in Req
    BY <1>4, TodoHead DEF StartOne, StartsFresh
  <2>2. /\ todo # <<>> /\ todo' = Tail(todo) /\ UNCHANGED <<started, http>>
        /\ task' = [task EXCEPT ![first] = "awaiting"]
    BY <1>4 DEF StartOne
  <2>. QED  BY <1>s, <1>t, <2>1, <2>2 DEF TaskState
<1>5. CASE CancelOne
  <2>1. first \in Req
    BY <1>5, TodoHead DEF CancelOne
  <2>2. /\ todo # <<>> /\ todo' = Tail(todo) /\ UNCHANGED <<started, http>>
        /\ task' = [task EXCEPT ![first] =
                      IF @ \in {"none", "awaiting"} THEN "cancelled" ELSE @]
    BY <1>5 DEF CancelOne
  <2>. QED  BY <1>s, <1>t, <2>1, <2>2 DEF TaskState
<1>6. CASE StartRaises
  <2>1. task[first] # "returned" /\ first \in Req
    BY <1>6, TodoHead DEF StartRaises, StartsFresh
  <2>2. /\ todo # <<>> /\ todo' = Tail(todo) /\ UNCHANGED started
        /\ EndTask(first, "raised", "failed")
    BY <1>6 DEF StartRaises
  <2>. QED  BY <1>s, <2>1, <2>2, EndTaskEffect DEF TaskState, HttpState
<1>7. ASSUME NEW r \in Req, Resume(r) PROVE EInv'
  <2>1. /\ todo = <<>> /\ task[r] = "awaiting" /\ future[r] = "done"
        /\ EndTask(r, "returned", "answered") /\ UNCHANGED <<vars, started, todo>>
    BY <1>7 DEF Resume, Between
  <2>2. /\ http' \in [Handler -> HttpState] /\ task' \in [Req -> TaskState]
        /\ task'[r] = "returned"
        /\ \A q \in Req \ {r} : task'[q] = task[q]
        /\ \A h \in Handler : http'[h] # http[h] => Prompts(h) = {r} /\ http'[h] = "answered"
    BY <2>1, EndTaskEffect DEF TaskState, HttpState
  <2>3. DOMAIN todo' = {}
    BY <2>1
  <2>4. NotBegun'
    <3>. SUFFICES ASSUME NEW h \in Handler, http'[h] \in {"none", "opened"}, NEW q \in Prompts(h)
                  PROVE  task'[q] = "none"
      BY DEF NotBegun, Prompts
    <3>1. http[h] \in {"none", "opened"} /\ task[q] = "none"
      BY <2>2 DEF NotBegun
    <3>. QED  BY <2>1, <2>2, <3>1, PromptsInReq
  <2>5. AnsweredReturned'
    BY <2>2, PromptsInReq DEF AnsweredReturned, Prompts
  <2>6. ReturnedDone'
    BY <2>1, <2>2 DEF ReturnedDone, vars
  <2>. QED  BY <1>t, <2>1, <2>2, <2>3, <2>4, <2>5, <2>6 DEF EngineTypeOK, TodoOpened, StartsFresh
<1>8. ASSUME NEW h \in Handler, Respond(h) \/ Fail(h) PROVE EInv'
  <2>1. /\ http' \in [Handler -> HttpState] /\ UNCHANGED <<started, task, todo>>
        /\ \A g \in Handler : g # h => http'[g] = http[g]
        /\ http[h] = "waiting" /\ http'[h] \in {"answered", "failed"}
        /\ http'[h] = "answered" => \A r \in Prompts(h) : task[r] = "returned"
    BY <1>8, <1>t DEF Respond, Fail, HttpState
  <2>2. ReturnedDone'
    BY <2>1, <1>d
  <2>. QED  BY <1>t, <2>1, <2>2
            DEF EngineTypeOK, TodoOpened, StartsFresh, NotBegun, AnsweredReturned, Prompts
<1>. QED  BY <1>1, <1>2, <1>3, <1>4, <1>5, <1>6, <1>7, <1>8 DEF EngineNext

LEMMA InitEInv == EngineInit => EInv
<1>. SUFFICES ASSUME EngineInit PROVE EInv
  OBVIOUS
<1>1. todo \in Seq({"start", "cancel"} \X Req) /\ DOMAIN todo = {}
  BY EmptyElements DEF EngineInit
<1>2. NotBegun
  BY PromptsInReq DEF EngineInit, NotBegun
<1>. QED  BY <1>1, <1>2 DEF EngineInit, EInv, EngineTypeOK, HttpState, TaskState, TodoOpened,
               StartsFresh, AnsweredReturned, ReturnedDone

----------------------------------------------------------------------------
(* Every variable of the engine keeps its type.                            *)
THEOREM EngineTypeCorrect == EngineSpec => []EngineTypeOK
<1>1. EInv => EngineTypeOK  BY DEF EInv
<1>. QED  BY <1>1, InitEInv, StepEInv, PTL DEF EngineSpec

(* The engine and the handlers use the scheduler as its specification      *)
(* allows, so what is proved of the scheduler is true inside the server.   *)
THEOREM EngineImplements == EngineSpec => ImplementsScheduler
<1>1. EngineInit => Init  BY DEF EngineInit
<1>2. EInv /\ [EngineNext]_engineVars => [Next]_vars
  BY EngineStepIsNext DEF EInv
<1>. QED  BY <1>1, <1>2, InitEInv, StepEInv, PTL DEF EngineSpec, ImplementsScheduler, Spec

(* An answer has the whole text of every prompt of its request, whatever  *)
(* request ids are used again.                                             *)
THEOREM AnswersWhole == EngineSpec => []AnsweredWhole
<1>1. EngineSpec => []NeverShort
  BY EngineImplements, AnswersNeverShort, PTL DEF ImplementsScheduler
<1>2. EInv /\ NeverShort => AnsweredWhole
  <2>. SUFFICES ASSUME EInv, NeverShort, NEW h \in Handler, http[h] = "answered",
                       NEW r \in Prompts(h)
                PROVE  status[r] = "finished" /\ generated[r] = MaxTokens[r]
    BY DEF AnsweredWhole
  <2>1. r \in Req /\ future[r] = "done"
    BY PromptsInReq DEF EInv, AnsweredReturned, ReturnedDone
  <2>. QED  BY <2>1 DEF NeverShort
<1>. QED  BY <1>1, <1>2, InitEInv, StepEInv, PTL DEF EngineSpec

(* Inside the server too, no block is lost, owned twice or owned while     *)
(* free, whatever handlers fail or are cancelled.                          *)
THEOREM ServerAccounting == EngineSpec => []BlockAccounting
BY EngineImplements, Accounting, PTL DEF ImplementsScheduler

----------------------------------------------------------------------------
(* Nobody is forgotten: what a handler still waits for when the loop is at *)
(* rest.                                                                   *)

(* The cancellations that are due are those of a handler that is gone. *)
CancelsOfGone ==
  \A i \in DOMAIN todo : todo[i][1] = "cancel" =>
    /\ \A j \in DOMAIN todo : todo[j][1] = "cancel"
    /\ \A h \in Handler : todo[i][2] \in Prompts(h) => http[h] = "gone"

(* Every prompt of a handler that waits has its task, or is about to. *)
Attended ==
  \A h \in Handler : http[h] = "waiting" =>
    \A r \in Prompts(h) :
      \/ task[r] \in {"awaiting", "returned", "raised"}
      \/ \E i \in DOMAIN todo : todo[i] = <<"start", r>>

(* A task awaits a sequence that was submitted, by a future it has not     *)
(* cancelled.                                                              *)
Heard == \A r \in Req : task[r] = "awaiting" => status[r] # "new" /\ future[r] # "cancelled"

NewPending == \A r \in Req : status[r] = "new" => future[r] = "pending"

WInv == CancelsOfGone /\ Attended /\ Heard /\ NewPending

LEMMA SchedulerStep ==
  ASSUME AInv, NewPending, [Next]_vars
  PROVE  /\ NewPending'
         /\ \A r \in Req : status'[r] = "new" => status[r] = "new"
         /\ \A r \in Req : future'[r] = "cancelled" =>
              future[r] = "cancelled" \/ Cancel(r)
<1>0. future \in [Req -> {"pending", "done", "cancelled"}]
  BY DEF AInv, TypeOK
<1>1. \A r \in Req : status'[r] = "new" => status[r] = "new"
  <2>1. CASE UNCHANGED vars
    BY <2>1 DEF vars, seqVars
  <2>2. CASE ~UNCHANGED vars
    <3>1. ToDo'[1] \subseteq ToDo[1]
      BY <2>2, StepSpends DEF Spending
    <3>. QED  BY <3>1 DEF ToDo
  <2>. QED  BY <2>1, <2>2
<1>2. \A r \in Req : future'[r] # future[r] =>
        \/ Cancel(r)
        \/ status[r] # "new" /\ future'[r] = Resolved(future[r])
  <2>. SUFFICES ASSUME NEW r \in Req, future'[r] # future[r]
                PROVE  Cancel(r) \/ (status[r] # "new" /\ future'[r] = Resolved(future[r]))
    OBVIOUS
  <2>1. (\E q \in Req : Cancel(q)) \/ RunFinish
    BY DEF Next, Tick, AddRequest, StartTick, PreemptOne, PreemptRaises, PreemptDone,
      ScheduleOne, ScheduleDone, FinishRaises, RunGenerate, RunDone, Quiesced, vars, seqVars
  <2>2. ASSUME NEW q \in Req, Cancel(q) PROVE Cancel(r)
    <3>1. future' = [future EXCEPT ![q] = "cancelled"]
      BY <2>2 DEF Cancel
    <3>2. q = r
      BY <1>0, <3>1
    <3>. QED  BY <2>2, <3>2
  <2>3. ASSUME RunFinish PROVE status[r] # "new" /\ future'[r] = Resolved(future[r])
    <3>1. PICK i \in DOMAIN running : running[i] = Head(batch)
      BY <2>3 DEF RunFinish
    <3>2. future' = [future EXCEPT ![Head(batch)] = Resolved(@)]
      BY <2>3 DEF RunFinish
    <3>3. r = Head(batch) /\ future'[r] = Resolved(future[r])
      BY <1>0, <3>2
    <3>4. running[i] \in Range(running)
      BY RemoveAtElements DEF AInv, TypeOK
    <3>. QED  BY <3>1, <3>3, <3>4 DEF AInv, Queued
  <2>. QED  BY <2>1, <2>2, <2>3
<1>3. NewPending'
  BY <1>1, <1>2 DEF NewPending, Cancel
<1>. QED  BY <1>0, <1>1, <1>2, <1>3 DEF Resolved

(* When the first callback of the round is done, what the others need is   *)
(* still there.                                                            *)
LEMMA FirstDone ==
  ASSUME EInv, CancelsOfGone, Attended, todo # <<>>, todo' = Tail(todo),
         task' \in [Req -> TaskState],
         \A q \in Req \ {Head(todo)[2]} : task'[q] = task[q],
         \/ task'[Head(todo)[2]] \in {"awaiting", "returned", "raised"}
         \/ Head(todo)[1] = "cancel",
         \A h \in Handler : http'[h] = http[h] \/ (Head(todo)[1] = "start" /\ http'[h] = "failed")
  PROVE  CancelsOfGone' /\ Attended'
<1>. DEFINE first == Head(todo)[2]
<1>1. /\ first \in Req /\ 1 \in DOMAIN todo /\ Head(todo) = todo[1]
      /\ Head(todo)[1] \in {"start", "cancel"}
      /\ \A i \in DOMAIN todo' : i + 1 \in DOMAIN todo /\ todo'[i] = todo[i + 1]
  BY TodoHead DEF EInv
<1>2. \A i \in DOMAIN todo : i # 1 => i - 1 \in DOMAIN todo' /\ todo'[i - 1] = todo[i]
  <2>1. /\ Len(todo) \in Nat \ {0} /\ DOMAIN todo = 1 .. Len(todo)
        /\ DOMAIN Tail(todo) = 1 .. Len(todo) - 1
        /\ \A i \in 1 .. Len(todo) - 1 : Tail(todo)[i] = todo[i + 1]
    BY HeadTailProperties, LenProperties, EmptySeq DEF EInv, EngineTypeOK
  <2>. QED  BY <2>1
<1>3. CancelsOfGone'
  <2>. SUFFICES ASSUME NEW i \in DOMAIN todo', todo'[i][1] = "cancel"
                PROVE  /\ \A j \in DOMAIN todo' : todo'[j][1] = "cancel"
                       /\ \A h \in Handler : todo'[i][2] \in Prompts(h) => http'[h] = "gone"
    BY DEF CancelsOfGone, Prompts
  <2>1. /\ \A j \in DOMAIN todo : todo[j][1] = "cancel"
        /\ \A h \in Handler : todo'[i][2] \in Prompts(h) => http[h] = "gone"
    BY <1>1 DEF CancelsOfGone
  <2>2. Head(todo)[1] # "start"
    BY <1>1, <2>1
  <2>. QED  BY <1>1, <2>1, <2>2
<1>4. Attended'
  <2>. SUFFICES ASSUME NEW h \in Handler, http'[h] = "waiting", NEW r \in Prompts(h)
                PROVE  \/ task'[r] \in {"awaiting", "returned", "raised"}
                       \/ \E i \in DOMAIN todo' : todo'[i] = <<"start", r>>
    BY DEF Attended, Prompts
  <2>1. http[h] = "waiting" /\ r \in Req
    BY PromptsInReq
  <2>2. CASE r = first
    <3>1. Head(todo)[1] # "cancel"
      BY <1>1, <2>1, <2>2 DEF CancelsOfGone
    <3>. QED  BY <2>2, <3>1
  <2>3. CASE r # first
    <3>1. CASE task[r] \in {"awaiting", "returned", "raised"}
      BY <2>1, <2>3, <3>1
    <3>2. ASSUME NEW i \in DOMAIN todo, todo[i] = <<"start", r>>
          PROVE  \E j \in DOMAIN todo' : todo'[j] = <<"start", r>>
      <4>1. i # 1
        BY <1>1, <2>3, <3>2
      <4>. QED  BY <1>2, <3>2, <4>1
    <3>. QED  BY <2>1, <3>1, <3>2 DEF Attended
  <2>. QED  BY <2>2, <2>3
<1>. QED  BY <1>3, <1>4

LEMMA StepWInv == EInv /\ AInv /\ WInv /\ [EngineNext]_engineVars => WInv'
<1>. SUFFICES ASSUME EInv, AInv, WInv, [EngineNext]_engineVars PROVE WInv'
  OBVIOUS
<1>. USE DEF WInv
<1>t. /\ http \in [Handler -> HttpState] /\ task \in [Req -> TaskState]
  BY DEF EInv, EngineTypeOK
<1>n. /\ NewPending'
      /\ \A r \in Req : status'[r] = "new" => status[r] = "new"
      /\ \A r \in Req : future'[r] = "cancelled" => future[r] = "cancelled" \/ Cancel(r)
  BY SchedulerStep, EngineStepIsNext DEF EInv
(* A step that begins no task and cancels no future that is awaited. *)
<1>h. ASSUME \A r \in Req : task'[r] = "awaiting" => task[r] = "awaiting" /\ ~Cancel(r)
      PROVE  Heard'
  BY <1>n, <1>h DEF Heard
<1>c. ASSUME UNCHANGED future, NEW r \in Req PROVE ~Cancel(r)
  <2>1. future \in [Req -> {"pending", "done", "cancelled"}]
    BY DEF AInv, TypeOK
  <2>. QED  BY <1>c, <2>1 DEF Cancel
<1>1. CASE LoopTick
  <2>1. UNCHANGED <<http, task, todo>> /\ \A r \in Req : ~Cancel(r)
    <3>1. UNCHANGED <<http, task, todo>> /\ Tick
      BY <1>1 DEF LoopTick
    <3>2. ticks \in Nat
      BY DEF AInv, TypeOK
    <3>3. pc = "idle" => ticks' # ticks
      BY <3>1, <3>2 DEF Tick, StartTick, PreemptOne, PreemptRaises, PreemptDone, MustPreempt,
        ScheduleOne, ScheduleDone, RunFinish, FinishRaises, RunGenerate, RunDone
    <3>. QED  BY <3>1, <3>3 DEF Cancel, tickVars
  <2>2. Heard'
    BY <1>h, <2>1
  <2>. QED  BY <1>n, <2>1, <2>2 DEF CancelsOfGone, Attended, Prompts
<1>2. CASE Shutdown \/ EngineQuiesced \/ UNCHANGED engineVars
  <2>1. UNCHANGED <<http, task, todo, future>>
    BY <1>2 DEF Shutdown, EngineQuiesced, engineVars, vars, seqVars
  <2>2. Heard'
    BY <1>h, <1>c, <2>1
  <2>. QED  BY <1>n, <2>1, <2>2 DEF CancelsOfGone, Attended, Prompts
<1>3. ASSUME NEW h \in Handler, OpenCompletions(h) \/ Respond(h) \/ Fail(h) PROVE WInv'
  <2>1. /\ UNCHANGED <<task, todo, future>> /\ todo = <<>>
        /\ http'[h] # "waiting" /\ \A g \in Handler : g # h => http'[g] = http[g]
    BY <1>3, <1>t DEF OpenCompletions, Respond, Fail, Between, vars
  <2>2. Heard'
    BY <1>h, <1>c, <2>1
  <2>3. DOMAIN todo' = {}
    BY <2>1
  <2>. QED  BY <1>n, <2>1, <2>2, <2>3 DEF CancelsOfGone, Attended, Prompts
<1>4. ASSUME NEW h \in Handler, StartPrompts(h) \/ CancelHandler(h) PROVE WInv'
  <2>1. PICK k \in {"start", "cancel"} :
          /\ todo' = [i \in DOMAIN PromptsOf[h] |-> <<k, PromptsOf[h][i]>>]
          /\ http' = [http EXCEPT ![h] = IF k = "start" THEN "waiting" ELSE "gone"]
    BY <1>4 DEF StartPrompts, CancelHandler
  <2>2. UNCHANGED <<task, future>> /\ todo = <<>>
    BY <1>4 DEF StartPrompts, CancelHandler, Between, vars
  <2>3. \A i \in DOMAIN todo' : todo'[i][1] = k /\ todo'[i][2] \in Prompts(h)
    BY <2>1, TodoOf
  <2>4. CancelsOfGone'
    <3>. SUFFICES ASSUME NEW i \in DOMAIN todo', todo'[i][1] = "cancel"
                  PROVE  /\ \A j \in DOMAIN todo' : todo'[j][1] = "cancel"
                         /\ \A g \in Handler : todo'[i][2] \in Prompts(g) => http'[g] = "gone"
      BY DEF CancelsOfGone, Prompts
    <3>1. k = "cancel" /\ http'[h] = "gone"
      BY <1>t, <2>1, <2>3
    <3>2. \A g \in Handler : todo'[i][2] \in Prompts(g) => g = h
      BY <2>3, EngineAssumption DEF Prompts
    <3>. QED  BY <2>3, <3>1, <3>2
  <2>5. Attended'
    <3>. SUFFICES ASSUME NEW g \in Handler, http'[g] = "waiting", NEW r \in Prompts(g)
                  PROVE  \/ task'[r] \in {"awaiting", "returned", "raised"}
                         \/ \E i \in DOMAIN todo' : todo'[i] = <<"start", r>>
      BY DEF Attended, Prompts
    <3>1. CASE g = h
      <4>1. k = "start"
        BY <1>t, <2>1, <3>1
      <4>2. PICK i \in DOMAIN PromptsOf[h] : PromptsOf[h][i] = r
        BY <3>1 DEF Prompts, Range
      <4>. QED  BY <2>1, <4>1, <4>2
    <3>2. CASE g # h
      <4>1. http[g] = "waiting" /\ DOMAIN todo = {}
        BY <1>t, <2>1, <2>2, <3>2
      <4>. QED  BY <2>2, <4>1 DEF Attended
    <3>. QED  BY <3>1, <3>2
  <2>6. Heard'
    BY <1>h, <1>c, <2>2
  <2>. QED  BY <1>n, <2>4, <2>5, <2>6
<1>. DEFINE first == Head(todo)[2]
<1>5. CASE StartOne
  <2>1. /\ todo # <<>> /\ todo' = Tail(todo) /\ UNCHANGED http /\ AddRequest(first)
        /\ task' = [task EXCEPT ![first] = "awaiting"]
    BY <1>5 DEF StartOne
  <2>2. first \in Req
    BY <2>1, TodoHead DEF EInv
  <2>3. CancelsOfGone' /\ Attended'
    BY <1>t, <2>1, <2>2, FirstDone DEF TaskState
  <2>4. /\ status[first] = "new" /\ status' = [status EXCEPT ![first] = "waiting"]
        /\ UNCHANGED future
    BY <2>1 DEF AddRequest
  <2>5. status'[first] # "new" /\ future'[first] # "cancelled"
    BY <2>2, <2>4 DEF NewPending, AInv, TypeOK
  <2>. HIDE DEF first
  <2>6. Heard'
    BY <1>t, <1>n, <2>1, <2>4, <2>5 DEF Heard
  <2>. QED  BY <1>n, <2>3, <2>6
<1>6. CASE StartRaises
  <2>1. /\ todo # <<>> /\ todo' = Tail(todo) /\ Head(todo)[1] = "start"
        /\ EndTask(first, "raised", "failed") /\ UNCHANGED future
    BY <1>6 DEF StartRaises, vars
  <2>2. first \in Req
    BY <2>1, TodoHead DEF EInv
  <2>3. /\ task' \in [Req -> TaskState] /\ task'[first] = "raised"
        /\ \A q \in Req \ {first} : task'[q] = task[q]
        /\ \A h \in Handler : http'[h] # http[h] => http'[h] = "failed"
    BY <2>1, <2>2, EndTaskEffect DEF TaskState, HttpState, EInv
  <2>4. CancelsOfGone' /\ Attended'
    BY <2>1, <2>3, FirstDone
  <2>. HIDE DEF first
  <2>5. Heard'
    BY <1>h, <1>c, <2>1, <2>3
  <2>. QED  BY <1>n, <2>4, <2>5
<1>7. CASE CancelOne
  <2>1. /\ todo # <<>> /\ todo' = Tail(todo) /\ Head(todo)[1] = "cancel" /\ UNCHANGED http
        /\ task' = [task EXCEPT ![first] =
                      IF @ \in {"none", "awaiting"} THEN "cancelled" ELSE @]
        /\ UNCHANGED future \/ Cancel(first)
    BY <1>7 DEF CancelOne, vars
  <2>2. first \in Req
    BY <2>1, TodoHead DEF EInv
  <2>3. task' \in [Req -> TaskState] /\ \A q \in Req \ {first} : task'[q] = task[q]
    BY <1>t, <2>1, <2>2 DEF TaskState
  <2>4. CancelsOfGone' /\ Attended'
    BY <2>1, <2>3, FirstDone
  <2>. HIDE DEF first
  <2>5. task'[first] # "awaiting"
    BY <1>t, <2>1, <2>2
  <2>6. ASSUME NEW r \in Req, r # first PROVE ~Cancel(r)
    <3>1. future \in [Req -> {"pending", "done", "cancelled"}]
      BY DEF AInv, TypeOK
    <3>. QED  BY <2>1, <2>2, <2>6, <3>1, <1>c DEF Cancel
  <2>7. Heard'
    BY <1>h, <2>3, <2>5, <2>6
  <2>. QED  BY <1>n, <2>4, <2>7
<1>8. ASSUME NEW r \in Req, Resume(r) PROVE WInv'
  <2>1. todo = <<>> /\ EndTask(r, "returned", "answered") /\ UNCHANGED <<todo, future>>
    BY <1>8 DEF Resume, Between, vars
  <2>2. /\ task'[r] = "returned" /\ \A q \in Req \ {r} : task'[q] = task[q]
        /\ \A h \in Handler : http'[h] # http[h] => http'[h] = "answered"
    BY <2>1, EndTaskEffect DEF TaskState, HttpState, EInv
  <2>3. DOMAIN todo' = {} /\ DOMAIN todo = {}
    BY <2>1
  <2>4. Heard'
    BY <1>h, <1>c, <2>1, <2>2
  <2>5. Attended'
    BY <2>2, <2>3, PromptsInReq DEF Attended, Prompts
  <2>. QED  BY <1>n, <2>3, <2>4, <2>5 DEF CancelsOfGone
<1>. QED  BY <1>1, <1>2, <1>3, <1>4, <1>5, <1>6, <1>7, <1>8 DEF EngineNext

(* When the loop is at rest, a handler that still waits either can go on,  *)
(* with its answer or its exception, or one of its prompts was preempted.  *)
NobodyForgotten ==
  (Between /\ ticks = 0) =>
    \A h \in Handler : http[h] = "waiting" =>
      \/ \A r \in Prompts(h) : task[r] = "returned"
      \/ \E r \in Prompts(h) :
           \/ task[r] = "raised"
           \/ task[r] = "awaiting" /\ future[r] = "done"
           \/ status[r] = "preempted"

(* If every prompt fits the cache, no handler waits for something that     *)
(* will not happen, unless a prompt of it was preempted: however the       *)
(* others fail, are cancelled or are left behind by a shutdown.            *)
THEOREM HandlersServed ==
  ASSUME ~AddressReuse, AllFit
  PROVE  EngineSpec => []NobodyForgotten
<1>1. EngineInit => WInv
  <2>. SUFFICES ASSUME EngineInit PROVE WInv
    OBVIOUS
  <2>1. DOMAIN todo = {}
    BY DEF EngineInit
  <2>. QED  BY <2>1 DEF EngineInit, Init, WInv, CancelsOfGone, Attended, Heard, NewPending
<1>2. EngineSpec => []AtRest /\ []AnswersComplete /\ []AInv
  <2>1. Spec => []AInv
    BY InitAInv, StepAInv, PTL DEF Spec
  <2>. QED  BY <2>1, EngineImplements, RestIsServed, AnswersCorrect, PTL DEF ImplementsScheduler
<1>3. WInv /\ AtRest /\ AnswersComplete /\ AInv => NobodyForgotten
  <2>. SUFFICES ASSUME WInv, AtRest, AnswersComplete, AInv, Between, ticks = 0,
                       NEW h \in Handler, http[h] = "waiting",
                       NEW r \in Prompts(h), task[r] # "returned", task[r] # "raised"
                PROVE  (task[r] = "awaiting" /\ future[r] = "done") \/ status[r] = "preempted"
    BY DEF NobodyForgotten
  <2>1. r \in Req /\ DOMAIN todo = {} /\ pc = "idle"
    BY PromptsInReq DEF Between
  <2>2. task[r] = "awaiting"
    BY <2>1 DEF WInv, Attended
  <2>3. status[r] \in {"finished", "preempted"} /\ future[r] # "cancelled"
    BY <2>1, <2>2 DEF WInv, Heard, AtRest
  <2>4. status[r] = "finished" => future[r] = "done"
    BY <2>1, <2>3 DEF AnswersComplete, AInv, TypeOK
  <2>. QED  BY <2>2, <2>3, <2>4
<1>. QED  BY <1>1, <1>2, <1>3, InitEInv, StepEInv, StepWInv, PTL DEF EngineSpec

=============================================================================
