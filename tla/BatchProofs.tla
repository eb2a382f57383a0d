----------------------------- MODULE BatchProofs -----------------------------
(***************************************************************************)
(* Theorems about ContinuousBatchScheduler, for every set of sequences and *)
(* every limit, and for any interleaving of passes, arrivals and results.  *)
(***************************************************************************)
EXTENDS BatchScheduler, SequenceLemmas

(* What a pass keeps in order. *)
Passing ==
  /\ IsInjective(rest)
  /\ pc = "preempt" => rest # <<>>

BInv == TypeOK /\ PlacedOnce /\ Passing

----------------------------------------------------------------------------
LEMMA WithoutElements ==
  ASSUME NEW S, NEW s \in Seq(S), IsInjective(s), NEW i \in DOMAIN s
  PROVE  /\ Without(s, s[i]) = RemoveAt(s, i)
         /\ Without(s, s[i]) \in Seq(S)
         /\ Len(Without(s, s[i])) = Len(s) - 1
         /\ IsInjective(Without(s, s[i]))
         /\ Range(Without(s, s[i])) = Range(s) \ {s[i]}
<1>1. i = CHOOSE j \in DOMAIN s : s[j] = s[i]
  BY DEF IsInjective
<1>. QED  BY <1>1, RemoveAtElements DEF Without

(* A permutation of a list has its members. *)
LEMMA SortedElements ==
  ASSUME NEW S, NEW s \in Seq(S), IsInjective(s), NEW p \in Bijection(DOMAIN s, DOMAIN s),
         NEW t, t = [k \in DOMAIN s |-> s[p[k]]]
  PROVE  /\ t \in Seq(S)
         /\ Range(t) = Range(s)
         /\ IsInjective(t)
<1>1. /\ DOMAIN s = 1 .. Len(s) /\ Len(s) \in Nat
      /\ \A k \in DOMAIN s : s[k] \in S
  BY LenProperties, ElementOfSeq
<1>2. /\ p \in [DOMAIN s -> DOMAIN s]
      /\ \A a, b \in DOMAIN s : p[a] = p[b] => a = b
      /\ \A k \in DOMAIN s : \E j \in DOMAIN s : p[j] = k
  BY DEF Bijection, Injection, Surjection, IsInjective
<1>3. t \in [1 .. Len(s) -> S]
  BY <1>1, <1>2
<1>4. t \in Seq(S)
  BY <1>1, <1>3, SeqDef
<1>5. Range(t) = Range(s)
  BY <1>2 DEF Range
<1>6. IsInjective(t)
  BY <1>2 DEF IsInjective
<1>. QED  BY <1>4, <1>5, <1>6

----------------------------------------------------------------------------
LEMMA InitBInv == Init => BInv
BY EmptyElements DEF Init, BInv, TypeOK, Status, PlacedOnce, Passing

LEMMA AddRequestKeeps ==
  ASSUME BInv, NEW r \in Req, AddRequest(r)
  PROVE  BInv'
<1>. USE DEF BInv
<1>1. /\ pc = "unlocked" /\ status[r] = "new"
      /\ waiting' = Append(waiting, r)
      /\ status' = [status EXCEPT ![r] = "waiting"]
      /\ created' = Append(created, r)
      /\ UNCHANGED <<running, finished, generated, pc, batch, rest, inFlight>>
  BY DEF AddRequest, passVars
<1>2. r \notin Range(waiting)
  BY <1>1 DEF PlacedOnce
<1>3. /\ waiting' \in Seq(Req) /\ created' \in Seq(Req)
      /\ Range(waiting') = Range(waiting) \cup {r} /\ IsInjective(waiting')
  <2>1. waiting \in Seq(Req) /\ IsInjective(waiting) /\ created \in Seq(Req)
    BY DEF TypeOK, PlacedOnce
  <2>. QED  BY <2>1, <1>1, <1>2, AppendElements
<1>4. TypeOK'
  BY <1>1, <1>3 DEF TypeOK, Status
<1>5. PlacedOnce'
  BY <1>1, <1>3 DEF PlacedOnce, TypeOK
<1>. QED  BY <1>1, <1>4, <1>5 DEF Passing

LEMMA StartPassKeeps ==
  ASSUME BInv, StartPass
  PROVE  BInv'
<1>. USE DEF BInv
<1>1. PICK p \in Bijection(DOMAIN waiting, DOMAIN waiting) :
        waiting' = [k \in DOMAIN waiting |-> waiting[p[k]]]
  BY DEF StartPass, StableSorts
<1>2. /\ batch' = running /\ rest' = waiting' /\ pc' = "admit"
      /\ UNCHANGED <<running, finished, status, generated, created, inFlight>>
  BY DEF StartPass
<1>3. waiting' \in Seq(Req) /\ Range(waiting') = Range(waiting) /\ IsInjective(waiting')
  <2>1. waiting \in Seq(Req) /\ IsInjective(waiting)
    BY DEF TypeOK, PlacedOnce
  <2>. QED  BY <1>1, <2>1, SortedElements
<1>. QED  BY <1>2, <1>3 DEF TypeOK, PlacedOnce, Passing

LEMMA AdmitKeeps ==
  ASSUME BInv, Admit
  PROVE  BInv' /\ Len(running') = Len(running) + 1
<1>. USE DEF BInv
<1>. DEFINE r == Head(rest)
<1>1. /\ pc = "admit" /\ rest # <<>>
      /\ status' = [status EXCEPT ![r] = "running"]
      /\ running' = Append(running, r) /\ batch' = Append(batch, r)
      /\ waiting' = Without(waiting, r) /\ rest' = Tail(rest)
      /\ UNCHANGED <<finished, generated, created, pc, inFlight>>
  BY DEF Admit
<1>2. /\ r \in Req /\ r \in Range(rest) /\ rest' \in Seq(Req)
      /\ IsInjective(rest') /\ Range(rest) = Range(rest') \cup {r} /\ r \notin Range(rest')
  BY <1>1, TailElements DEF TypeOK, Passing
<1>3. PICK i \in DOMAIN waiting : waiting[i] = r
  <2>1. r \in Range(waiting)  BY <1>2 DEF PlacedOnce
  <2>. QED  BY <2>1 DEF Range
<1>4. /\ waiting' \in Seq(Req) /\ IsInjective(waiting')
      /\ Range(waiting') = Range(waiting) \ {r}
  <2>1. waiting \in Seq(Req) /\ IsInjective(waiting)
    BY DEF TypeOK, PlacedOnce
  <2>2. waiting' = Without(waiting, waiting[i])
    BY <1>1, <1>3
  <2>. QED  BY <2>1, <2>2, <1>3, WithoutElements
<1>5. r \notin Range(running) /\ status[r] \in {"waiting", "preempted"}
  BY <1>2 DEF PlacedOnce
<1>6. /\ running' \in Seq(Req) /\ IsInjective(running')
      /\ Range(running') = Range(running) \cup {r}
      /\ Len(running') = Len(running) + 1 /\ batch' \in Seq(Req) /\ batch' = running'
  <2>1. running \in Seq(Req) /\ IsInjective(running) /\ batch = running
    BY <1>1 DEF TypeOK, PlacedOnce
  <2>. QED  BY <2>1, <1>1, <1>2, <1>5, AppendElements, AppendProperties
<1>7. TypeOK'
  BY <1>1, <1>2, <1>4, <1>6 DEF TypeOK, Status
<1>8. PlacedOnce'
  <2>1. \A q \in Req : q # r => status'[q] = status[q]
    BY <1>1 DEF TypeOK
  <2>2. status'[r] = "running"
    BY <1>1, <1>2 DEF TypeOK
  <2>. QED  BY <1>1, <1>2, <1>4, <1>5, <1>6, <2>1, <2>2 DEF PlacedOnce
<1>. QED  BY <1>1, <1>2, <1>6, <1>7, <1>8 DEF Passing

LEMMA PreemptKeeps ==
  ASSUME BInv, Preempt
  PROVE  BInv' /\ Len(running') = Len(running) - 1
<1>. USE DEF BInv
<1>1. PICK i \in DOMAIN batch :
        /\ status' = [status EXCEPT ![batch[i]] = "preempted"]
        /\ running' = Without(running, batch[i])
        /\ batch' = RemoveAt(batch, i)
        /\ waiting' = Append(waiting, batch[i])
  BY DEF Preempt
<1>2. pc = "preempt" /\ UNCHANGED <<finished, generated, created, pc, rest, inFlight>>
  BY DEF Preempt
<1>. DEFINE v == running[i]
<1>3. batch = running /\ v = batch[i] /\ i \in DOMAIN running
  BY <1>2 DEF PlacedOnce
<1>4. /\ running' \in Seq(Req) /\ IsInjective(running')
      /\ Range(running') = Range(running) \ {v} /\ Len(running') = Len(running) - 1
      /\ batch' = running'
  <2>1. running \in Seq(Req) /\ IsInjective(running)
    BY DEF TypeOK, PlacedOnce
  <2>2. running' = Without(running, v) /\ batch' = RemoveAt(running, i)
    BY <1>1, <1>3
  <2>. QED  BY <2>1, <2>2, <1>3, WithoutElements
<1>5. v \in Req /\ v \in Range(running) /\ status[v] = "running" /\ v \notin Range(waiting)
  <2>1. v \in Req
    BY <1>3, ElementOfSeq, LenProperties DEF TypeOK
  <2>2. v \in Range(running)
    BY <1>3 DEF Range
  <2>. QED  BY <2>1, <2>2 DEF PlacedOnce
<1>6. /\ waiting' \in Seq(Req) /\ IsInjective(waiting')
      /\ Range(waiting') = Range(waiting) \cup {v}
  <2>1. waiting \in Seq(Req) /\ IsInjective(waiting)
    BY DEF TypeOK, PlacedOnce
  <2>. QED  BY <2>1, <1>1, <1>3, <1>5, AppendElements
<1>7. TypeOK'
  BY <1>1, <1>2, <1>3, <1>4, <1>6 DEF TypeOK, Status
<1>8. PlacedOnce'
  <2>1. \A q \in Req : q # v => status'[q] = status[q]
    BY <1>1, <1>3 DEF TypeOK
  <2>2. status'[v] = "preempted"
    BY <1>1, <1>3, <1>5 DEF TypeOK
  <2>. QED  BY <1>2, <1>4, <1>5, <1>6, <2>1, <2>2 DEF PlacedOnce
<1>. QED  BY <1>2, <1>4, <1>7, <1>8 DEF Passing

LEMMA UpdateKeeps ==
  ASSUME BInv, NEW r \in Req, NEW n \in 1 .. MaxStep, Update(r, n)
  PROVE  BInv' /\ Len(running') <= Len(running)
<1>. USE DEF BInv
<1>0. Len(running) \in Nat /\ n \in Nat
  BY LenProperties, BatchAssumption DEF TypeOK
<1>1. /\ pc = "unlocked" /\ inFlight' = inFlight \ {r}
      /\ UNCHANGED <<waiting, created, pc, batch, rest>>
  BY DEF Update
<1>2. CASE UNCHANGED <<status, finished, running>>
  <2>1. generated' = generated \/ generated' = [generated EXCEPT ![r] = @ + n]
    BY DEF Update
  <2>2. generated \in [Req -> Nat]
    BY DEF TypeOK
  <2>3. generated' \in [Req -> Nat]
    BY <1>0, <2>1, <2>2
  <2>. QED  BY <1>0, <1>1, <1>2, <2>3 DEF TypeOK, PlacedOnce, Passing
<1>3. CASE /\ r \in Range(running)
           /\ generated' = [generated EXCEPT ![r] = @ + n]
           /\ status' = [status EXCEPT ![r] = "finished"]
           /\ finished' = Append(finished, r)
           /\ running' = Without(running, r)
  <2>1. PICK i \in DOMAIN running : running[i] = r
    BY <1>3 DEF Range
  <2>2. /\ running' \in Seq(Req) /\ IsInjective(running')
        /\ Range(running') = Range(running) \ {r} /\ Len(running') = Len(running) - 1
    <3>1. running \in Seq(Req) /\ IsInjective(running)
      BY DEF TypeOK, PlacedOnce
    <3>. QED  BY <3>1, <1>3, <2>1, WithoutElements
  <2>3. status[r] = "running" /\ r \notin Range(finished)
    BY <1>3 DEF PlacedOnce
  <2>4. /\ finished' \in Seq(Req) /\ IsInjective(finished')
        /\ Range(finished') = Range(finished) \cup {r}
    <3>1. finished \in Seq(Req) /\ IsInjective(finished)
      BY DEF TypeOK, PlacedOnce
    <3>. QED  BY <3>1, <1>3, <2>3, AppendElements
  <2>5. TypeOK'
    <3>1. generated \in [Req -> Nat] /\ status \in [Req -> Status]
      BY DEF TypeOK
    <3>2. generated' \in [Req -> Nat] /\ status' \in [Req -> Status]
      BY <3>1, <1>0, <1>3 DEF Status
    <3>3. inFlight' \in SUBSET Req
      BY <1>1 DEF TypeOK
    <3>. QED  BY <3>2, <3>3, <1>1, <2>2, <2>4 DEF TypeOK
  <2>6. PlacedOnce'
    <3>1. \A q \in Req : q # r => status'[q] = status[q]
      BY <1>3 DEF TypeOK
    <3>2. status'[r] = "finished"
      BY <1>3 DEF TypeOK
    <3>. QED  BY <1>1, <2>2, <2>3, <2>4, <3>1, <3>2 DEF PlacedOnce
  <2>. QED  BY <1>0, <1>1, <2>2, <2>5, <2>6 DEF Passing
<1>. QED  BY <1>2, <1>3 DEF Update

(* StartPreempt, PreemptHelped and EndPass move the pass on, nothing else. *)
LEMMA PassKeeps ==
  ASSUME BInv, StartPreempt \/ PreemptHelped \/ EndPass
  PROVE  BInv' /\ running' = running
<1>1. /\ UNCHANGED <<waiting, running, finished, status, generated, created>>
      /\ pc' \in {"unlocked", "admit", "preempt"}
      /\ \/ UNCHANGED <<batch, rest, inFlight>>
         \/ /\ pc' = "unlocked" /\ batch' = <<>> /\ rest' = <<>>
            /\ inFlight' = inFlight \cup Range(batch)
      /\ pc' # "unlocked" => pc # "unlocked"
      /\ pc' = "preempt" => rest' # <<>>
  BY DEF StartPreempt, PreemptHelped, EndPass
<1>2. Range(batch) \subseteq Req
  BY RangeOfSeq DEF BInv, TypeOK
<1>3. inFlight' \in SUBSET Req
  BY <1>1, <1>2 DEF BInv, TypeOK
<1>. QED  BY <1>1, <1>3, EmptyElements DEF BInv, TypeOK, PlacedOnce, Passing

LEMMA StepBInv == BInv /\ [Next]_vars => BInv'
<1>1. ASSUME BInv, UNCHANGED vars PROVE BInv'
  BY <1>1 DEF vars, BInv, TypeOK, PlacedOnce, Passing
<1>. QED  BY <1>1, AddRequestKeeps, StartPassKeeps, AdmitKeeps, PreemptKeeps, UpdateKeeps,
             PassKeeps DEF Next, Pass

(* The sum of a list's weights, and what one member more or less does.     *)
Weigh(w, s) == SumOf([i \in DOMAIN s |-> w[s[i]]])

LEMMA WeighSteps ==
  ASSUME NEW S, NEW w \in [S -> Nat], NEW s \in Seq(S)
  PROVE  /\ Weigh(w, s) \in Nat
         /\ Weigh(w, <<>>) = 0
         /\ \A e \in S : Weigh(w, Append(s, e)) = Weigh(w, s) + w[e]
         /\ \A i \in DOMAIN s : Weigh(w, RemoveAt(s, i)) = Weigh(w, s) - w[s[i]]
<1>. DEFINE of(t) == [i \in DOMAIN t |-> w[t[i]]]
<1>1. ASSUME NEW t \in Seq(S)
      PROVE  /\ Len(t) \in Nat /\ DOMAIN t = 1 .. Len(t) /\ \A i \in 1 .. Len(t) : t[i] \in S
             /\ of(t) \in Seq(Nat) /\ of(t) \in Seq(Int) /\ Len(of(t)) = Len(t)
  <2>1. Len(t) \in Nat /\ DOMAIN t = 1 .. Len(t) /\ \A i \in 1 .. Len(t) : t[i] \in S
    BY LenProperties, ElementOfSeq
  <2>2. of(t) \in [1 .. Len(t) -> Nat] /\ of(t) \in [1 .. Len(t) -> Int]
    BY <2>1
  <2>. QED  BY <2>1, <2>2
<1>2. Weigh(w, s) \in Nat
  BY <1>1, SumType DEF Weigh
<1>3. Weigh(w, <<>>) = 0
  <2>1. of(<<>>) = <<>>
    OBVIOUS
  <2>. QED  BY <2>1, SumEmpty DEF Weigh
<1>4. ASSUME NEW e \in S
      PROVE  Weigh(w, Append(s, e)) = Weigh(w, s) + w[e]
  <2>1. /\ Append(s, e) \in Seq(S) /\ Len(Append(s, e)) = Len(s) + 1
        /\ \A i \in 1 .. Len(s) : Append(s, e)[i] = s[i]
        /\ Append(s, e)[Len(s) + 1] = e
    BY AppendProperties
  <2>2. of(Append(s, e)) = Append(of(s), w[e])
    BY <1>1, <2>1
  <2>3. w[e] \in Int
    OBVIOUS
  <2>. QED  BY <1>1, <2>2, <2>3, SumAppend DEF Weigh
<1>5. ASSUME NEW i \in DOMAIN s
      PROVE  Weigh(w, RemoveAt(s, i)) = Weigh(w, s) - w[s[i]]
  <2>. DEFINE t == RemoveAt(s, i)
              u == RemoveAt(of(s), i)
  <2>1. /\ t \in Seq(S) /\ Len(t) = Len(s) - 1
        /\ \A j \in 1 .. Len(s) - 1 : t[j] = IF j < i THEN s[j] ELSE s[j + 1]
    BY RemoveAtPositions
  <2>2. /\ u \in Seq(Int) /\ Len(u) = Len(s) - 1
        /\ \A j \in 1 .. Len(s) - 1 : u[j] = IF j < i THEN of(s)[j] ELSE of(s)[j + 1]
    <3>1. of(s) \in Seq(Int) /\ i \in DOMAIN of(s) /\ Len(of(s)) = Len(s)
      BY <1>1
    <3>. QED  BY <3>1, RemoveAtPositions
  <2>3. of(t) = u
    <3>. HIDE DEF t, u
    <3>1. Len(of(t)) = Len(u) /\ of(t) \in Seq(Int) /\ DOMAIN t = 1 .. Len(s) - 1
      BY <1>1, <2>1, <2>2
    <3>2. ASSUME NEW j \in 1 .. Len(s) - 1
          PROVE  of(t)[j] = u[j]
      <4>1. j \in DOMAIN s /\ j + 1 \in DOMAIN s
        BY <1>1
      <4>. QED  BY <4>1, <3>1, <2>1, <2>2
    <3>3. DOMAIN of(t) = 1 .. Len(s) - 1 /\ DOMAIN u = 1 .. Len(s) - 1
      BY <3>1, <2>2, LenProperties
    <3>. QED  BY <3>1, <3>2, <3>3, <2>2
  <2>4. SumOf(u) = SumOf(of(s)) - of(s)[i]
    BY <1>1, SumRemoveAt
  <2>. QED  BY <2>3, <2>4 DEF Weigh
<1>. QED  BY <1>2, <1>3, <1>4, <1>5

(* The tokens of a list, in these terms.                                   *)
TokensOf == [r \in Req |-> TotalTokens(r)]

LEMMA TokensWeigh ==
  ASSUME TypeOK
  PROVE  /\ TokensOf \in [Req -> Nat]
         /\ \A s \in Seq(Req) : Tokens(s) = Weigh(TokensOf, s)
<1>1. TokensOf \in [Req -> Nat]
  BY BatchAssumption DEF TypeOK, TokensOf, TotalTokens
<1>2. ASSUME NEW s \in Seq(Req)
      PROVE  [i \in DOMAIN s |-> TotalTokens(s[i])] = [i \in DOMAIN s |-> TokensOf[s[i]]]
  <2>1. \A i \in DOMAIN s : s[i] \in Req
    BY ElementOfSeq, LenProperties
  <2>. QED  BY <2>1 DEF TokensOf
<1>. QED  BY <1>1, <1>2 DEF Tokens, Weigh

(* A sequence that has not been added has no tokens. *)
NewIsEmpty == \A r \in Req : status[r] = "new" => generated[r] = 0

LEMMA StepDone ==
  ASSUME BInv, NewIsEmpty, FinishedWhenDone, [Next]_vars
  PROVE  NewIsEmpty' /\ FinishedWhenDone'
<1>. USE DEF NewIsEmpty, FinishedWhenDone
<1>0. /\ status \in [Req -> Status] /\ generated \in [Req -> Nat] /\ MaxTokens \in [Req -> Nat]
  BY BatchAssumption DEF BInv, TypeOK
<1>1. ASSUME NEW r \in Req, AddRequest(r) PROVE NewIsEmpty' /\ FinishedWhenDone'
  BY <1>0, <1>1 DEF AddRequest
<1>2. CASE Admit
  <2>1. Head(rest) \in Range(waiting) /\ Head(rest) \in Req
    BY <1>2, TailElements DEF Admit, BInv, TypeOK, PlacedOnce
  <2>2. status[Head(rest)] \in {"waiting", "preempted"}
    BY <2>1 DEF BInv, PlacedOnce
  <2>. QED  BY <1>0, <1>2, <2>1, <2>2 DEF Admit
<1>3. CASE Preempt
  <2>1. PICK i \in DOMAIN batch : status' = [status EXCEPT ![batch[i]] = "preempted"]
    BY <1>3 DEF Preempt
  <2>2. batch[i] \in Req /\ batch[i] \in Range(running)
    BY <1>3, ElementOfSeq, LenProperties DEF Preempt, BInv, TypeOK, PlacedOnce, Range
  <2>3. status[batch[i]] = "running" /\ generated' = generated
    BY <1>3, <2>2 DEF Preempt, BInv, PlacedOnce
  <2>. QED  BY <1>0, <2>1, <2>2, <2>3
<1>4. ASSUME NEW r \in Req, NEW n \in 1 .. MaxStep, Update(r, n)
      PROVE  NewIsEmpty' /\ FinishedWhenDone'
  <2>1. CASE r \notin Range(running)
    BY <1>4, <2>1 DEF Update
  <2>2. CASE r \in Range(running)
    <3>1. /\ generated' = [generated EXCEPT ![r] = @ + n]
          /\ IF generated[r] + n >= MaxTokens[r]
             THEN status' = [status EXCEPT ![r] = "finished"] ELSE UNCHANGED status
      BY <1>4, <2>2 DEF Update
    <3>2. status[r] = "running" /\ n \in Nat
      BY <2>2, BatchAssumption DEF BInv, PlacedOnce
    <3>. QED  BY <1>0, <3>1, <3>2
  <2>. QED  BY <2>1, <2>2
<1>5. CASE UNCHANGED <<status, generated>>
  BY <1>5
<1>. QED  BY <1>1, <1>2, <1>3, <1>4, <1>5
          DEF Next, Pass, StartPass, StartPreempt, PreemptHelped, EndPass, vars

----------------------------------------------------------------------------
(* Every variable keeps its type.                                          *)
THEOREM BatchTypeCorrect == Spec => []TypeOK
<1>1. BInv => TypeOK  BY DEF BInv
<1>. QED  BY <1>1, InitBInv, StepBInv, PTL DEF Spec

(* A sequence is in exactly the list its status names, and the batch is    *)
(* the running sequences at every point of a pass.                         *)
THEOREM BatchPlacement == Spec => []PlacedOnce
<1>1. BInv => PlacedOnce  BY DEF BInv
<1>. QED  BY <1>1, InitBInv, StepBInv, PTL DEF Spec

(* No pass exceeds max_batch_size or max_num_seqs.                         *)
THEOREM BatchSizes == Spec => []BatchBounded
<1>1. Init => BatchBounded
  BY BatchAssumption, EmptyElements DEF Init, BatchBounded
<1>2. BInv /\ BatchBounded /\ [Next]_vars => BatchBounded'
  <2>. SUFFICES ASSUME BInv, BatchBounded, [Next]_vars PROVE BatchBounded'
    OBVIOUS
  <2>0. Len(running) \in Nat /\ MaxBatchSize \in Nat /\ MaxNumSeqs \in Nat
    BY LenProperties, BatchAssumption DEF BInv, TypeOK
  <2>1. CASE Admit
    <3>1. Len(running') = Len(running) + 1 /\ batch = running
      BY <2>1, AdmitKeeps DEF Admit, BInv, PlacedOnce
    <3>. QED  BY <2>0, <2>1, <3>1 DEF Admit, HasSlot, BatchBounded
  <2>2. CASE Preempt
    BY <2>0, <2>2, PreemptKeeps DEF BatchBounded
  <2>3. ASSUME NEW r \in Req, NEW n \in 1 .. MaxStep, Update(r, n) PROVE BatchBounded'
    <3>1. Len(running') <= Len(running) /\ Len(running') \in Nat
      BY <2>3, UpdateKeeps, LenProperties DEF BInv, TypeOK
    <3>. QED  BY <2>0, <3>1 DEF BatchBounded
  <2>4. CASE UNCHANGED running
    BY <2>4 DEF BatchBounded
  <2>. QED  BY <2>1, <2>2, <2>3, <2>4, PassKeeps DEF Next, Pass, StartPass, AddRequest, vars
<1>. QED  BY <1>1, <1>2, InitBInv, StepBInv, PTL DEF Spec

(* A finished sequence has its tokens, and one that has them is finished.  *)
THEOREM BatchFinishes == Spec => []FinishedWhenDone
<1>1. Init => NewIsEmpty /\ FinishedWhenDone
  BY DEF Init, NewIsEmpty, FinishedWhenDone
<1>2. BInv /\ NewIsEmpty /\ FinishedWhenDone /\ [Next]_vars => (NewIsEmpty /\ FinishedWhenDone)'
  BY StepDone
<1>. QED  BY <1>1, <1>2, InitBInv, StepBInv, PTL DEF Spec

----------------------------------------------------------------------------
(* What a pass does to the tokens of its batch: an admission stays within  *)
(* max_total_tokens, and an eviction takes the victim's tokens off, which  *)
(* is what the code's own running total of _maybe_preempt assumes.         *)
THEOREM BatchTokens ==
  Spec => [][/\ Admit => Tokens(batch)' <= MaxTotalTokens
             /\ Preempt => \E i \in DOMAIN batch :
                             /\ status'[batch[i]] = "preempted"
                             /\ Tokens(batch)' = Tokens(batch) - TotalTokens(batch[i])]_vars
<1>1. ASSUME BInv, BInv'
      PROVE  /\ Admit => Tokens(batch)' <= MaxTotalTokens
             /\ Preempt => \E i \in DOMAIN batch :
                             /\ status'[batch[i]] = "preempted"
                             /\ Tokens(batch)' = Tokens(batch) - TotalTokens(batch[i])
  <2>. USE <1>1
  <2>0. /\ batch \in Seq(Req) /\ batch' \in Seq(Req) /\ rest \in Seq(Req)
        /\ TokensOf \in [Req -> Nat]
        /\ \A s \in Seq(Req) : Tokens(s) = Weigh(TokensOf, s)
    BY TokensWeigh DEF BInv, TypeOK
  <2>1. generated' = generated => Tokens(batch)' = Tokens(batch')
    BY DEF Tokens, TotalTokens
  <2>2. ASSUME Admit PROVE Tokens(batch)' <= MaxTotalTokens
    <3>1. Head(rest) \in Req /\ batch' = Append(batch, Head(rest)) /\ Fits(Head(rest))
      BY <2>0, <2>2, TailElements DEF Admit
    <3>2. Tokens(batch') = Tokens(batch) + TokensOf[Head(rest)]
      BY <2>0, <3>1, WeighSteps
    <3>3. TokensOf[Head(rest)] = TotalTokens(Head(rest)) /\ generated' = generated
      BY <2>2, <3>1 DEF TokensOf, Admit
    <3>. QED  BY <2>1, <3>1, <3>2, <3>3 DEF Fits
  <2>3. ASSUME Preempt
        PROVE  \E i \in DOMAIN batch :
                 /\ status'[batch[i]] = "preempted"
                 /\ Tokens(batch)' = Tokens(batch) - TotalTokens(batch[i])
    <3>1. PICK i \in DOMAIN batch : /\ status' = [status EXCEPT ![batch[i]] = "preempted"]
                                    /\ batch' = RemoveAt(batch, i)
      BY <2>3 DEF Preempt
    <3>2. batch[i] \in Req
      BY <2>0, ElementOfSeq, LenProperties
    <3>3. status'[batch[i]] = "preempted"
      BY <3>1, <3>2 DEF BInv, TypeOK
    <3>4. Tokens(batch') = Tokens(batch) - TokensOf[batch[i]]
      BY <2>0, <3>1, WeighSteps
    <3>5. TokensOf[batch[i]] = TotalTokens(batch[i]) /\ generated' = generated
      BY <2>3, <3>2 DEF TokensOf, Preempt
    <3>. QED  BY <2>1, <3>3, <3>4, <3>5
  <2>. QED  BY <2>2, <2>3
<1>. QED  BY <1>1, InitBInv, StepBInv, PTL DEF Spec

(* A pass with a free slot leaves a sequence waiting only if it is larger  *)
(* than the reserve, or than max_total_tokens with nothing running.        *)
THEOREM BatchReserve == Spec => ReserveAdmits
<1>1. ASSUME BInv, pc # "unlocked", pc' = "unlocked", HasSlot, rest # <<>>, [Next]_vars
      PROVE  /\ TotalTokens(Head(rest)) > MaxTotalTokens - Budget
             /\ batch = <<>> => TotalTokens(Head(rest)) > MaxTotalTokens
  <2>. USE <1>1
  <2>1. pc = "preempt" /\ (~OverBudget \/ batch = <<>>) /\ ~Fits(Head(rest))
    BY DEF Next, Pass, StartPass, Admit, StartPreempt, Preempt, PreemptHelped, EndPass,
           AddRequest, Update, vars, passVars
  <2>2. /\ batch \in Seq(Req) /\ Head(rest) \in Req /\ TokensOf \in [Req -> Nat]
        /\ \A s \in Seq(Req) : Tokens(s) = Weigh(TokensOf, s)
    BY TokensWeigh, TailElements DEF BInv, TypeOK
  <2>3. Tokens(batch) \in Nat /\ (batch = <<>> => Tokens(batch) = 0)
    BY <2>2, WeighSteps
  <2>4. TotalTokens(Head(rest)) \in Nat /\ MaxTotalTokens \in Nat /\ Budget \in Nat
    BY <2>2, BatchAssumption DEF TokensOf
  <2>5. ~(Tokens(batch) > Budget)
    BY <2>1, <2>3, <2>4 DEF OverBudget
  <2>. QED  BY <2>1, <2>3, <2>4, <2>5 DEF Fits
<1>. QED  BY <1>1, InitBInv, StepBInv, PTL DEF Spec, ReserveAdmits

----------------------------------------------------------------------------
(* First come, first served.  The age of a sequence is its place among     *)
(* those created; among sequences of one priority that have never run, a   *)
(* list has the older before the younger.                                  *)
AgeIn(c, r) == CHOOSE i \in DOMAIN c : c[i] = r

OldestFirst(s, st, c) ==
  \A i, j \in DOMAIN s :
    (/\ i < j /\ Priority[s[i]] = Priority[s[j]]
     /\ st[s[i]] = "waiting" /\ st[s[j]] = "waiting")
      => AgeIn(c, s[i]) < AgeIn(c, s[j])

(* The invariant behind it: sequences are created once; the queue never    *)
(* turns two of them round; and what a pass has left to look at is sorted  *)
(* and lacks none that has never run.                                      *)
Queued ==
  /\ IsInjective(created) /\ Range(created) = {r \in Req : status[r] # "new"}
  /\ OldestFirst(waiting, status, created)
  /\ pc # "unlocked" =>
       /\ ByPriority(rest) /\ OldestFirst(rest, status, created)
       /\ \A r \in Req : status[r] = "waiting" => r \in Range(rest)

(* A sequence created last is younger than the others, which keep their    *)
(* ages.                                                                   *)
LEMMA YoungestLast ==
  ASSUME NEW c \in Seq(Req), IsInjective(c), NEW r \in Req, r \notin Range(c)
  PROVE  \A q \in Range(c) : /\ AgeIn(Append(c, r), q) = AgeIn(c, q)
                             /\ AgeIn(c, q) < AgeIn(Append(c, r), r)
<1>. DEFINE d == Append(c, r)
<1>1. /\ IsInjective(d) /\ Len(c) \in Nat
      /\ \A i \in 1 .. Len(c) : d[i] = c[i]
      /\ d[Len(c) + 1] = r
      /\ DOMAIN c = 1 .. Len(c) /\ DOMAIN d = 1 .. Len(c) + 1
  BY AppendElements, AppendProperties, LenProperties
<1>. HIDE DEF d
<1>2. ASSUME NEW i \in DOMAIN d PROVE AgeIn(d, d[i]) = i
  BY <1>1, <1>2 DEF AgeIn, IsInjective
<1>3. ASSUME NEW i \in DOMAIN c PROVE AgeIn(c, c[i]) = i
  BY <1>1, <1>3 DEF AgeIn, IsInjective
<1>4. AgeIn(d, r) = Len(c) + 1
  <2>1. Len(c) + 1 \in DOMAIN d
    BY <1>1
  <2>. QED  BY <1>1, <1>2, <2>1
<1>5. ASSUME NEW i \in DOMAIN c
      PROVE  AgeIn(d, c[i]) = AgeIn(c, c[i]) /\ AgeIn(c, c[i]) < AgeIn(d, r)
  <2>1. i \in DOMAIN d /\ d[i] = c[i] /\ i < Len(c) + 1
    BY <1>1
  <2>2. AgeIn(d, c[i]) = i
    BY <1>2, <2>1
  <2>. QED  BY <1>3, <1>4, <2>1, <2>2
<1>. QED  BY <1>5 DEF Range, d

(* Whatever sequences leave a list or stop waiting, the others stay in     *)
(* order.                                                                  *)
LEMMA OrderKept ==
  ASSUME NEW s, NEW t, NEW st, NEW su, NEW c, OldestFirst(s, st, c),
         NEW f \in [DOMAIN t -> DOMAIN s],
         \A i \in DOMAIN t : t[i] = s[f[i]],
         \A i, j \in DOMAIN t :
           i < j /\ Priority[t[i]] = Priority[t[j]] => f[i] < f[j],
         \A i \in DOMAIN t : su[t[i]] = "waiting" => st[t[i]] = "waiting"
  PROVE  OldestFirst(t, su, c)
<1>. SUFFICES ASSUME NEW i \in DOMAIN t, NEW j \in DOMAIN t, i < j,
                     Priority[t[i]] = Priority[t[j]],
                     su[t[i]] = "waiting", su[t[j]] = "waiting"
              PROVE  AgeIn(c, t[i]) < AgeIn(c, t[j])
  BY DEF OldestFirst
<1>1. f[i] < f[j] /\ f[i] \in DOMAIN s /\ f[j] \in DOMAIN s
  OBVIOUS
<1>2. t[i] = s[f[i]] /\ t[j] = s[f[j]] /\ st[t[i]] = "waiting" /\ st[t[j]] = "waiting"
  OBVIOUS
<1>. QED  BY <1>1, <1>2 DEF OldestFirst

LEMMA QueuedInit == Init => Queued
BY EmptyElements DEF Init, Queued, OldestFirst

LEMMA QueuedAdd ==
  ASSUME BInv, Queued, NEW r \in Req, AddRequest(r)
  PROVE  Queued'
<1>1. /\ pc = "unlocked" /\ pc' = pc /\ status[r] = "new"
      /\ waiting' = Append(waiting, r) /\ created' = Append(created, r)
      /\ status' = [status EXCEPT ![r] = "waiting"]
      /\ status \in [Req -> Status] /\ waiting \in Seq(Req) /\ created \in Seq(Req)
      /\ IsInjective(created) /\ r \notin Range(created)
  BY DEF AddRequest, passVars, BInv, TypeOK, Queued
<1>2. /\ Len(waiting) \in Nat /\ DOMAIN waiting = 1 .. Len(waiting)
      /\ DOMAIN waiting' = 1 .. Len(waiting) + 1
      /\ \A i \in 1 .. Len(waiting) : waiting'[i] = waiting[i] /\ waiting[i] \in Req
      /\ waiting'[Len(waiting) + 1] = r
  BY <1>1, AppendProperties, LenProperties, ElementOfSeq
<1>3. \A i \in DOMAIN waiting : /\ waiting[i] # r /\ status'[waiting[i]] = status[waiting[i]]
                                /\ waiting[i] \in Range(created)
  <2>. SUFFICES ASSUME NEW i \in DOMAIN waiting
                PROVE  /\ waiting[i] # r /\ status'[waiting[i]] = status[waiting[i]]
                       /\ waiting[i] \in Range(created)
    OBVIOUS
  <2>1. waiting[i] \in Range(waiting) /\ waiting[i] \in Req
    BY <1>2 DEF Range
  <2>2. status[waiting[i]] \in {"waiting", "preempted"}
    BY <2>1 DEF BInv, PlacedOnce
  <2>. QED  BY <1>1, <2>1, <2>2 DEF Queued
<1>4. \A q \in Range(created) : /\ AgeIn(created', q) = AgeIn(created, q)
                                /\ AgeIn(created, q) < AgeIn(created', r)
  BY <1>1, YoungestLast
<1>5. OldestFirst(waiting', status', created')
  <2>. SUFFICES ASSUME NEW i \in DOMAIN waiting', NEW j \in DOMAIN waiting', i < j,
                       Priority[waiting'[i]] = Priority[waiting'[j]],
                       status'[waiting'[i]] = "waiting", status'[waiting'[j]] = "waiting"
                PROVE  AgeIn(created', waiting'[i]) < AgeIn(created', waiting'[j])
    BY DEF OldestFirst
  <2>1. i \in DOMAIN waiting /\ waiting'[i] = waiting[i]
    BY <1>2
  <2>2. CASE j \in DOMAIN waiting
    <3>1. waiting'[j] = waiting[j]
      BY <1>2, <2>2
    <3>2. AgeIn(created, waiting[i]) < AgeIn(created, waiting[j])
      BY <1>3, <2>1, <2>2, <3>1 DEF Queued, OldestFirst
    <3>. QED  BY <1>3, <1>4, <2>1, <2>2, <3>1, <3>2
  <2>3. CASE j = Len(waiting) + 1
    <3>1. waiting'[j] = r /\ waiting[i] \in Range(created)
      BY <1>2, <1>3, <2>1, <2>3
    <3>. QED  BY <1>4, <2>1, <3>1
  <2>. QED  BY <1>2, <2>2, <2>3
<1>6. /\ IsInjective(created')
      /\ Range(created') = {q \in Req : status'[q] # "new"}
  <2>1. IsInjective(created') /\ Range(created') = Range(created) \cup {r}
    BY <1>1, AppendElements
  <2>. QED  BY <1>1, <2>1 DEF Queued
<1>. QED  BY <1>1, <1>5, <1>6 DEF Queued

LEMMA QueuedStart ==
  ASSUME BInv, Queued, StartPass
  PROVE  Queued'
<1>1. PICK p \in StableSorts(waiting) : waiting' = [k \in DOMAIN waiting |-> waiting[p[k]]]
  BY DEF StartPass
<1>2. rest' = waiting' /\ UNCHANGED <<status, created>>
  BY DEF StartPass
<1>3. /\ p \in [DOMAIN waiting -> DOMAIN waiting] /\ DOMAIN waiting' = DOMAIN waiting
      /\ \A k \in DOMAIN waiting' : waiting'[k] = waiting[p[k]]
      /\ ByPriority(waiting')
      /\ \A i, j \in DOMAIN waiting' :
           i < j /\ Priority[waiting'[i]] = Priority[waiting'[j]] => p[i] < p[j]
  BY <1>1 DEF StableSorts, Bijection, Injection
<1>4. OldestFirst(waiting', status', created')
  BY <1>2, <1>3, OrderKept DEF Queued
<1>5. ASSUME NEW r \in Req, status'[r] = "waiting" PROVE r \in Range(rest')
  <2>1. r \in Range(waiting)
    BY <1>2, <1>5 DEF BInv, PlacedOnce
  <2>2. waiting \in Seq(Req) /\ IsInjective(waiting) /\ p \in Bijection(DOMAIN waiting, DOMAIN waiting)
    BY DEF BInv, TypeOK, PlacedOnce, StableSorts
  <2>3. Range(waiting') = Range(waiting)
    BY <1>1, <2>2, SortedElements
  <2>. QED  BY <1>2, <2>1, <2>3
<1>6. ByPriority(rest') /\ OldestFirst(rest', status', created')
  BY <1>2, <1>3, <1>4
<1>7. IsInjective(created') /\ Range(created') = {r \in Req : status'[r] # "new"}
  BY <1>2 DEF Queued
<1>. QED  BY <1>4, <1>5, <1>6, <1>7 DEF Queued, ByPriority

LEMMA QueuedAdmit ==
  ASSUME BInv, Queued, Admit
  PROVE  Queued'
<1>. DEFINE r == Head(rest)
<1>1. /\ pc = "admit" /\ rest # <<>> /\ created' = created
      /\ status' = [status EXCEPT ![r] = "running"]
      /\ waiting' = Without(waiting, r) /\ rest' = Tail(rest)
      /\ rest \in Seq(Req) /\ waiting \in Seq(Req) /\ IsInjective(waiting)
      /\ status \in [Req -> Status]
  BY DEF Admit, BInv, TypeOK, PlacedOnce
<1>2. /\ r \in Req /\ Range(rest) = Range(rest') \cup {r} /\ r \in Range(rest)
  BY <1>1, TailElements
<1>3. PICK i \in DOMAIN waiting : waiting[i] = r
  <2>1. r \in Range(waiting)
    BY <1>2 DEF BInv, PlacedOnce
  <2>. QED  BY <2>1 DEF Range
<1>4. \A q \in Req : status'[q] = "waiting" => status[q] = "waiting" /\ q # r
  BY <1>1, <1>2
<1>5. status'[r] = "running" /\ status[r] \in {"waiting", "preempted"}
  BY <1>1, <1>2 DEF BInv, PlacedOnce
<1>6. OldestFirst(waiting', status', created)
  <2>1. waiting' = RemoveAt(waiting, i)
    BY <1>1, <1>3, WithoutElements
  <2>2. /\ waiting' \in Seq(Req) /\ Len(waiting') = Len(waiting) - 1 /\ Len(waiting) \in Nat
        /\ \A j \in 1 .. Len(waiting) - 1 :
             waiting'[j] = IF j < i THEN waiting[j] ELSE waiting[j + 1]
        /\ DOMAIN waiting = 1 .. Len(waiting)
    BY <1>1, <2>1, RemoveAtPositions, LenProperties
  <2>3. DOMAIN waiting' = 1 .. Len(waiting) - 1 /\ \A j \in DOMAIN waiting' : waiting'[j] \in Req
    BY <2>2, LenProperties, ElementOfSeq
  <2>. DEFINE f == [j \in DOMAIN waiting' |-> IF j < i THEN j ELSE j + 1]
  <2>4. f \in [DOMAIN waiting' -> DOMAIN waiting]
    BY <2>2, <2>3
  <2>5. \A j \in DOMAIN waiting' : waiting'[j] = waiting[f[j]]
    BY <2>2, <2>3
  <2>6. \A j, k \in DOMAIN waiting' : j < k => f[j] < f[k]
    BY <2>2, <2>3
  <2>. HIDE DEF f
  <2>. QED  BY <1>4, <2>3, <2>4, <2>5, <2>6, OrderKept DEF Queued
<1>7. ByPriority(rest') /\ OldestFirst(rest', status', created)
  <2>1. /\ rest' \in Seq(Req) /\ Len(rest') = Len(rest) - 1 /\ Len(rest) \in Nat
        /\ \A j \in 1 .. Len(rest) - 1 : rest'[j] = rest[j + 1]
        /\ DOMAIN rest = 1 .. Len(rest)
    BY <1>1, HeadTailProperties, LenProperties
  <2>2. DOMAIN rest' = 1 .. Len(rest) - 1 /\ \A j \in DOMAIN rest' : rest'[j] \in Req
    BY <2>1, LenProperties, ElementOfSeq
  <2>. DEFINE f == [j \in DOMAIN rest' |-> j + 1]
  <2>3. f \in [DOMAIN rest' -> DOMAIN rest]
    BY <2>1, <2>2
  <2>4. \A j \in DOMAIN rest' : rest'[j] = rest[f[j]]
    BY <2>1, <2>2
  <2>5. \A j, k \in DOMAIN rest' : j < k => f[j] < f[k]
    BY <2>1, <2>2
  <2>. HIDE DEF f
  <2>6. ByPriority(rest) /\ OldestFirst(rest, status, created)
    BY <1>1 DEF Queued
  <2>7. ByPriority(rest')
    BY <2>3, <2>4, <2>5, <2>6 DEF ByPriority
  <2>. QED  BY <1>4, <2>2, <2>3, <2>4, <2>5, <2>6, <2>7, OrderKept
<1>8. \A q \in Req : status'[q] = "waiting" => q \in Range(rest')
  BY <1>1, <1>2, <1>4 DEF Queued
<1>9. Range(created) = {q \in Req : status'[q] # "new"}
  BY <1>1, <1>2, <1>5 DEF Queued
<1>. QED  BY <1>1, <1>6, <1>7, <1>8, <1>9 DEF Queued, ByPriority

LEMMA QueuedPreempt ==
  ASSUME BInv, Queued, Preempt
  PROVE  Queued'
<1>1. PICK k \in DOMAIN batch :
        /\ status' = [status EXCEPT ![batch[k]] = "preempted"]
        /\ waiting' = Append(waiting, batch[k])
  BY DEF Preempt
<1>. DEFINE v == batch[k]
<1>2. /\ UNCHANGED <<created, pc, rest>> /\ waiting \in Seq(Req)
      /\ status \in [Req -> Status] /\ batch \in Seq(Req) /\ batch = running /\ rest \in Seq(Req)
  BY DEF Preempt, BInv, TypeOK, PlacedOnce
<1>3. v \in Req /\ status[v] = "running" /\ status'[v] = "preempted"
  <2>1. v \in Req /\ v \in Range(running)
    BY <1>2, ElementOfSeq, LenProperties DEF Range
  <2>. QED  BY <1>1, <1>2, <2>1 DEF BInv, PlacedOnce
<1>4. \A q \in Req : status'[q] = "waiting" => status[q] = "waiting"
  BY <1>1, <1>2, <1>3
<1>5. /\ Len(waiting) \in Nat /\ DOMAIN waiting = 1 .. Len(waiting)
      /\ DOMAIN waiting' = 1 .. Len(waiting) + 1
      /\ \A i \in 1 .. Len(waiting) : waiting'[i] = waiting[i] /\ waiting[i] \in Req
      /\ waiting'[Len(waiting) + 1] = v
  BY <1>1, <1>2, <1>3, AppendProperties, LenProperties, ElementOfSeq
<1>6. OldestFirst(waiting', status', created)
  <2>. SUFFICES ASSUME NEW i \in DOMAIN waiting', NEW j \in DOMAIN waiting', i < j,
                       Priority[waiting'[i]] = Priority[waiting'[j]],
                       status'[waiting'[i]] = "waiting", status'[waiting'[j]] = "waiting"
                PROVE  AgeIn(created, waiting'[i]) < AgeIn(created, waiting'[j])
    BY DEF OldestFirst
  <2>1. i # Len(waiting) + 1 /\ j # Len(waiting) + 1
    BY <1>3, <1>5
  <2>2. i \in DOMAIN waiting /\ j \in DOMAIN waiting
    BY <1>5, <2>1
  <2>3. /\ waiting'[i] = waiting[i] /\ waiting'[j] = waiting[j]
        /\ status[waiting[i]] = "waiting" /\ status[waiting[j]] = "waiting"
    BY <1>4, <1>5, <2>2
  <2>. QED  BY <2>2, <2>3 DEF Queued, OldestFirst
<1>7. pc # "unlocked" => OldestFirst(rest, status', created)
  <2>. SUFFICES ASSUME pc # "unlocked" PROVE OldestFirst(rest, status', created)
    OBVIOUS
  <2>1. \A i \in DOMAIN rest : rest[i] \in Req
    BY <1>2, ElementOfSeq, LenProperties
  <2>2. OldestFirst(rest, status, created)
    BY DEF Queued
  <2>. QED  BY <1>4, <2>1, <2>2 DEF OldestFirst
<1>8. Range(created) = {q \in Req : status'[q] # "new"}
  BY <1>1, <1>2, <1>3 DEF Queued
<1>. QED  BY <1>2, <1>4, <1>6, <1>7, <1>8 DEF Queued, ByPriority

LEMMA QueuedUpdate ==
  ASSUME BInv, Queued, NEW r \in Req, NEW n \in 1 .. MaxStep, Update(r, n)
  PROVE  Queued'
<1>1. /\ pc = "unlocked" /\ pc' = pc /\ UNCHANGED <<waiting, created>>
      /\ status' = status \/ (r \in Range(running) /\ status' = [status EXCEPT ![r] = "finished"])
      /\ status \in [Req -> Status] /\ waiting \in Seq(Req)
  BY DEF Update, BInv, TypeOK
<1>2. r \in Range(running) => status[r] = "running"
  BY DEF BInv, PlacedOnce
<1>3. \A q \in Req : /\ status'[q] = "waiting" <=> status[q] = "waiting"
                     /\ status'[q] = "new" <=> status[q] = "new"
  BY <1>1, <1>2
<1>4. \A i \in DOMAIN waiting : waiting[i] \in Req
  BY <1>1, ElementOfSeq, LenProperties
<1>5. OldestFirst(waiting, status', created)
  BY <1>3, <1>4 DEF Queued, OldestFirst
<1>6. Range(created) = {q \in Req : status'[q] # "new"}
  BY <1>3 DEF Queued
<1>. QED  BY <1>1, <1>5, <1>6 DEF Queued

LEMMA StepQueued == BInv /\ Queued /\ [Next]_vars => Queued'
<1>. SUFFICES ASSUME BInv, Queued, [Next]_vars PROVE Queued'
  OBVIOUS
<1>1. CASE StartPreempt \/ PreemptHelped \/ EndPass \/ UNCHANGED vars
  <2>1. UNCHANGED <<waiting, status, created>> /\ (pc' = "unlocked" \/ (pc # "unlocked" /\ rest' = rest))
    BY <1>1 DEF StartPreempt, PreemptHelped, EndPass, vars, Queued
  <2>. QED  BY <2>1 DEF Queued, ByPriority
<1>. QED  BY <1>1, QueuedAdd, QueuedStart, QueuedAdmit, QueuedPreempt, QueuedUpdate DEF Next, Pass

(* A sequence that runs for the first time overtakes no older one of its   *)
(* priority or above that has also never run.                              *)
THEOREM BatchFirstCome == Spec => FirstComeFirstServed
<1>1. ASSUME BInv, Queued, [Next]_vars, NEW r \in Req, NEW q \in Req,
             status[r] = "waiting", status'[r] = "running",
             status[q] = "waiting", q # r
      PROVE  Priority[q] < Priority[r] \/ (Priority[q] = Priority[r] /\ Age(q) > Age(r))
  <2>. USE <1>1
  <2>0. status \in [Req -> Status] /\ rest \in Seq(Req)
    BY DEF BInv, TypeOK
  <2>1. Admit
    <3>1. CASE Preempt
      <4>1. PICK i \in DOMAIN batch : status' = [status EXCEPT ![batch[i]] = "preempted"]
        BY <3>1 DEF Preempt
      <4>. QED  BY <4>1, <2>0
    <3>2. ASSUME NEW x \in Req, NEW n \in 1 .. MaxStep, Update(x, n) PROVE FALSE
      BY <3>2, <2>0 DEF Update
    <3>3. ASSUME NEW x \in Req, AddRequest(x) PROVE FALSE
      BY <3>3, <2>0 DEF AddRequest
    <3>4. CASE UNCHANGED status
      BY <3>4
    <3>. QED  BY <3>1, <3>2, <3>3, <3>4
              DEF Next, Pass, StartPass, StartPreempt, PreemptHelped, EndPass, vars
  <2>2. pc # "unlocked" /\ rest # <<>> /\ r = Head(rest)
    BY <2>0, <2>1 DEF Admit
  <2>3. /\ q \in Range(rest) /\ DOMAIN rest = 1 .. Len(rest) /\ Len(rest) \in Nat \ {0}
        /\ r = rest[1]
    BY <2>0, <2>2, LenProperties, EmptySeq DEF Queued
  <2>4. PICK k \in DOMAIN rest : rest[k] = q
    BY <2>3 DEF Range
  <2>5. 1 < k /\ 1 \in DOMAIN rest
    BY <2>3, <2>4
  <2>6. Priority[r] >= Priority[q] /\ Priority[r] \in Int /\ Priority[q] \in Int
    BY <2>2, <2>3, <2>4, <2>5, BatchAssumption DEF Queued, ByPriority
  <2>7. Priority[r] = Priority[q] => AgeIn(created, r) < AgeIn(created, q)
    BY <2>2, <2>3, <2>4, <2>5 DEF Queued, OldestFirst
  <2>8. AgeIn(created, r) \in Int /\ AgeIn(created, q) \in Int
    <3>1. r \in Range(created) /\ q \in Range(created) /\ DOMAIN created = 1 .. Len(created)
      BY LenProperties DEF Queued, BInv, TypeOK
    <3>. QED  BY <3>1 DEF Range, AgeIn
  <2>9. Age(r) = AgeIn(created, r) /\ Age(q) = AgeIn(created, q)
    BY DEF Age, AgeIn
  <2>. QED  BY <2>6, <2>7, <2>8, <2>9
<1>2. BInv /\ Queued /\ [Next]_vars =>
        [\A r, q \in Req :
           (/\ status[r] = "waiting" /\ status'[r] = "running"
            /\ status[q] = "waiting" /\ q # r /\ q \in Range(created))
             => Priority[q] < Priority[r]
                \/ (Priority[q] = Priority[r] /\ Age(q) > Age(r))]_vars
  BY <1>1
<1>. QED  BY <1>2, InitBInv, StepBInv, QueuedInit, StepQueued, PTL DEF Spec, FirstComeFirstServed

----------------------------------------------------------------------------
(* A pass comes to an end.                                                 *)

(* With the lock held, each step ends the pass, takes the next sequence    *)
(* off the copy of the queue, or evicts: it cannot go round in circles.    *)
THEOREM BatchPassEnds == Spec => PassSpends
<1>1. ASSUME BInv, BInv', pc # "unlocked", [Next]_vars, ~UNCHANGED vars
      PROVE  \/ pc' = "unlocked"
             \/ Len(rest') < Len(rest)
             \/ Len(rest') = Len(rest) /\ ToEvict' < ToEvict
  <2>. USE <1>1
  <2>1. Admit \/ StartPreempt \/ Preempt \/ PreemptHelped \/ EndPass
    BY DEF Next, Pass, StartPass, AddRequest, Update
  <2>2. Len(batch) \in Nat /\ Len(rest) \in Nat /\ Len(batch') \in Nat
    BY LenProperties DEF BInv, TypeOK
  <2>3. CASE Admit
    <3>1. rest \in Seq(Req) /\ rest # <<>> /\ rest' = Tail(rest)
      BY <2>3 DEF Admit, BInv, TypeOK
    <3>. QED  BY <2>2, <3>1, TailElements
  <2>4. CASE StartPreempt
    <3>1. /\ pc = "admit" /\ pc' = "preempt" /\ rest # <<>> /\ ~Fits(Head(rest))
          /\ batch' = batch /\ rest' = rest
      BY <2>4 DEF StartPreempt
    <3>2. ToEvict = 2 + Len(batch) /\ ToEvict' = 1 + Len(batch)
      BY <3>1 DEF ToEvict
    <3>. QED  BY <2>2, <3>1, <3>2
  <2>5. CASE Preempt
    <3>1. pc = "preempt" /\ pc' = "preempt" /\ rest' = rest
      BY <2>5 DEF Preempt
    <3>2. Len(batch') = Len(batch) - 1
      <4>1. PICK i \in DOMAIN batch : batch' = RemoveAt(batch, i)
        BY <2>5 DEF Preempt
      <4>. QED  BY <4>1, RemoveAtPositions DEF BInv, TypeOK
    <3>3. ToEvict = 1 + Len(batch) /\ ToEvict' = 1 + Len(batch')
      BY <3>1 DEF ToEvict
    <3>. QED  BY <2>2, <3>1, <3>2, <3>3
  <2>6. CASE PreemptHelped
    <3>1. /\ pc = "preempt" /\ pc' = "admit" /\ Fits(Head(rest))
          /\ batch' = batch /\ rest' = rest /\ generated' = generated
      BY <2>6 DEF PreemptHelped
    <3>2. ToEvict = 1 + Len(batch)
      BY <3>1 DEF ToEvict
    <3>3. Fits(Head(rest))'
      BY <3>1 DEF Fits, Tokens, TotalTokens
    <3>4. ToEvict' = 0
      BY <3>1, <3>3 DEF ToEvict
    <3>. QED  BY <2>2, <3>1, <3>2, <3>4
  <2>7. CASE EndPass
    BY <2>7 DEF EndPass
  <2>. QED  BY <2>1, <2>3, <2>4, <2>5, <2>6, <2>7
<1>2. BInv /\ BInv' /\ [Next]_vars =>
        [pc # "unlocked" => \/ pc' = "unlocked"
                            \/ Len(rest') < Len(rest)
                            \/ Len(rest') = Len(rest) /\ ToEvict' < ToEvict]_vars
  BY <1>1
<1>. QED  BY <1>2, InitBInv, StepBInv, PTL DEF Spec, PassSpends

(* Of finitely many sequences one is of the lowest priority and, among     *)
(* those of that priority, the youngest.                                   *)
LEMMA VictimExists ==
  ASSUME BInv, Queued, batch # <<>>, pc # "unlocked"
  PROVE  \E i \in DOMAIN batch : IsVictim(i)
<1>. DEFINE D == DOMAIN batch
            Low == {0 - Priority[batch[i]] : i \in D}
            B == {i \in D : 0 - Priority[batch[i]] = Max(Low)}
            Ages == {Age(batch[i]) : i \in B}
<1>1. /\ D = 1 .. Len(batch) /\ Len(batch) \in Nat \ {0} /\ IsFiniteSet(D)
      /\ \A i \in D : /\ batch[i] \in Req /\ Priority[batch[i]] \in Int
                      /\ batch[i] \in Range(batch)
      /\ IsInjective(batch)
  <2>1. batch \in Seq(Req) /\ IsInjective(batch)
    BY DEF BInv, TypeOK, PlacedOnce
  <2>2. D = 1 .. Len(batch) /\ Len(batch) \in Nat \ {0}
    BY <2>1, LenProperties, EmptySeq
  <2>3. IsFiniteSet(1 .. Len(batch))
    BY <2>2, FS_Interval
  <2>4. \A i \in D : batch[i] \in Req /\ batch[i] \in Range(batch)
    BY <2>1, <2>2, ElementOfSeq DEF Range
  <2>. QED  BY <2>1, <2>2, <2>3, <2>4, BatchAssumption
<1>2. \A i \in D : Age(batch[i]) \in Int /\ created[Age(batch[i])] = batch[i]
  <2>. SUFFICES ASSUME NEW i \in D
                PROVE  Age(batch[i]) \in Int /\ created[Age(batch[i])] = batch[i]
    OBVIOUS
  <2>1. status[batch[i]] = "running"
    BY <1>1 DEF BInv, PlacedOnce
  <2>2. batch[i] \in Range(created) /\ DOMAIN created = 1 .. Len(created)
    BY <1>1, <2>1, LenProperties DEF Queued, BInv, TypeOK
  <2>. QED  BY <2>2 DEF Range, Age
<1>3. Max(Low) \in Low /\ \A y \in Low : Max(Low) >= y
  <2>1. Low \in SUBSET Int /\ Low # {}
    BY <1>1
  <2>2. IsFiniteSet(Low)
    <3>. DEFINE f == [i \in D |-> 0 - Priority[batch[i]]]
    <3>1. IsFiniteSet({f[i] : i \in D})
      BY <1>1, FiniteValues
    <3>2. Low = {f[i] : i \in D}
      OBVIOUS
    <3>. QED  BY <3>1, <3>2
  <2>. HIDE DEF Low
  <2>. QED  BY <2>1, <2>2, FiniteMax
<1>4. Max(Ages) \in Ages /\ \A y \in Ages : Max(Ages) >= y
  <2>1. B # {} /\ B \in SUBSET D
    BY <1>3
  <2>2. Ages \in SUBSET Int /\ Ages # {}
    BY <1>2, <2>1
  <2>3. IsFiniteSet(B)
    BY <1>1, <2>1, FS_Subset
  <2>4. IsFiniteSet(Ages)
    <3>. DEFINE f == [i \in B |-> Age(batch[i])]
    <3>1. IsFiniteSet({f[i] : i \in B})
      BY <2>3, FiniteValues
    <3>2. Ages = {f[i] : i \in B}
      OBVIOUS
    <3>. QED  BY <3>1, <3>2
  <2>. HIDE DEF Ages
  <2>. QED  BY <2>2, <2>4, FiniteMax
<1>5. PICK i \in B : Age(batch[i]) = Max(Ages)
  BY <1>4
<1>6. ASSUME NEW j \in D \ {i}
      PROVE  \/ Priority[batch[i]] < Priority[batch[j]]
             \/ /\ Priority[batch[i]] = Priority[batch[j]]
                /\ Age(batch[i]) > Age(batch[j])
  <2>1. 0 - Priority[batch[i]] >= 0 - Priority[batch[j]]
    BY <1>3
  <2>2. CASE Priority[batch[i]] = Priority[batch[j]]
    <3>1. j \in B
      BY <2>2
    <3>2. Age(batch[i]) >= Age(batch[j])
      BY <1>4, <1>5, <3>1
    <3>3. batch[i] # batch[j]
      BY <1>1 DEF IsInjective
    <3>4. Age(batch[i]) # Age(batch[j])
      BY <1>2, <3>3
    <3>. QED  BY <1>2, <2>2, <3>2, <3>4
  <2>. QED  BY <1>1, <2>1, <2>2
<1>. QED  BY <1>6 DEF IsVictim

(* And while the batch is over the budget there is always somebody to      *)
(* evict: the loop of _maybe_preempt does not stop short.                  *)
THEOREM BatchVictim ==
  Spec => [](pc = "preempt" /\ OverBudget => \E i \in DOMAIN batch : IsVictim(i))
<1>1. ASSUME BInv, Queued, pc = "preempt", OverBudget
      PROVE  \E i \in DOMAIN batch : IsVictim(i)
  <2>1. /\ TokensOf \in [Req -> Nat] /\ batch \in Seq(Req)
        /\ Tokens(batch) = Weigh(TokensOf, batch)
    BY <1>1, TokensWeigh DEF BInv, TypeOK
  <2>2. batch # <<>>
    <3>1. batch = <<>> => Tokens(batch) = 0
      BY <2>1, WeighSteps
    <3>. QED  BY <1>1, <3>1, BatchAssumption DEF OverBudget
  <2>. QED  BY <1>1, <2>2, VictimExists
<1>. QED  BY <1>1, InitBInv, StepBInv, QueuedInit, StepQueued, PTL DEF Spec

=============================================================================
