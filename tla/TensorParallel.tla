--------------------------- MODULE TensorParallel ---------------------------
(***************************************************************************)
(* TensorParallelManager, src/src/tensor_parallel.py, and                  *)
(* TensorParallelEngine, src/src/vllm_rocm/tp_engine.py: one process per   *)
(* GPU joins the others, takes its part of a layer and gathers the parts   *)
(* again.  Nothing in the repository starts the processes or makes these   *)
(* calls, so the job is the caller's: it starts as many processes as it    *)
(* tells each there are, and all make the same calls.                      *)
(*                                                                         *)
(* A tensor is a list of rows: a weight's are its output features, an      *)
(* output's are the tokens, with an output feature in each column.         *)
(***************************************************************************)
EXTENDS Integers, Sequences

CONSTANTS
  WorldSizes,      \* world_size
  HeadCounts,      \* num_heads of the attention layer
  HeadDim,
  InFeatures,      \* the columns of a weight
  Tokens           \* the rows of a layer's output

ASSUME WorldAssumption == WorldSizes \subseteq Nat \ {0}
ASSUME LayerAssumption ==
  HeadCounts \subseteq Nat \ {0} /\ {HeadDim, InFeatures, Tokens} \subseteq Nat \ {0}

VARIABLES
  job,           \* what is gathered, how many processes there are, the layer, and
                 \* whether somebody else has formed the process group
  phase,         \* where each process is
  grouped,       \* dist.is_initialized in each process
  rank,          \* self.rank
  share,         \* module.weight: the whole or a part
  heads,         \* module.num_heads
  gathered       \* what all_gather returned

tpVars == <<job, phase, grouped, rank, share, heads, gathered>>

(* The engine splits along rows or columns and gathers along the same      *)
(* axis; of the manager's layers one gathers the outputs or the weights.   *)
Job == [gathers : {"rows", "columns", "outputs", "weights"}, world : WorldSizes,
        heads : HeadCounts, preset : BOOLEAN]

Engine == job.gathers \in {"rows", "columns"}
World == job.world
Process == 0 .. World - 1
Whole == [o \in 1 .. job.heads * HeadDim |-> [i \in 1 .. InFeatures |-> <<o, i>>]]

TPInit ==
  /\ job \in Job
  /\ phase = [p \in Process |-> "start"]
  /\ grouped = [p \in Process |-> job.preset]
  /\ rank = [p \in Process |-> 0]
  /\ share = [p \in Process |-> Whole]
  /\ heads = [p \in Process |-> job.heads]
  /\ gathered = [p \in Process |-> <<>>]

(* The manager's __init__: alone, it needs nobody; in a group that exists  *)
(* already, it does not ask for its rank.                                  *)
StartManager(p) ==
  /\ ~Engine /\ phase[p] = "start"
  /\ phase' = [phase EXCEPT ![p] = IF World > 1 /\ ~grouped[p] THEN "joining" ELSE "ready"]
  /\ UNCHANGED <<job, grouped, rank, share, heads, gathered>>

(* The engine's init_distributed. *)
StartEngine(p) ==
  /\ Engine /\ phase[p] = "start"
  /\ phase' = [phase EXCEPT ![p] = IF grouped[p] THEN "ready" ELSE "joining"]
  /\ rank' = [rank EXCEPT ![p] = IF grouped[p] THEN p ELSE @]
  /\ UNCHANGED <<job, grouped, share, heads, gathered>>

(* init_process_group returns in all processes once all of them are in. *)
Form ==
  /\ \A p \in Process : phase[p] = "joining"
  /\ phase' = [p \in Process |-> "ready"]
  /\ grouped' = [p \in Process |-> TRUE]
  /\ rank' = [p \in Process |-> p]
  /\ UNCHANGED <<job, share, heads, gathered>>

(* Mutant: the rank is not read, so that everybody has rank 0's part. *)
PartOfFirst(list, r) == SubSeq(list, 1, Len(list) \div World)

(* The r-th of World equal parts; what is left over is in none. *)
PartOf(list, r) ==
  LET size == Len(list) \div World IN SubSeq(list, r * size + 1, (r + 1) * size)

(* parallelize with _split_linear and _split_attention: what does not      *)
(* divide stays whole.                                                     *)
Parallelize(p) ==
  /\ ~Engine /\ phase[p] = "ready"
  /\ phase' = [phase EXCEPT ![p] = "split"]
  /\ share' = [share EXCEPT ![p] = IF Len(@) % World = 0 THEN PartOf(@, rank[p]) ELSE @]
  /\ heads' = [heads EXCEPT ![p] = IF @ % World = 0 THEN @ \div World ELSE @]
  /\ UNCHANGED <<job, grouped, rank, gathered>>

ShardWeights(p) ==
  /\ Engine /\ phase[p] = "ready"
  /\ phase' = [phase EXCEPT ![p] = "split"]
  /\ share' = [share EXCEPT ![p] =
                  IF job.gathers = "rows" THEN PartOf(@, rank[p])
                  ELSE [o \in DOMAIN @ |-> PartOf(@[o], rank[p])]]
  /\ UNCHANGED <<job, grouped, rank, heads, gathered>>

(* What a layer with the rows of w returns: for each token its product     *)
(* with each row.                                                          *)
Output(w) == [t \in 1 .. Tokens |-> [o \in DOMAIN w |-> <<t, w[o]>>]]

(* The tensor that a process hands to all_gather. *)
Handed(p) == IF job.gathers = "outputs" THEN Output(share[p]) ELSE share[p]

(* all_gather: alone, the tensor is returned as it is; otherwise the call  *)
(* waits for the others, also where nothing was split.                     *)
Gather(p) ==
  /\ phase[p] = "split"
  /\ phase' = [phase EXCEPT ![p] = IF World = 1 THEN "gathered" ELSE "gathering"]
  /\ gathered' = [gathered EXCEPT ![p] = IF World = 1 THEN Handed(p) ELSE @]
  /\ UNCHANGED <<job, grouped, rank, share, heads>>

(* Lists of one length, one after another in the order of the ranks. *)
Joined(lists) ==
  LET size == Len(lists[0])
  IN  [i \in 1 .. World * size |-> lists[(i - 1) \div size][((i - 1) % size) + 1]]

(* torch.cat: the engine's along the axis it is given, the manager's       *)
(* always along the last, where an output has its features but a weight    *)
(* has its inputs.                                                         *)
Cat(tensors) ==
  IF job.gathers = "rows" THEN Joined(tensors)
  ELSE [o \in DOMAIN tensors[0] |-> Joined([r \in Process |-> tensors[r][o]])]

(* The collective ends in all processes. *)
GatherAll ==
  /\ \A p \in Process : phase[p] = "gathering"
  /\ phase' = [p \in Process |-> "gathered"]
  /\ gathered' = [p \in Process |-> Cat([r \in Process |-> Handed(r)])]
  /\ UNCHANGED <<job, grouped, rank, share, heads>>

(* cleanup; the manager's only if it was initialised. *)
Cleanup(p) ==
  /\ phase[p] = "gathered"
  /\ phase' = [phase EXCEPT ![p] = "ended"]
  /\ grouped' = [grouped EXCEPT ![p] = @ /\ ~(Engine \/ World > 1)]
  /\ UNCHANGED <<job, rank, share, heads, gathered>>

TPStep ==
  \/ \E p \in Process :
       StartManager(p) \/ StartEngine(p) \/ Parallelize(p) \/ ShardWeights(p)
         \/ Gather(p) \/ Cleanup(p)
  \/ Form \/ GatherAll

TPSpec == TPInit /\ [][TPStep]_tpVars

----------------------------------------------------------------------------
(* The first of a list, as many as World equal parts of it hold. *)
Divisible(list) == SubSeq(list, 1, World * (Len(list) \div World))

(* What one process alone would have. *)
Undivided ==
  CASE job.gathers = "rows" -> Divisible(Whole)
    [] job.gathers = "columns" -> [o \in DOMAIN Whole |-> Divisible(Whole[o])]
    [] job.gathers = "outputs" -> Output(Whole)
    [] job.gathers = "weights" -> Whole

(* The engine along either axis; a manager that formed its group, for the  *)
(* output of a layer whose features divide; and whoever is alone.          *)
PutsTogether ==
  \/ Engine \/ World = 1
  \/ job.gathers = "outputs" /\ ~job.preset /\ Len(Whole) % World = 0

(* What an engine's processes gather along the axis they split is the      *)
(* weight, in order, but for the rows or columns that do not divide; what  *)
(* a manager's gather along the last axis is the output that the undivided *)
(* layer has.  And where the heads divide, a manager's process counts the  *)
(* heads whose rows it has.  Left out because it is not so: a manager's    *)
(* gathered weights, which come side by side instead of one below the      *)
(* other; the output of a layer that stayed whole, which comes World times *)
(* over; and a manager in a group it did not form, all of whose processes  *)
(* take the part of rank 0.                                                *)
GatherWhole ==
  \A p \in Process :
    phase[p] = "gathered" /\ PutsTogether =>
      /\ gathered[p] = Undivided
      /\ ~Engine /\ job.heads % World = 0 => Len(share[p]) = heads[p] * HeadDim

=============================================================================
