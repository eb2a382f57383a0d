# TLA+ models of vLLM-ROCm

Models, checks and proofs for the serving engine under `src/src/`: an HTTP
server, an inference engine, a continuous-batching scheduler and a block
manager for the paged KV cache, with a second, independent package
`src/src/vllm_rocm/`. Paths below are relative to the directory that holds
`src/`.

## The system

| Component | Source | State it keeps | Operations |
|---|---|---|---|
| API server | `src/src/api_server.py` | the global `engine`; per request, a handler suspended at an await | `/v1/completions` (gathers one `generate_text` per prompt), `/v1/chat/completions` (one), `/health`, `/v1/models`, `lifespan` |
| Engine | `src/src/engine.py` | `_started`, the objects it owns | `start`, `shutdown`, `generate_chat`, `generate_text` |
| Scheduler | `src/src/scheduler.py` | `waiting`, `running`, `preempted`; each sequence's status, tokens, block ids and future | `add_request`, `_schedule_tick` = `_preempt`, `_schedule`, `_run_step` (`_finish`) |
| Block manager | `src/src/cache/block_manager.py` | LIFO free list, a flag and a count per block, swap table | `allocate`, `allocate_prefix`, `free`, `swap_out`, `swap_in` |
| KV cache manager | `src/src/cache/paged_attention.py` | a key and a value tensor per block, swap buffer | `init_cache`, `write_kv`, `read_kv`, `swap_out`, `swap_in`, `copy_block` |
| Continuous batch scheduler | `src/src/vllm_rocm/scheduler.py` | `waiting`, `running`, `finished`, a lock | `add_request`, `schedule` (`_maybe_preempt`), `update_generated_tokens` |
| Paged KV caches | `src/src/paged_attention.py`, `src/src/vllm_rocm/paged_attention.py` | free list, block tables, tensors | allocate or append, write, read, free |
| Prefix cache | `src/src/vllm_rocm/prefix_cache.py` | entries by hash, list of keys | `lookup`, `insert`, `_evict`, `invalidate` |
| Tensor parallelism | `src/src/tensor_parallel.py`, `src/src/vllm_rocm/tp_engine.py` | rank, initialised flag | splitting of weights and heads, collectives, cleanup |
| Configuration | `src/src/config.py`, `src/configs/` | none | `from_cli`: command line, YAML, defaults |
| Quantization | `src/src/vllm_rocm/quantization.py` | scales by method | `quantize_int4_awq`, `quantize_int4_gptq`, `get_dequant_fn`, FP8 |
| Memory manager, serving stub | `src/src/vllm_rocm/` | none that is read | arithmetic, a fixed answer |
| HIP kernels, benchmarks, tests, packaging | `src/kernels/`, `src/benchmarks/`, `src/tests/`, `src/docker/` | none | |

How they interact. Everything from the API server to the block manager runs on
one asyncio loop. A handler calls `generate_text`, which submits a
`SequenceGroup` with `add_request` and awaits its future. `add_request` asks
the loop for one `_schedule_tick`; a tick that has run a step asks for the next
one a millisecond later. So every request starts a chain of ticks of its own,
and ticks of several chains, arrivals, resumed tasks and cancellations
interleave, but only between callbacks: a tick contains no await. The scheduler
calls the block manager directly. It is given the KV cache manager and never
uses it. Nothing in the repository uses `src/src/vllm_rocm/`,
`src/src/paged_attention.py` or `src/src/tensor_parallel.py`; their classes are
libraries whose caller is modelled as their methods ask for. The configuration
is read once; its options are constants of the modules.

What is hard. Blocks change hands by four different paths (admission, eviction
in two modes, completion), some of which can be cut short by an exception.
Ticks are the only thing that drives the scheduler, so a missing one stops
everything. Handlers end in any order, are cancelled at any await and leave
sequences behind. In `vllm_rocm`, the results of a batch arrive after later
passes have evicted or readmitted its sequences. In the caches, block ids
outlive the sequence that had them: in the swap buffer, in the block manager's
swap table and in the prefix cache. Splitting and rounding go wrong at their
edges: what does not divide, a half, a group of zeros. What makes each part
correct: no block is lost or owned twice; a sequence is where its status says; a
caller is answered with all tokens, or not at all; the loop neither stalls nor
spins; a sequence reads from a cache what it wrote; a cache hit holds the tokens
it was asked for; what the ranks gather is what one process alone would have; a
dequantized weight is within half a step.

## Modules

| Module | Models | Composes |
|---|---|---|
| `BlockPool` | the abstract pool: owners acquire, extend and release sets of blocks | |
| `TokenStore` | the abstract cache: a sequence appends tokens, reads them all, forks, ends | |
| `Lists` | Python lists that are popped from, filtered and summed | |
| `BlockManager` | the block manager's state and each method as an action | |
| `BlockClients` | every use the methods allow: clients that allocate, share a prefix, free, swap out and in | `BlockManager`; refines `BlockPool` |
| `Scheduler` | the scheduler, its tick iteration by iteration | `BlockManager`; refines `BlockPool` |
| `Engine` | HTTP handlers, `generate_text`, shutdown, on the same loop | `Scheduler`; refines `Scheduler!Spec` |
| `BatchScheduler` | `ContinuousBatchScheduler` and the thread that runs its batches | |
| `KVBlocks` | positions, slots and blocks: write and read, common to the caches | |
| `KVCache` | the KV cache manager, and the sequences that use it with the block manager | `BlockManager`, `KVBlocks`; refines `TokenStore` |
| `BlockTables` | what the two `PagedAttentionManager` classes have in common | `KVBlocks`; refines `BlockPool` and `TokenStore` |
| `PagedAttention`, `RocmPagedAttention` | tables made whole; tables that grow with the tokens | `BlockTables` |
| `PrefixCache` | the prefix cache over the blocks of `RocmPagedAttention` | `RocmPagedAttention` |
| `TensorParallel` | the processes of a job: start, group, split, gather, cleanup, with either class | |
| `Quantization` | INT4 quantization of layers and its inverse, in exact arithmetic | |
| `SequenceLemmas`, `BlockManagerProofs`, `ClientProofs`, `SchedulerProofs`, `EngineProofs`, `BatchProofs`, `StoreProofs`, `LaunchProofs` | theorems and proofs | |
| `MC*` | constants and symmetry for TLC; `MCStores` and `MCLaunch` choose at the start which of several independent behaviours they run | |

State is named as in the code (`freeIds` for `_free_block_ids`, `blockIds` for
`block_ids`, `future` for `completion_future`, and so on; `PROJECT.json` maps each
definition to its lines). `pc` says where a callback, or the thread that holds
the lock, is. Correspondence worth knowing:

* One tick is `StartTick`, then `PreemptOne` per evicted sequence and
  `PreemptDone`, `ScheduleOne` per admitted one and `ScheduleDone`, then
  `RunGenerate` or `RunFinish` per running one and `RunDone`. No other action is
  enabled while `pc # "idle"`, so a tick is as atomic as in the code, while
  invariants hold at each of its iterations too.
* `list.remove` compares with `==`, and `SequenceGroup` is a dataclass with a
  tensor field: an earlier element with the same request id makes the comparison
  raise `RuntimeError`. Ids are `"gen-"` and the address of the prompt, so two
  live requests have the same id when they share the prompt object (CPython
  keeps one object per one-character string), or when the first caller is gone
  and its address used again. `RemoveRaises`, `PreemptRaises` and `FinishRaises`
  model this; `AddressReuse` switches it.
* `Cancel` is asyncio's cancellation of a task that awaits the future: a caller
  with a timeout, or a server forced to stop. `_finish` asks `done()` because of
  it.
* In `Engine`, the tasks of `gather` start in one round of the loop, one after
  the other, and are cancelled in one round; `todo` holds what is left of a
  round. `Shutdown` may come at any time, which covers embeddings of the engine
  as well as uvicorn, which first ends its handlers. `MayNotEncode` are prompts
  on which the tokenizer may raise.
* In `BatchScheduler`, creation times are distinct, so that the order of victims
  is determined; `running` is the insertion order of the dict; `StableSorts`
  describes `list.sort`; and a batch is reported sequence by sequence, each once.

* A token stands for its key and value tensors, which are always moved together;
  `cells`, `kvCache` are functions from block to slot to token. `ids`, `tables` are
  the sequences' block lists; a position's block and slot are `\div` and `%`
  of `BlockSize`, as in the code, and `Stored` is what a read of all positions
  returns.
* In `KVCache`, `SaveAway` and `BringBack` are the two `swap_out`s and `swap_in`s,
  the cache's and the block manager's. A swapped-out sequence may try to come back
  at any time. If one of its blocks is taken, the block manager's `swap_in` raises
  and nothing is restored (`BringBackRaises`); the swap table is keyed by block
  alone, so an entry may be gone with another sequence's swap-in, and its block is
  then skipped without a word. The modelled caller notices that it got fewer
  blocks than it gave up (`NewIds`) and starts over on them: the tokens it could
  read there are not where it wrote them. `Branch` is a beam that copies its
  blocks.
* The callers of the paged caches write positions in order, no more than they
  asked room for, and end a sequence before they start it again. A caller of the
  prefix cache inserts what a sequence has computed and invalidates all its
  prefixes before it ends it, as nothing else keeps the blocks from being
  reused. A prefix stands for its hash.
* In `TensorParallel`, a job is the caller's, as nothing in the repository starts
  the processes or makes the calls: what is split and gathered (an engine's
  weight along its rows or its columns, a manager's weight or the output of its
  layer), the number of processes and of heads, and whether somebody else has
  formed the process group. `Form` and `GatherAll` are the collectives, which end
  in all processes at once. An element of a tensor names its row and column, so
  that what is gathered shows what is missing or out of place. `Cat` joins along
  the axis the class uses: the engine's is the one it is given, the manager's
  always the last.
* In `Quantization` a scale stands as seven times itself, the largest magnitude in
  the group, so that arithmetic is exact; a NaN may become any code of `NaNCodes`.

Definitions marked "Mutant" are plausible bugs of the definition that follows.
No specification uses them; `PROJECT.json` pairs each with the property that
finds it, so that every property is known to be able to fail.

## Runs

| Run | Shows | Instance |
|---|---|---|
| `clients` | free list, flags, counts and holders agree; the blocks are an abstract pool | 3 blocks, 3 symmetric clients |
| `recompute` | all safety of the scheduler (11 properties) | 4 requests of 1 or 2 blocks, 3 blocks, 2 seats |
| `swap_reuse` | block accounting in swap mode and across aborted ticks; the loop never goes round in circles | 3 requests that may share an id, 3 blocks |
| `engine` | answers are whole, the scheduler is used as specified, handlers end, evictions are followed by completions, cancelled work is given back, the loop goes idle | 3 handlers, 4 prompts, 2 blocks |
| `batch` | lists, order of admission, the reserve; a pass gets on and ends | 4 sequences, 2 priorities, limit of 4 tokens, overlapping passes |
| `batch_live` | every sequence finishes | the same, passes one at a time |
| `stores` | in each of the three KV caches a sequence reads what it wrote and blocks have one owner; the prefix cache's index is in step, and its hits hold their prefix | 2 symmetric sequences, 2 tokens, 2 or 3 blocks of 2 tokens, 2 cached prefixes |
| `launch` | what an engine gathers is the weight, but for the remainder, and what a manager gathers the output of the whole layer; no process is left in a collective; weights come back within half a step | 1 to 3 processes, 1 to 4 heads of 2 rows and 5 columns, 2 tokens; 2 layers of 5 columns in groups of 2 |
| `readded`, `blocks_grow`, `tick_lost`, `swap_in_leak` | disagreements between the code and its own statements | see below |

Bounds. Arrivals, evictions and completions compete already with two sequences;
a third or fourth makes the order of eviction, a second eviction in one pass and
a queue behind its head possible. Prompts take from less than one block to all
of them, lengths are on both sides of a block boundary (`BlockSize = 2`), and
token counts are small because a token changes nothing but lengths. The
coverage of each run was looked at: every action fires, including the two ways a
tick aborts and both preemption modes. Nothing is bounded by a state constraint:
requests are finitely many, so the state spaces are finite. Every run checks
for deadlock: a loop without callbacks is the explicit action `Quiesced`
(`EngineQuiesced`), and in `launch`, `Terminating` is for jobs whose processes have all
ended and for quantized layers, so that a process left in a collective would be
reported.

In `stores`, two sequences compete for blocks that hold less than both want, so
that every block changes owners, half-filled last blocks occur, a swapped-out
sequence finds its blocks taken, free again without a swap entry, or with the
entry of the other sequence, and so tries in vain or comes back with fewer; 2 cached prefixes are fewer than a sequence
inserts. One of the two tokens is also what an unwritten cell holds, as a
tensor of zeros may be. In `launch`, the rows and columns divide among the processes or
leave 1 or 2 over, or are fewer; the heads divide where the rows do or not; the
group is formed by the class or before it. The weights -3, 0 and 2 with groups of 2
give quotients on both sides of a half, the maximum on either side, and
groups of zeros; the fifth column is the one the code drops. These bounds are
for the cases, not the proof of them: what the two runs check in safety is also
proved for all values.

Fairness. asyncio runs every callback it has accepted: weak fairness of a tick,
of the rest of a round, of a resumed task and of a handler that can go on. No
client has to send a request and nobody has to cancel one. For `batch_live`:
the serving thread calls `schedule` again and reports each sequence it ran.

What the liveness runs do and do not say. `EventuallySettled` and `HandlerEnds`
count a preempted sequence as settled, because the code never takes one back
(run `readded`). An eviction makes room for a head of the queue, and
`SomeoneFinishes` says that as long as there is one, one more sequence finishes
than had until then: no eviction is in vain, however many finished before it.
All three are checked where each request fits an empty cache: a longer one at the
head of the queue blocks it (see the hazards). `readded` runs in swap mode, which the
quoted line is about; in the other mode the same happens. In `launch`, a process
that dies would leave the others waiting, and the code does nothing about it; the
model has none that dies.

### Disagreements found

* `readded`: "Swapped sequences are re-added to waiting queue when space is
  freed." (`src/src/scheduler.py:66`); nothing ever leaves `preempted`.
* `blocks_grow`: "Dynamic allocation as sequences grow"
  (`src/docs/architecture.md:47`); blocks are allocated once.
* `tick_lost`: "All sequences continue" and the next tick follows
  (`src/src/scheduler.py:151`); a comparison that raises ends the chain with
  sequences running.
* `swap_in_leak`: "Free list tracks available blocks"
  (`src/src/cache/block_manager.py:30`); a `swap_in` that raises halfway leaves
  blocks that nobody holds out of it.

Others, seen while modelling and not run: `allocate` promises contiguous blocks
and returns whatever is on top of the free list (`block_manager.py:82`);
`swap_in` raises although enough other blocks are free, if one of the old ids is
taken; `swap_out` frees shared blocks; the KV cache manager ignores the layer
(`cache/paged_attention.py:100`), so with several layers each overwrites the last, and
uses a decorator before its import; "Override from YAML if provided"
(`config.py:59`) happens only where the command line leaves `None`, so an option with
a default, `tensor_parallel_size` among them, is never overridden, and nothing
passes that option to the tensor-parallel classes anyway; the manager's
`all_gather` joins along the last axis (`tensor_parallel.py:119`) although it splits
rows (`tensor_parallel.py:90`), which fits a layer's output but puts the rows of a
weight side by side, and the output of a layer that did not divide comes
`world_size` times over; a manager in a process group that it did not
form keeps rank 0, so all ranks take the same part (`tensor_parallel.py:52`), and
`parallelize` called twice splits twice; rows and heads are split under
conditions of their own (`tensor_parallel.py:83`); GPTQ keeps the scales of the last
layer only (`quantization.py:89`); an entry of the block manager's swap table does
not say whose it is (`block_manager.py:130`).

## Proofs

TLAPS checks all of these for every value of the constants, under the named
assumptions of the modules (a finite set of requests, positive block size and
number of blocks, and types).

*Lists and the block manager.* `SequenceLemmas` says what appending, taking the
tail, removing, popping and filtering do to a list without duplicates;
filtering (`KeepOnlyElements`) rests on a counting argument, since the prover has
no induction. For sums of a list bounded induction is enough, and that can be
proved: the numbers up to which something holds have a greatest (`CountUp`). It
gives that the recursive function in `SumOf` exists (`SumsExist`) and what one
member more or less does to it (`SumAppend`, `SumRemoveAt`). `BlockManagerProofs` adds
what each method of the block manager does to the free list. Both are cited by
everything below.

*Clients of the block manager.* `ClientInv == TypeOK /\ FreeListOK /\ Placed /\
Counted`. `FreeListConsistent` and `SharedRefs` are not inductive: that `free` gives
a block back only with its last holder needs that at most two clients share a
block and that both are counted, and after a swap-in the counts that earlier
owners left behind must not exceed one. The theorems are about
clients that ask whether their blocks are free before they swap in
(`~SwapInBlind`); for the others `FreeListTracksAvailable` fails (run
`swap_in_leak`).

*Scheduler.* The inductive invariant is `AInv == TypeOK /\ BlockAccounting /\
Queued`. `BlockAccounting` alone is not inductive: that an admitted sequence has
no blocks yet needs the part of the placement that `Queued` states, which, unlike
`PlacedOnce`, survives ticks that abort. One lemma per action, over two lemmas on
what `allocate`, `free` and `swap_out` do to the free list, gives `TypeCorrect` and
`Accounting` with and without shared ids and in both modes, and, step by step,
`ImplementsPool` (run `recompute` checks it in one mode, the theorem is about
both). `EvictionHelps` needs that an empty running list means a full free list
(`NothingRunning`, by counting). `ChainsBounded` strengthens its bound
by the tick in progress (`ChainInv`). `FuturesSetOnce` and `SeatsBounded` follow
from single steps.

*That the loop comes to rest* is a matter of safety but for the fairness that lets
steps happen, and is proved as such, with and without shared ids and in both modes.
`LoopSpends`: every step that changes anything takes something off the requests
to come, the sequences to serve, the callers to answer or the tokens to
generate, puts nothing back, or else brings the ticks due nearer to their end.
Requests, sequences, callers and tokens are finitely many, so this cannot go on
for ever. `TickNeverStuck`: in the middle of a tick
some step can be taken: an eviction finds its victim (`LongestExists`), an
admission its blocks, a step its sequence in the running list. What has been
answered by then has all its tokens (`AnswersNeverShort`), even if ids are shared:
a future is set after its sequence has left the list, so a tick that raises
leaves a caller waiting rather than with half an answer.

The second part assumes `~AddressReuse`, so that no tick aborts (`OwnIds`):
`NoWakeupLost`, `PlacementCorrect`, `PromptsCovered`, `AnswersCorrect`. Without
it they are false: `tick_lost` is the counterexample. `RestIsServed` adds that
every prompt fits an empty cache (`AllFit`): at rest each submitted sequence is
finished or preempted, if one was preempted another finished, and all blocks
are free. Its invariant is `Serving`: as long as nobody has finished, an eviction
has left somebody running or somebody about to be admitted, and the head of
the queue fits, as no waiting sequence has tokens (`Fresh`). This is what
`EventuallySettled` and `LoopGoesIdle` say without the fairness. Of `SomeoneFinishes` it is
less than half: that each eviction is followed by a completion of its own is
only model-checked.

*Engine.* `EngineImplements`: each step of the handlers and the engine is a step
of the scheduler or leaves it alone, so the theorems above hold inside the server
(`ServerAccounting` is one instance). `AnswersWhole` follows from
`AnswersNeverShort`, so it holds with shared ids too, and the invariant `EInv`,
that a returned task has a done future, that answered
handlers have only returned tasks, and that what a round still has to do belongs
to handlers already opened. `HandlersServed` is `HandlerEnds` without the fairness,
under `~AddressReuse` and `AllFit`: when the loop is at rest, a handler that
still waits can go on, with its answer or an exception, or one of its prompts was
preempted. Its invariant `WInv` says that only requests whose handler is gone
have a cancelled future or are to be cancelled, that what has not started in an
open request is still in the round, and that whoever awaits has been submitted.

*Batch scheduler.* `BInv == TypeOK /\ PlacedOnce /\ Passing` is inductive for any
interleaving of passes, arrivals and late results; `BatchSizes` and
`BatchFinishes` rest on it. With the lemmas on sums it gives `BatchTokens`, the
running total of `_maybe_preempt`, and `BatchReserve`: a newcomer is left out only
if it exceeds the reserve. `BatchPassEnds` says that each step of a pass ends it,
takes a newcomer off the queue's copy, or evicts one more for the same
newcomer; `BatchVictim` that the eviction never runs out of victims while over the
budget. `BatchFirstCome` needs the invariant `Queued`: in `waiting` and in the
pass's sorted copy of it, sequences that never ran are in order of age within
their priority, which the stable sort keeps and the return of victims to the
queue does not disturb.

*The caches* (`StoreProofs`). That each of the three keeps its tokens is a
refinement of `TokenStore`, by one lemma per operation. What they share:
positions and cells correspond one to one (`CellOfPosition`, by division), only a
sequence's own blocks matter to it (`StoredAgrees`), and a write at the next
position of distinct blocks appends (`WriteAppends`). The invariants say who has
which block and that there is a block for every token written: `PagedInv`
(with as many blocks as the room needs, `EnoughBlocks`), `RocmInv` (with one
reference to every block of a table, without which `free_block` would keep it),
`PrefixInv` (every cached prefix belongs to a sequence that still has its blocks
and its tokens, and the index is in step), and `KVInv` (contents are in the
blocks or in the buffer, never in both, and counts are at most one, so `free`
gives every block back). `SwappedTokensKept` assumes nothing about when a sequence tries
to come back: a `swap_in` that raises leaves the free list right for every block
that somebody has (`SwapInRaisedEffect`), though not complete, and one that returns
does so with blocks that were free (`BringBackStep`), all of the old ones or fewer. `HitsCorrect` follows from `PrefixInv` and what `Lookup`
returns (`LookupFinds`).

*Loading* (`LaunchProofs`). `QuantizationError`: a rounded quotient is nearest
(`RoundNearest`), clamping changes none as no weight exceeds its group's largest,
which exists because the group is finite (`FiniteMax`); the invariant is that
codes and scales at hand belong to the layer's weight. `GatheredWhole`: the parts of a
list have one size and follow each other (`EqualParts`, `PartElements`), so that
those of all ranks, joined, are the list but for what does not divide
(`PartsJoin`). From there each class puts together what one process alone would have
(`SharesMakeWhole`): the engine by joining rows, or every row's columns; a manager
because the output of a part of the rows is a part of every token's features
(`OutputOfPart`), which its join along the last axis puts in a row. The invariant `TPInv`
says what a process has in each phase, and that its rank is its own, unless it
is in a group its manager did not form.

Only model-checked: liveness under fairness (`EventuallySettled`,
`SomeoneFinishes`, `LoopGoesIdle`, `HandlerEnds`, `ZombiesEnd`, `EveryoneFinishes`), as
the prover has no rule for fairness or `ENABLED` here. For all but `SomeoneFinishes` and
`EveryoneFinishes` the safety half, that nothing is left when nothing more can
happen, is a theorem above, under the assumptions it names. The four
disagreements are TLC's counterexamples. That no process of `TensorParallel` stays in
a collective is checked by TLC as the absence of a deadlock.

## Not modelled

Token values, sampling and stop strings (the scheduler appends a placeholder and
compares with the empty string); the forward pass; time and the one-millisecond
delay; logging and statistics, among them the prefix cache's `ref_count` and
`hit_count`, which no decision reads; request validation, usage counts and the
wire format; the words of a streamed chat answer, which are sent when the whole
text is there. `src.models` (loader, quantizer), which the engine imports, is not in
the repository.

Tensors beyond the tokens and rows they hold; hash collisions of prefixes; a
second layer of the KV cache; FP8, a division and a conversion by the hardware;
the error figures of the quantizer, which nothing uses; biases, split as the
rows are; `all_reduce` and `broadcast`, which keep no state; a process that dies. The
configuration: `EngineConfig.from_cli` is a function of the command line and a file, and
nothing changes its result afterwards, so that the modules take its options as
constants; `ServerConfig` takes its own as they are. The memory
manager computes sizes that nobody reads, and its pools are never allocated
from; the serving stub answers with a constant. Kernels, benchmarks and packaging
have no state of the system's.

## Plan

1. Done: block manager and clients, scheduler, engine and handlers, batch
   scheduler, the three KV caches, prefix cache, tensor parallelism and
   quantization; their runs and the proofs above.
2. If the code comes to use them: the scheduler with the KV cache in one model,
   where growing sequences and swap-in would become reachable; prefix sharing
   between the block manager and the prefix cache.
3. Theorems: that every sequence of the batch scheduler can still finish (the
   safety half of `EveryoneFinishes`); what a tick that raises leaves behind, as
   a bound on the sequences that can be stranded.
