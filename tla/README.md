# A TLA+ verification project for FastPP

FastPP is a fork of SGLang (v0.4.1) that serves language models with pipeline
parallelism: the layers of a model are split over `pp_size` processes, and every
process runs the *same scheduler* over its own copy of the requests, slots and
memory pools. Nothing but the received requests, the chunk size and the sampled
tokens is ever exchanged between the schedulers, so the system is right only if
every rank, from the same inputs but at different times, takes the same decisions,
and if each rank's bookkeeping of slots, requests and memory survives that several
micro-batches are in flight at once.

Paths below are relative to `src/python/sglang/srt/` unless they begin with `src/`.

## 1. Inventory

| component | source | state | operations |
|---|---|---|---|
| Pipeline loop | `managers/scheduler.py` `event_loop_normal`, `recv_requests`, `run_batch`; `utils.py` `PPCounter`, `isend_tensor`, `recv_tensor`; `managers/tp_worker.py`; `sync_chunk_size` of `managers/dynamic_chunk_controller.py` | slot counters, `_last_batch`, `step_count`, chunk size; the PUB/SUB socket, point-to-point sends, the broadcast group | one iteration: receive requests, sync the chunk size, choose a batch, forward, join the broadcast, apply a result |
| Micro-batch scheduler | `managers/scheduler.py` `get_next_batch_to_run` .. `process_batch_result_decode`, `managers/schedule_batch.py`, `managers/schedule_policy.py` | waiting queue, per-slot running/last batch, the chunked request of each slot, `batch_is_full`, `new_token_ratio`; per request: prefix, outputs, pool row | admit, chunk a prefill, merge, mix, decode, retract, finish, abort, flush |
| Finish conditions | `Req.check_finished` in `managers/schedule_batch.py`, `sampling/sampling_params.py` | output tokens, finish reason, abort mark | test after every token |
| Memory pools | `mem_cache/memory_pool.py`, `mem_cache/chunk_cache.py` | free rows, free KV slots, a row's KV slots, cache entries per request | alloc, free, free group, clear, cache (un)finished request |
| Radix cache | `mem_cache/radix_cache.py` | the tree, lock counts, last access times, evictable size | match, insert, split, lock, evict, cache (un)finished request |
| Batch rebalancer | `managers/batch_rebalancer.py` | pending requests, target batch size | move requests between slots' running batches through a pending list |
| Dynamic chunk controller | `managers/dynamic_chunk_controller.py`, `managers/alp_scheduler.py` | step count, chunk size, runtime table | greedy and ALP choice of a chunk size, safety guards, sync |
| Overlap worker | `managers/tp_worker_overlap_thread.py`, `event_loop_overlap` | input/output queues, future-token map | launch, resolve, sampling-info handshake |
| Tokenizer manager | `managers/tokenizer_manager.py`, `aio_rwlock.py` | `rid_to_state`, per-request events, a reader/writer lock, futures of control requests | generate, abort, weight updates, sessions |
| Detokenizer | `managers/detokenizer_manager.py` | per-request decode status in a bounded dictionary | incremental detokenization, trimming |
| Data-parallel controller | `managers/data_parallel_controller.py` | round-robin counter | dispatch |
| Sessions | `managers/session_controller.py` | sessions, their request chain | open, close, create a request from a former one |
| Grammar backends | `constrained/base_grammar_backend.py` | cache of compiled grammars, events | get or start a compilation, reset |
| Worker processes | `managers/multiproc_scheduler_utils.py` | result futures, monitor | spawn, monitor, shut down |
| Router | `src/sgl-router/src/` | a prefix tree over tenants, worker loads | insert, match, evict, select, remove a worker |
| Language front-end | `src/python/sglang/lang/` | stream executors | fork, join, gen, select |

**How they interact.** The tokenizer manager (one process, asyncio) pushes tokenized
requests and control requests over ZMQ to rank 0. Rank 0 drains that socket once per
iteration and publishes the list, with the free KV size it measured, to all other
ranks. Each rank enters the requests in its own waiting queue, and once per iteration
chooses one micro-batch for the current slot `cur_pp`, which goes round `0 .. pp_size-1`.
Hidden states go from rank to rank by point-to-point sends. The last rank samples and
broadcasts; the others join that broadcast for the batch launched `pp_size-1-rank`
iterations ago, which `PPCounter.process_pp_idx` finds. Only rank 0 and the last rank
see the outside: results go to the detokenizer and back to the tokenizer manager.

**What is hard.** Ranks run at different distances from rank 0 with nothing but channels
between them. Messages of two kinds share one PUB/SUB socket and are told apart only
by when each side reads. A slot's batch is looked at again an iteration or more after it
was launched, with other slots' iterations between, and every one of those may allocate,
free, retract or move its requests. A chunked prefill passes from slot to slot while the
earlier chunks are in flight. Collectives block until everybody comes. In the tokenizer
manager, coroutines interleave at every `await` around shared dictionaries and locks.

**What makes each component right.**

* Pipeline loop: every rank applies each batch's own tokens to it, once and in order; the
  forward pass runs on the batch that was scheduled; a slot is not reused before its
  result is applied; no channel message is taken for another; nobody waits for ever.
* Micro-batch scheduler: a request is in exactly one place; its pool row and KV slots are
  owned by it alone and freed once; a chunked prompt is extended once per token and in
  order; what is launched fits the pools; every accepted request finishes.
* Pools and caches: no slot is both free and held; sizes add up; locked nodes survive.
* Rebalancer: requests are neither lost nor duplicated; slot sizes get closer.
* Chunk controller: chunk sizes stay in range; every rank uses the same.
* Tokenizer manager: weight updates exclude generation; every waiter is woken.
* Finish conditions: a request ends at its stop string, stop token or length, and not later.
* Detokenizer: the answer is the text of the output however it was cut into messages, and
  what a streaming client was shown is not taken back.

## 2. Plan

The order is by how much of the system rests on the part. All but 9 and 10 are done.

1. `PipelineLoop` over `PipelineService`: the ranks, their channels and slot counters.
2. `MicroBatch` over `RequestService`: one scheduler with its slots, queue and pools.
3. `FinishCheck`: when a request ends.
4. `Rebalancer`: requests moved between slots' running batches and the pending batch;
   none lost, none twice, every pending one resumed.
5. `TokenizerManager` over `RWLock`: coroutines, aborts, weight updates.
6. `RadixCache`: tree, locks and eviction, with the scheduler that allocates from it.
7. `Detokenizer` over `FinishCheck`: incremental text.
8. `OverlapLoop` over `RequestService`: the loop and the forward thread without pipeline.
9. `ReplicatedScheduler`: two schedulers with the same inputs, one of them ahead, so that
   `available_size`, `new_token_ratio` and the rebalancer's metrics may differ between
   ranks; property: both launch the same batches.
10. `SessionController`, the chunk controller's guards, the router's tree.

Theorems: the slot arithmetic, the order of results and the three channels of
`PipelineLoop`; the lock's invariant, that the tokenizer manager uses it as specified and
what its updates find; the length limit; the detokenizer's offsets; where the requests
of a scheduler are, that it serves them as `RequestService` says, its two pools; that the
rebalancer loses no request; that the overlap loop serves requests as `RequestService` says too,
what KV slots each holds and why it exits; the owners of the radix cache's slots, its locks, the tokens its
slots stand for, and that what is admitted finds memory.

## 3. Modules and the code

### PipelineLoop, PipelineService, MCPipelineLoop, PipelineLoopProofs

`P` ranks run `event_loop_normal`. `pc[r]` is the place of rank `r` in an iteration; each
action ends where the code can block or where another rank can see something.

| code | module |
|---|---|
| `PPCounter.__init__`, `__next__`, `get_pp` | `Init`, `NextSlot` with `Advance`, `PipeSlot` |
| `recv_requests` on rank 0 / elsewhere | `PublishRequests` / `ReceiveRequests` |
| `flush_cache`'s reset of chunk size and step count | `FlushCache` |
| `decide_chunk_size`, `sync_chunk_size` | `SkipChunkSync`, `PublishChunk`, `ReceiveChunk` |
| `get_next_batch_to_run` | `Schedule`: rank 0 extends `plan` by any batch, the others, which have the same inputs, follow it |
| `recv_tensor`, `isend_tensor` | `ReceiveHidden`, `SendHidden` |
| sampling and the broadcast | `SampleAndBroadcast`, `JoinBroadcast`, `NoBroadcast`; `BroadcastTogether` when the collective is a barrier |
| `process_batch_result`, `post_step`, `self.last_batch = batch` | `Finish` with `Applied`, `PostStep` |

A batch is the number of the iteration that launched it, and activations and tokens carry
that number: enough to say whose tokens were applied to whom. An NCCL broadcast may
return at its root before the others have come (`Collective = "buffered"`) or not
(`"barrier"`); both are checked. `PipelineService` is the promise: batches are launched
in an order, each rank applies each batch's own tokens once in that order, every launched
batch is applied everywhere.

External assumptions: point-to-point messages and collectives between two ranks arrive in
order; a PUB message reaches every subscriber (the collectives at start-up come after the
sockets are connected).

### MicroBatch, RequestService, SequenceFilter, MicroBatchProofs, MCMicroBatch

One scheduler, seen on the first rank. `phase` is the place in an iteration; the phases of
one iteration follow each other in one thread, so an iteration's decisions are split only
to keep actions small.

| code | module |
|---|---|
| `recv_requests`' measurement of the free KV slots | `BeginIteration` |
| `handle_generate_request`, `abort_request`, `flush_cache` | `HandleGenerate`, `HandleAbort`, `HandleFlush` |
| `get_next_batch_to_run`, first half; `filter_batch`, `merge_batch` | `MergeLastBatch` with `KeptOf` |
| `fetch_chunked_prefill` | `FetchChunked` |
| early returns of `get_new_batch_prefill` | `SkipPrefill`, `NothingAdmitted` |
| `PrefillAdder.__init__`, `add_being_chunked_req` | `StartPrefill` with `NewAdder`, `Charge` |
| `add_one_req`, `budget_state`, and the loop around them | `AdmitOne` with `Verdict` |
| rest of `get_new_batch_prefill`, `prepare_for_extend`, `mix_with_running` | `LaunchPrefill`, `ExitOnPrefill` |
| `update_running_batch`, `check_decode_mem`, `retract_decode`, `prepare_for_decode` | `DecodeRunning` with `RetractCount`, `PopOrder`; `NothingToRun`, `ExitOnDecode` |
| `process_batch_result_prefill`, `_decode`, `ChunkCache` | `ApplyResult` with `Sampled`, `FinishedLen` |

A request is a model value with two lengths. Rows of the row pool are identified, since a
row given out twice is what could go wrong; KV slots are counted. `new_token_ratio` is any
value of `Ratios` at every admission, which covers its decay, its reset and its jump after
a retraction. A request may end after any token if `EarlyStop`. A failed allocation or
assertion ends the process: phase "exited". The model takes the `ChunkCache`
(`disable_radix_cache`), fcfs order, and requests without ignore_eos, images, grammars or sessions.

`RequestService` is what a client may expect: a request once accepted gets tokens one by
one, none after its end, and ends, unless it was withdrawn or the process gave up. The
refinement mapping (`Service`) is at the end of `MicroBatch`. `SequenceFilter` is the list
comprehension with which the code takes requests out of a queue or a batch, as a recursive
function, which proofs can unfold. `CollectionLemmas` holds what the proofs need
of it, of induction and sums over finite sets and of sequences without repetition.

### FinishCheck, MCFinishCheck

`check_finished` after every token. Texts are sequences of characters and a token decodes
to one or more of them, because the window in which stop strings are sought is counted in
tokens. `CheckFinished` keeps the code's order: abort, length, stop token, stop string.

### Detokenizer, DetokenizerProofs, MCDetokenizer

`Detokenizer` EXTENDS `FinishCheck`: the scheduler's `stream_output` sends the tokens so far
after every `Interval` tokens and at the end (`Stream`), and the detokenizer's `event_loop`
handles one message in two steps, because it looks a request's state up twice.

| code | module |
|---|---|
| `init_incremental_detokenize` | `DecodeIds` |
| first loop: find or make the `DecodeStatus` | `LookUp` |
| `batch_decode` of surrounding and read tokens, second loop | `DecodeBatch` with `Rendered`, `Advance`, `Shown` |
| `find_printable_text`, `trim_matched_stop` | `Printable`, `TrimToken`, `TrimText` |
| `LimitedCapacityDict.__setitem__` dropping this request's state | `Forget`; `KeyError` when it happens between the loops |

Tokens are byte strings over a small alphabet: letters, a space the tokenizer drops at the
beginning of a text, and the two halves of one character. That is what the two offsets are for.

### Rebalancer, RebalancerProofs, MCRebalancer

One rank's loop around `BatchRebalancer.rebalance`. A batch is its list of requests and the
list of requests whose rows its tensors hold: the code keeps the two in step by hand.

| code | module |
|---|---|
| `merge_batch`, `filter_batch`, `split_batch` | `Merge`, `Filter`, `Slice` |
| `get_next_batch_to_run`, first half | `MergeLastBatch` |
| `rebalance`: totals, thresholds, headroom | `TotalRequests`, `BaseTh`, `Threshold`, `LocalLimit`, `Suppressed`, `Move` |
| case 1 (too many) / case 2 (too few), both orders | `Give` / `Take` |
| `fetch_chunked_prefill`, prefill and decode batches, results | `Fetched`, `LaunchPrefill`, `LaunchDecode`, `FinishIteration` |

tpot, the waiting tokens and the free fraction of the pool are any values the thresholds
tell apart. Whether prompts that wait are admitted (`batch_is_full`, `max_running_requests`, memory) is
open: `LaunchDecode` may come with prompts in the queue, after a `Rebalance` with headroom too.
A request that is being chunked is always continued.

### RWLock, TokenizerManager, TokenizerManagerProofs, MCTokenizerManager

`RWLock` is `aio_rwlock.py`: an action is what a task does between two awaits, and a
waiting task is asleep or woken. `TokenizerManager` EXTENDS it: readers are calls of
`generate_request`, writers calls of `update_weights_from_disk` or `_from_distributed`.

| code | module |
|---|---|
| `async with reader_lock` / `writer_lock` | `Enter`, `Leave` / `EnterUpdate`, `LeaveUpdate` |
| `_tokenize_one_request`, `_handle_batch_request` | `Send` with `SendAndRegister`, `TokenizeFails`, `Gathered` |
| `_wait_one_response` | `Wake`, `TimedOut`, `Resume` |
| a streaming response cancelled by the web server, `create_abort_task` | `CancelStream`, `BackgroundAbort` |
| `handle_loop` | `HandleLoop` |
| `process_input_requests`, `abort_request` / `update_weights_*`, `flush_cache` in the scheduler | `SchedulerReceives` / `UpdateWeights` |
| `stream_output` at the end of `process_batch_result` | `SchedulerSends` |
| `dec_lock_ref` for a request whose node a flush has dropped | `FlushedFails` |

A call is an object with the ids of its requests and what matters of its kind (batch,
parallel sampling, streaming, images, a request that is refused, a client that leaves).
`running` are the requests in the scheduler whose last output has not been sent. One whose output
has been sent stays in the running batch until `filter_batch` in a later iteration, and the
messages of that iteration are handled before; `unfiltered` says that such a request may be
there. When it is dropped is left open, so a flush after the first answer may or may not
succeed.

### RadixCache, MCRadixCache, RadixCacheProofs

The radix cache and the scheduler that uses it, for one slot. A node is named by the
tokens from the root to its end: splitting an edge adds a node and leaves the others' names
alone. KV slots are identified, and `content` remembers the tokens a slot was computed for.

| code | module |
|---|---|
| `match_prefix`, `_split_node`, `insert` | `MatchPrefix`, `Split`, `Insert` |
| `inc_lock_ref`, `dec_lock_ref` | `IncLock`, `DecLock` |
| `cache_unfinished_req`, `cache_finished_req` | `CacheUnfinished`, `CacheFinished` |
| `evict`, one leaf a step | `EvictLeaf`, `EvictDone` |
| `PrefillAdder`, chunked prefill | `Start`, `TryAdd` with `Fits`, `StopAdding` |
| `alloc_token_slots` | `Run`, `EvictForBatch` |
| `check_decode_mem`, `retract_decode` | `CheckDecodeMem`, `RetractOne`, `RetractDone` |
| `process_batch_result_*` | `Result` |

Which leaf is the oldest and which request the policy puts first are any; `new_token_ratio`
is any positive value at every admission.

### OverlapLoop, MCOverlapLoop, OverlapLoopProofs

`event_loop_overlap`, which runs with one pipeline stage unless `disable_overlap_schedule` is set,
launches a batch before the result of the one before is known. Every iteration ends with
`get_pp_queue_lengths`, which reads `_waiting_queue`. Only the ALP scheduler's start-up profiling sets
that attribute (`startupProfiled`; with `enable_dynamic_chunk`, strategy "alp" and no runtime table on
disk); by default the first iteration raises AttributeError and the process ends (finding 18).
What is said of later iterations holds where the profiling ran. `TpModelWorkerClient` runs the batches in a thread of
its own; inputs that are not known yet are *futures*, places in a map that the thread fills.

| code | module |
|---|---|
| `get_next_batch_to_run`, first half; early returns of `get_new_batch_prefill` | `MergeLastBatch`; `SkipPrefill`, `NothingAdmitted` |
| rest of `get_new_batch_prefill`, `mix_with_running` | `LaunchPrefill`, `Prefill` with `OfPrefill` |
| `update_running_batch`, `retract_decode`, `prepare_for_decode` | `RunDecode` with `OfDecode`, `NothingToRun` |
| `TpModelWorkerClient.forward_batch_generation` | `Launch` with `NextPlace` |
| `forward_thread_func_` | `TakeJob`, `Forward`, `Sample` with `Sampled` |
| `ModelRunner.sample`'s wait for the mask | `MaskAwaited` |
| `resolve_batch_result`, `process_batch_result_*` | `ApplyResult` with `GetsToken`, `Delayed`, `Cached` |
| the dummy first batch, `update_regex_vocab_mask` | `NoResult`, `Signal` |
| `get_pp_queue_lengths`, `self.last_batch = batch` | `EndIteration` |

A token is known by its request and number. One that is sampled from another token than the
one before it, or under a mask made for another place in the output, is `Garbage`, as is what a
chunk that is not the last yields. Which requests of the queue are admitted, how long a chunk is and
when memory is short are any. The KV slots of a request are counted, owned or locked in
the radix cache. Aborts, sessions and log probabilities are left out.

## 4. Runs

| run | instance | shows |
|---|---|---|
| pipeline_deep | 3 ranks, 7 iterations, every plan of batches and bubbles | every rank applies the right tokens in order and slots are not reused early |
| pipeline_chunks | 2 ranks, 6 iterations, 2 chunk sizes, flush in any iteration, barrier | the shared channel is never misread, chunk sizes agree, nobody waits for ever |
| batch_slots | 3 slots, prompts of 5, 3 and 1 tokens, chunk 3, mixed batches unless a request wants log probabilities | all accounting, and every request is served |
| batch_retract | 1 slot, 9 KV slots, 3 requests of up to 6 tokens | memory runs out while decoding; retraction loses nothing, never fails, and requests still end |
| batch_tight | 2 slots, 2 rows, 9 KV slots, one flush | launches fail and the process may exit; until then no request runs after its end |
| rebalance | 2 slots, 7 requests, mixed batches, both modes, any headroom, decode steps while prompts wait | no request is lost or doubled, tensors match requests, every pending request resumes |
| tokenizer | 2 calls of four kinds, one weight update | updates run alone and span no answer that is waited for, nobody sleeps for ever, clients that stay are answered unless the scheduler exits, states are removed |
| tokenizer_sync | same | finding 12 |
| radix | 4 requests with common prefixes, 9 KV slots, chunk 4 | slots are owned once, locks match, requests attend to their own KV, what is admitted fits |
| radix_last_request | same | finding 7 |
| overlap | 3 requests, one with a grammar, one with a prompt that may be cut, 6 futures, mixed batches or not, one retraction, profiled at start-up or not | where it was, every request gets its own tokens, KV slots are accounted for, only a retraction ends the process, the threads never block each other |
| finish_check | 8 tokens, outputs of up to 4, one loss of the decode state | requests end in time; the answer is the output's text; nothing shown is taken back |

The configurations without a run reproduce disagreements of section 6: `PipelineEmptyPrompt`
(module `PipelineLoop`), `BatchSlotFull`, `BatchLastRequest`, `BatchFlush`, `BatchAbort`
(`MCMicroBatch`), `FinishStopToken` (`MCFinishCheck`), `RebalancePending`, `RebalanceRows`
(`MCRebalancer`), `OverlapFutures`, `OverlapRetract`, `OverlapUnprofiled` (`MCOverlapLoop`). TLC finds the one property each names
violated.

Why the bounds are enough. Seven iterations with three ranks let every slot be used twice
while the last rank is still two iterations behind; the slot arithmetic and the order of the
channels are proved for all `P`. With chunks synchronised every `P` launches, six iterations hold three
synchronisations and resets between them. Three requests let one be chunked, one decode
and one wait; a prompt of 5 tokens takes three chunks when others share the budget, so it
returns to the slot it began in. In `batch_retract` three requests need up to 13 KV slots of 9.
Seven requests over two slots make sizes differ by more than the thresholds allow, so that
both cases of `rebalance` move requests, some of which end while pending. In `tokenizer` a
single call, a batch and the prefix of a parallel call meet an update and each other at every
await. The prompts of `radix` share prefixes of two and four tokens, so that nodes are split
while held, two requests compute the same prefix at once, and nine slots force eviction and
retraction. A token may hold a character, its half, or the end of one and the beginning of
the next; with the state dropped once at any time four tokens reach every order of the two offsets.
In `overlap` the batches of a behaviour need more than the six places `futureCt` counts, so the counter wraps and every place
is used again, while three requests never have more than six tokens on their way; a
retraction may come while the prefill or a decode step of its request is in flight.
`MaxIter`, `MaxFlush`, `MaxForget` and `MaxRetract` bound counters; `EarlyStop`, `MayAbort`, `Ratios` and the
sets of workloads and prompts are choices of the environment. Deadlock checking is off in
runs in which the process may exit or the requests end; there nothing is left to do. The
type invariant of `PipelineLoop` is checked and proved, the lock's is part of `LockInvariant`; in the
other modules stronger invariants (`SlotsOwnedOnce`, `LocksMatchHolders`, `OnePlace`, `KVClaims`)
imply what a type would say.

**Fairness.** `PipelineLoop!Spec` assumes weak fairness of each rank's step: a process runs
when it is not blocked. `MicroBatch!Spec` assumes weak fairness of `Iterate`: the loop
never blocks for input (`recv_pyobj` with NOBLOCK) and receives finitely many requests. No
fairness is assumed of arrivals, aborts or flushes, nor of admission: that every request
ends follows from the code's own queue order and memory checks. `Rebalancer!Spec` assumes the
same of its loop. `TokenizerManager!Spec` assumes that the event loop runs every coroutine
that is ready, that the scheduler takes its messages and ends every request it runs, and that
a client reads its stream until it leaves; calls need not arrive and clients need not leave.
`OverlapLoop!Spec` assumes that each of the two threads runs on unless it waits for the other.
`RadixCache` and `Detokenizer` have safety properties only.

## 5. Proofs

`PipelineLoopProofs` proves, for every number of ranks, iteration bound, strategy and
collective:

* `TypeCorrect`: the type invariant. Counters are typed as naturals, not by the bound, so
  that it is inductive.
* `SlotArithmetic`: `SlotsInStep`, the inductive invariant of the slots. For each rank it
  says how the two counters relate (`process_pp_idx` is `current_idx + 1 + rank`, modulo
  `P`), that slot `s` holds the batch of the iteration `Age` turns ago, and that all batches up to
  `AppliedUpTo` have had their results applied. Neither of the last two is inductive alone: that a
  result is applied to the right batch needs the slot's age, and the age of a slot needs the
  counters. Modulo is removed first (`AdvanceWraps`), which leaves linear arithmetic.
* `SchedulesOnResults` and `ResultBeforeOverwrite` (`NoOverwriteBeforeResult`, proved only): both follow from the invariant at the
  slot whose turn it is, which is exactly `P` iterations old.

On top of it, the same module proves what the two data channels carry, for every number of
ranks and either collective:

* `HiddenArriveInOrder`, the inductive invariant of the hidden states: a channel is a `Link`, which
  holds, in launch order and without gaps, the batches that run the model between the
  iteration its receiver has dealt with (`Taken`) and the one its sender has (`Sent`), and no rank
  is ahead of one before it (`Behind`). `StageMatchesBatch` (`ForwardOnOwnBatch`) follows; alone
  it is not inductive, for which activations come first depends on all that are on their way.
* `TokensArriveInOrder`, the same for the broadcasts, which a rank joins `P - 1 - r` iterations
  after the launch. It rests on `SlotsInStep`: a rank joins when its slot holds a batch,
  the last rank broadcasts when it runs one, and the invariant says that these are the same
  batches. `OwnTokensApplied` (`ResultsFromLastStage`) and `LeadIsBounded` (`BoundedLead`) follow.
  All three assume `NoEmptyPrefill`, that every prefill batch has a token to compute: without it
  they are false (section 6, 1).
* `ResultsAppliedInOrder`: each launched batch's result is applied at most once and in order.

The same module proves that the two kinds of messages on the request channel are never mixed up, for every number of ranks, strategy and set of chunk sizes, with flushes in any iteration.
Which message a rank expects depends only on its own `step_count`, so the invariant
(`RanksInSync`) says that there is one history, the step count and chunk size of every
iteration, that all ranks follow: a rank's counters are the history's at its iteration, the
messages on their way to it are those the history makes due between its place and rank 0's (a
`Link` again, of numbers that order an iteration's list before its chunk size), and each says
what the history says. Rank 0's steps extend the history; that nobody has used a chunk size
before rank 0 publishes it is `Behind`. `ChannelStaysInStep` (`ChannelInStep`) and `ChunkSizesAgree`
(`ChunkAgreement`) follow. The history is quantified in the invariant and is no variable,
so TLC cannot evaluate it; the two properties are also checked in run pipeline_chunks.

`MicroBatchProofs` proves where the requests of one scheduler are, for every number of slots
and requests, any prompts, limits and pool sizes, and any order of arrivals, aborts and flushes:

* `ControlHolds`: the inductive invariant `ControlInv`. Slots launch in turn, so a batch is known
  by its age (`Age`), and by it what has become of the batch since: merged or not
  (`Joined`), its result applied or not (`Awaited`). `OnePlace` needs every part of it. That a chunked
  request is in no slot needs to know which slot holds it (`ChunkHeld`, `Owned`), or the merge
  of the slot it came from would put it into the running batch; that results are not
  applied to finished requests (`Unended`) needs that a decoded batch is still running when
  its result arrives (`BatchShape`); that a last chunk is not taken for an earlier one needs that
  the chunks in flight are counted (`Counted`, a cardinality) and older (`ChunksBefore`).
* `OnePlaceHolds`, `ChunksCountedHolds`, `OutputLenAgreesHolds` and the action property
  `FinishedForGoodHolds` follow.
* `ServesRequests`: every step is one of `RequestService`'s or leaves its state alone. Its
  `ResultDelivers` is the step that needs the invariant: the code appends a token to
  each request of a batch without asking whether it has ended.

These assume `SlotHasRoom`: a slot that takes over a chunked request can still run one. The
code does not make sure of it (finding 2; `BatchSlotFull.cfg` violates it), and then skips the request, whose
row it has freed. `RoomHolds` proves it where the code is safe, with one slot or no more
requests than `max_running_requests`, from an invariant of its own: `RoomInv`, that no slot ever has
more than that many, the chunked one and the ones on their way back included (`SlotsBounded`).
`OneSlotOrFewRequests` and `ServesRequestsUnconditionally` are the results without the hypothesis.

The second half of the module proves `RowsAccountedHolds` and `KVAccountedHolds` on top of that. `RowsInv`
says that the rows not in the free list are those of the requests in slots and of the chunked
one, except while the latter's row is free, between `fetch_chunked_prefill` and the launch
(`WithRow`). `KVInv` says how many KV slots each request holds: what was computed of it,
one less once its last token's result is there and its next step not launched (`Due`), nothing
when it has ended; and that they sum up to the pool. `ChunkGoesOn` keeps a request from
being freed by a batch that computed one of its earlier chunks. Both assume `FlushOnlyWhenIdle`:
a flush that clears the pools finds no request. The comment of `flush_cache` says as much; its code
does not see to it (finding 4). `PoolsWithoutFlush` is the result without the hypotheses.

`RebalancerProofs` proves, for every number of stages and requests, any prompts, thresholds and
loads, `OnePlaceHolds` and `PendingQuietHolds`. How many requests `rebalance` moves depends on
thresholds, headroom and the sizes of all slots; the invariant (`RebInv`) needs of it only that
no more are moved than there are (`MoveInRange`, for which `n_reqs_total` must not be negative:
a slot that counts a chunked request less has one, `LaunchedRight`). The batch operations are
first reduced to the sets of their requests (`MergeIs`, `SliceIs`, `FilterIs`). The pending batch is quiet
because `rebalance` takes from a running batch only, when the slot's last batch has joined
it, and because a chunked request whose earlier batch is still in flight is in a batch
launched later (`GoesOn`), which has not joined its slot.

`OverlapLoopProofs` proves, for any requests, prompts, limits and retractions, with and without mixed
chunks, with start-up profiling and without, and without further hypotheses, `KVClaimsHold` (`KVClaims`),
`ExitsForRetractionHolds` (`ExitsForRetraction`) and `ServesRequests`, the safety part of
`ImplementsRequestService`. Without the profiling all three are about one iteration and an exit.
The invariant (`LoopInv`) is about the two batches that matter, the one whose result is next and
the one launched after it:

* `QueueRight`: the results to come are those of these batches, in order.
* `Apart`: a waiting request is in no batch, running or ended, but one retracted in this iteration
  may still await a result. The request that is being chunked is in no running batch.
* `ChunkRight`: `is_being_chunked` counts the parts of a prompt in the batch before and in the
  one launched now (`Part`, `Started`). So `process_batch_result_prefill` skips exactly the
  requests for which the batch before had a part only, although the counter also counts
  what has been launched since.
* `KVRight`: `seq_lens` is the prompt and the output, less one, plus the tokens in flight (`Awaited`),
  a request holds as many KV slots, and one that has ended holds one, exactly while the batch
  before includes it.

`KVClaims` alone is not inductive: what the end of a request returns is computed from its
output, what a retraction returns from `seq_lens`, and that the two agree is `KVRight`, which needs to
know whose results give a token (`ChunkRight`). Every result needs `QueueRight`, for the loop takes
`last_batch` for the batch whose result is next. The forward thread changes nothing the invariant is
about. `ExitsForRetraction` says that with the profiling the process exits only after a retraction: a
result for which the cache would fail is for a request that waits again while the batch before
includes it, and only a retraction puts one there (`RetractedWait`, with `Apart`). After an exit
nothing is claimed; `ServesRequests` counts what has not ended as given up.

`RadixCacheProofs` proves, for any vocabulary, number of requests, prompts, limits, finite set of KV
slots and chunk size, without further hypotheses, the four invariants of run radix. What they rest on
is `InvHolds`, the inductive invariant `Inv`:

* `Shape`: the paths of the tree are closed under prefixes, and below every path lies one node
  above all others there (`Top`). Splitting, inserting and evicting keep this, and it makes the edges
  above the nodes a partition of the paths, so that sizes of nodes are cardinalities of sets
  of paths (`SizeIs`).
* `TreeInv`: a node's lock is the number of requests that hold a node below it, and
  `evictable_size_` the number of paths nobody holds (`Unheld`). The code computes that size from
  locks that were 0 or become 0; `Unheld` says what it amounts to whatever the nodes are,
  so a split, which copies the lock, changes nothing. `LocksMatchHoldersHolds` follows.
* `Owned`: the tree has each slot for one path, rows have slots of their own beyond the cached
  prefix, and a slot is free if and only if neither has it. `SlotsOwnedOnceHolds` follows.
* `ReqOK`: how long a request's row is depends on where the iteration is (`RowLen`, `Stage`): one
  less than its tokens after a step, as many as its tokens between the forward pass and the result,
  the chunks so far while it is being chunked, nothing while it waits or is admitted. Its prefix is
  what the tree has for its node, and its row begins with it; every slot was computed
  for the tokens up to its place. `KVMatchesTokensHolds` follows. It is not inductive alone: that
  `cache_unfinished_req` frees what it must and no slot the row goes on using needs the row to be as
  long as the key it inserts, and that the slots freed are its own needs `Owned`.
* `PhaseInv`: what the phases say of the batch; above all, that one request at most is being
  chunked, that it is in the batch being built, and that it leaves the batch no more chunk tokens.

`AdmittedFitsHolds` needs an account of the memory on top of it, `MemInv`. `Left` is what is free or
evictable, `Wanted` what the batch will allocate. While a batch is built, half of the budget is at
most `Left - Wanted`, so what passes `Fits` leaves room, although locking its prefix takes from
`evictable_size_`; the chunked request, which is admitted without a test, has the room for all of
its prompt since its first chunk passed (`Rest`). When `evict` has taken all it can and the tree has no leaf
to give, nothing in it is evictable (`NothingEvictable`, by a longest node), so what is left is free.
A decode step never gets to `evict` in `alloc_token_slots`: `check_decode_mem` and `retract_decode`
compare with a size measured at the beginning of the iteration, and since then the pool has only
grown. That old size is why `SpaceForLastRequest` fails (finding 7).

`DetokenizerProofs` proves `LengthLimited`, for every tokenizer and limit: a request has at
most `max(1, max_new_tokens)` tokens and goes on only below that.

`TokenizerManagerProofs` proves, for any finite disjoint sets of readers and writers:

* `LockInvariant`: the inductive invariant of the lock, in four parts. The counters agree with
  the tasks that are in or wait (`CountersAgree`, by cardinalities); a writer that is in is
  alone (`MutualExclusion`); a sleeping task has somebody who will notify it
  (`NoLostWakeup`); and the types. None is inductive alone: the lock tests its counters
  only, so that a writer is alone needs the counters to be right, they change by one
  only if a task does what its state allows, and whether the last reader that leaves
  notifies is a test of a counter again.
* `WriterAlone` and `SleepersAreWoken` are two of the parts.

It also proves that the tokenizer manager uses the lock as specified
(`UsesLock`: every step is one of the lock's or leaves it alone), so the lock's theorems hold
of it (`CallsAreWoken`). With `PlacesMatchLock`, which says that the place of a call or an update
tells whether its task is in, this gives `UpdatesAlone`: while an update is under way
no call and no other update is, for any number of them and any workload. `NoAnswerSpansUpdateHolds`
says what that is good for: while an update is under way, the scheduler goes on with no request
of a call whose client stays, so no answer is computed with two sets of weights. It does not say
that the running batch is empty, which is false (finding 12). A lock that excludes calls is
not enough for it; the invariant `IdleInv` says that a call that stays leaves the lock only
after the last output of each of its requests (`CallWaits`), after which the scheduler computes
nothing more for it; that a request is sent once and ends once
(`EndsOnce`, `PrefixEnds`), or an early end would hide a second run; and that only
the update that is in has a message on its way (`OneUpdate`).

`DetokenizerProofs` proves, for every tokenizer, prompt, stream interval and number of lost
decoding states: the streamed request implements `FinishCheck` (`ImplementsFinishCheck`), and so
keeps to the length limit (`LengthLimitedInStream`); and the two offsets lie in order and
within every message that waits (`OffsetsStayInOrder`). The last needs that waiting messages
hold ever more tokens, or taking one could move an offset beyond the next, and that
a message is there when the loop takes it.

Assumptions are the named ASSUMEs of the modules that declare the constants. Only
model-checked: liveness (which is why `ServesRequests` is about the safety part of both
specifications), the refinement of the pipeline (the batches `launched` are a `SelectSeq` of the
plan, whose values only an induction over the plan gives), what is decoded and where a stop string
is found (folds over tokens), `NeverExits`, which holds for the pool sizes of one run only,
`RowsAligned`, which fails without mixed batches (finding 9), and `OwnTokens`, which fails when the future
map is small (finding 16).

## 6. Where code and documentation disagree

1. A prefill batch without tokens to compute takes no part in the collectives, and its
   made-up tokens are applied to another batch (`managers/scheduler.py:1095`;
   `PipelineEmptyPrompt.cfg`, `ResultsFromLastStage`).
2. `fetch_chunked_prefill` frees a row before it is known whether the slot has room; when
   it has none, the row is freed again (`managers/scheduler.py:855`; `BatchSlotFull.cfg`).
3. `retract_decode` fails its assertion for the last request of a slot when other slots
   hold the memory (`managers/schedule_batch.py:934`; `BatchLastRequest.cfg`).
4. `flush_cache` clears the pools although requests run in other slots
   (`managers/scheduler.py:1653`; `BatchFlush.cfg`).
5. `abort_request` does not find a request that runs in another slot
   (`managers/scheduler.py:1692`; `BatchAbort.cfg`).
6. `check_finished` compares the first output token with the stop tokens, not the last
   (`managers/schedule_batch.py:428`; `FinishStopToken.cfg`). It also tests `if not matched`
   afterwards in the detokenizer, so that a stop token with id 0 is not trimmed.
7. `check_decode_mem` tests a size measured before `evict` after it, and the last request's
   assertion fails although memory is free (`managers/schedule_batch.py:905`; run
   radix_last_request).
8. With three or more slots the rebalancer's share may be 0 and pending requests are never
   taken back: the loop goes idle with them, and `check_memory` reports a leak
   (`managers/batch_rebalancer.py:194`; `RebalancePending.cfg`).
9. `filter_batch` returns early when no request is left and keeps the tensors; a prefill merged
   into such a batch has rows that are not its requests' (`managers/schedule_batch.py:1198`;
   `RebalanceRows.cfg`).
10. `managers/tokenizer_manager.py`: a batch registers its requests in `rid_to_state` only once
    all have been sent. If tokenizing suspends in between (images), an answer that comes
    first is dropped by `handle_loop` and the call waits for ever. Give a batch of
    `MCWorkloads` `suspends |-> TRUE` and TLC finds `Served` violated.
11. `create_abort_task` aborts the ids of the object; parallel sampling made new ones in
    copies, so a streaming parallel call whose client leaves keeps its states, and
    `sigterm_watchdog` never finishes draining. Make a parallel workload stream and leave:
    `StatesCleared` is violated.
12. "Cache flush failed after updating weights" (`managers/scheduler.py:1704`) may fail although, as
    `managers/tokenizer_manager.py:452` says, "weight sync cannot run while requests are in progress".
    The last output is sent at the end of `process_batch_result` (lines 1268, 1339), a call that has it
    gives the lock back, and an update may reach the scheduler before the `filter_batch` of a later
    iteration (line 1042) has dropped the request from `_running_batch[0]`, which `flush_cache` counts
    (line 1653; run tokenizer_sync, `SyncFindsIdle`). When a client has left, its requests may
    even still run; `NoAnswerSpansUpdate` exempts it, and batches of which a request was refused.
13. `managers/detokenizer_manager.py`: entries of `decode_status` are never removed, so the
    dictionary is always full in the end and drops the states of running requests. A
    streaming client is then sent less text than before (`NothingTakenBack` exempts it); dropped
    between the two loops over a batch, it is a KeyError that ends the process (`KeyError`).
14. Bytes that are no text are shown and taken back: `NothingTakenBack` is limited to
    well-formed output.
15. A stop string that is sampled as more tokens than the tokenizer encodes it to falls out of
    the window of `check_finished`. Replace `MCStopStrs` by `{<<"a", "b", "a", "b">>}` (encoded as two
    tokens, sampled as four) and TLC finds `StopStringEnds` violated in `Finish.cfg`.
16. The future map is used again after `max_running_requests` tokens, counting every request of
    every batch. Between two decode steps chunks of a prompt, or requests of one token, may
    take that many; they overwrite the future of a running request, whose next token is then
    computed from another request's (`managers/tp_worker_overlap_thread.py:84`; `OverlapFutures.cfg`,
    two running requests). The comment at line 148 says "restore input_ids before model forward".
17. `reset_for_retract` sets `is_retracted` only off the first rank (`managers/schedule_batch.py:518`),
    but the overlap loop has one rank. So the result of a token in flight is applied to a
    retracted request; if it ends the request, or is its prefill's, the cache unlocks
    `last_node`, which is None by then, and the scheduler exits (`OverlapRetract.cfg`). A test runs the
    server through retractions (`src/test/srt/test_retract_decode.py`). With `ChunkCache` the retraction
    itself fails if the prefill has no result yet: `entries` has no entry to delete (line 951).
18. `event_loop_overlap` calls `get_pp_queue_lengths` in every iteration (`managers/scheduler.py:539`), which
    reads `self._waiting_queue` (line 608). `__init__` sets `waiting_queue` only; the other is set at the end of
    the optional ALP start-up profiling (line 2161). Without it the loop raises AttributeError in its
    first iteration, even an idle one, and the server ends (`OverlapUnprofiled.cfg`,
    `RunsUnprofiled`); findings 16 and 17 are about servers that profile. `server_args.py:746` offers to disable the loop as an option, so it is the default, and
    `src/test/srt/test_json_constrained.py:57` starts servers with it.

## 7. Not modelled

Numerical code (models, kernels, sampling), start-up and process supervision, HTTP and the
OpenAI adapter, the front-end language, benchmarks. Tensor-parallel groups
act as one rank. The overlap loop is modelled for one stage, the only number it accepts
(`event_loop_overlap` asserts `pp_size <= 1`), over the radix cache; its branches for more stages
(`delayed`, `is_already_freed_overlap`) are dead code. dp-attention and speculative decoding are
left out. The values of chunk sizes come from measured times; any size of a small
set stands for them. Of the tokenizer manager, control calls outside the lock, sessions and
`dp_size > 1` are left out, and ids are assumed to be distinct. `RadixCache` has one slot and
`MicroBatch` counts KV slots: the two caches are not modelled together with several slots and
identified memory. Schedulers of several ranks, which decide alike only if everything they
read is alike, are not modelled together (plan, 9). Sessions, grammar compilation, the
data-parallel controller and the router are not modelled.
