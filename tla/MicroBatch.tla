----------------------------- MODULE MicroBatch -----------------------------
(***************************************************************************)
(* The life of requests in the scheduler of the first pipeline rank: the   *)
(* waiting queue, chunked prefills that pass from slot to slot, running    *)
(* batches, decoding, retraction, abort and flush, with the row pool       *)
(* (ReqToTokenPool), the KV pool and ChunkCache they allocate from.        *)
(*                                                                         *)
(* One iteration of event_loop_normal is a sequence of phases; within one  *)
(* process nothing runs between them.  A batch launched in slot s has its  *)
(* result applied P - 1 iterations later (at once when P = 1), just before *)
(* slot s has its next turn.  KV slots are counted, rows are identified;   *)
(* new_token_ratio may have any of the values in Ratios.                   *)
(***************************************************************************)
EXTENDS Integers, Sequences, FiniteSets, SequencesExt, SequenceFilter

CONSTANTS
  P,             \* server_args.pp_size
  Req,           \* requests
  NoReq,         \* Python's None
  Prompt,        \* Prompt[r]: len(origin_input_ids)
  MaxNew,        \* MaxNew[r]: sampling_params.max_new_tokens
  NumRows,       \* req_to_token_pool.size
  KVSize,        \* max_total_num_tokens
  ChunkSize,     \* chunked_prefill_size
  MaxPrefill,    \* max_prefill_tokens
  MaxRunning,    \* max_running_requests
  RetractSteps,  \* global_config.retract_decode_steps
  Mixed,         \* is_mixed_chunk
  Logprob,       \* requests with return_logprob, which are not mixed
  Ratios,        \* values of new_token_ratio, in parts of Scale
  Scale,
  EarlyStop,     \* whether a request may end before MaxNew tokens
  MayAbort,      \* requests for which an AbortReq may arrive
  MaxFlush       \* bound: FlushCacheReqs that may arrive

ASSUME PAssumption == P \in Nat \ {0}
ASSUME ReqAssumption == IsFiniteSet(Req) /\ NoReq \notin Req /\ MayAbort \cup Logprob \subseteq Req
\* handle_generate_request truncates prompts and clamps max_new_tokens to max_req_len.
ASSUME LengthAssumption ==
  \A r \in Req : Prompt[r] \in Nat \ {0} /\ MaxNew[r] \in Nat /\ Prompt[r] + MaxNew[r] < KVSize - 1
ASSUME PoolAssumption == NumRows \in Nat \ {0} /\ KVSize \in Nat /\ MaxFlush \in Nat
\* With mixed batches a chunk must hold a token of every running request of the slot.
ASSUME ChunkAssumption == /\ ChunkSize \in Nat \ {0} /\ MaxPrefill \in Nat \ {0}
                          /\ MaxRunning \in 1 .. NumRows /\ Mixed \in BOOLEAN
                          /\ Mixed => ChunkSize >= MaxRunning
ASSUME RatioAssumption == /\ Scale \in Nat \ {0} /\ Ratios \subseteq 0 .. Scale /\ Ratios # {}
                          /\ RetractSteps \in Nat \ {0} /\ EarlyStop \in BOOLEAN

Slot == 0 .. P - 1
Row == 0 .. NumRows - 1

\* "mode" is the forward mode (MIXED counts as extend); "decoding" are the decoding_reqs
\* mixed into a prefill; "partial" is the request of which the batch computes a chunk
\* that is not the last (not in the code: used by properties only).
NoBatch == [mode |-> "none", reqs |-> <<>>, decoding |-> {}, partial |-> NoReq]

VARIABLES
  phase,           \* what the iteration does next
  cur,             \* cur_pp.current_idx
  available,       \* available_size, measured when requests are received
  waitingQueue,
  runningBatch,    \* runningBatch[s]: reqs of _running_batch[s], <<>> for None
  lastBatch,       \* lastBatch[s]: _last_batch[s]
  batch,           \* the batch chosen in this iteration
  beingChunkedReq, \* beingChunkedReq[s]: _being_chunked_req[s]
  batchIsFull,
  adder,           \* the PrefillAdder of this iteration
  outputs,         \* outputs[r]: len(output_ids)
  outputIdsLen,    \* outputIdsLen[r]: output_ids_len
  finished,        \* requests with a finished_reason
  toAbort,         \* requests with to_abort set
  isBeingChunked,  \* isBeingChunked[r]: is_being_chunked
  ppIdx,           \* ppIdx[r]: pp_idx
  fill,            \* fill[r]: len(fill_ids)
  prefix,          \* prefix[r]: len(prefix_indices)
  freeRows,        \* req_to_token_pool.free_slots
  row,             \* row[r]: req_pool_idx
  kvFree,          \* token_to_kv_pool.available_size()
  kvHeld,          \* kvHeld[r]: KV slots written to r's row
  entries,         \* tree_cache.entries
  arrived,         \* requests received so far (not in the code)
  aborted,         \* requests an AbortReq was received for (not in the code)
  removed,         \* requests an AbortReq took out of the queue (not in the code)
  flushes          \* FlushCacheReqs received so far (not in the code)

inputs   == <<arrived, aborted, removed, flushes>>
slots    == <<runningBatch, lastBatch, beingChunkedReq>>
requests == <<outputs, outputIdsLen, finished, toAbort, isBeingChunked, ppIdx, fill, prefix>>
pools    == <<freeRows, row, kvFree, kvHeld, entries>>
vars == <<phase, cur, available, waitingQueue, batch, batchIsFull, adder, inputs, slots,
          requests, pools>>

NoAdder == [remTotal |-> 0, curRem |-> 0, remInput |-> 0, remChunk |-> 0,
            canRun |-> <<>>, newChunked |-> NoReq, next |-> 1]

Init ==
  /\ phase = "recv" /\ cur = -1 /\ available = 0
  /\ waitingQueue = <<>> /\ batch = NoBatch /\ batchIsFull = FALSE /\ adder = NoAdder
  /\ runningBatch = [s \in Slot |-> <<>>]
  /\ lastBatch = [s \in Slot |-> NoBatch]
  /\ beingChunkedReq = [s \in Slot |-> NoReq]
  /\ outputs = [r \in Req |-> 0] /\ outputIdsLen = [r \in Req |-> 0]
  /\ finished = {} /\ toAbort = {}
  /\ isBeingChunked = [r \in Req |-> 0] /\ ppIdx = [r \in Req |-> 0]
  /\ fill = [r \in Req |-> 0] /\ prefix = [r \in Req |-> 0]
  /\ freeRows = [i \in 1 .. NumRows |-> i - 1] /\ row = [r \in Req |-> 0]
  /\ kvFree = KVSize /\ kvHeld = [r \in Req |-> 0] /\ entries = {}
  /\ arrived = {} /\ aborted = {} /\ removed = {} /\ flushes = 0

-----------------------------------------------------------------------------
(* next(cur_pp) and recv_requests: the free KV size is measured before the   *)
(* received requests are handled.                                            *)
BeginIteration ==
  /\ phase = "recv"
  /\ cur' = (cur + 1) % P
  /\ available' = kvFree
  /\ phase' = "handle"
  /\ UNCHANGED <<waitingQueue, batch, batchIsFull, adder, inputs, slots, requests, pools>>

HandleGenerate(r) ==
  /\ phase = "handle"
  /\ r \notin arrived
  /\ arrived' = arrived \cup {r}
  /\ waitingQueue' = Append(waitingQueue, r)
  /\ UNCHANGED <<phase, cur, available, batch, batchIsFull, adder, aborted, removed, flushes,
                 slots, requests, pools>>

\* abort_request looks in the waiting queue, then in the running batch of this slot only.
HandleAbort(r) ==
  /\ phase = "handle"
  /\ r \in (arrived \cap MayAbort) \ aborted
  /\ aborted' = aborted \cup {r}
  /\ waitingQueue' = Without(waitingQueue, {r})
  /\ removed' = IF Contains(waitingQueue, r) THEN removed \cup {r} ELSE removed
  /\ toAbort' = IF Contains(runningBatch[cur], r) /\ r \notin finished
                THEN toAbort \cup {r} ELSE toAbort
  /\ UNCHANGED <<phase, cur, available, batch, batchIsFull, adder, arrived, flushes, slots,
                 outputs, outputIdsLen, finished, isBeingChunked, ppIdx, fill, prefix, pools>>

\* flush_cache looks at the waiting queue and at the running batch of slot 0.
FlushAllowed == waitingQueue = <<>> /\ runningBatch[0] = <<>>

HandleFlush ==
  /\ phase = "handle"
  /\ flushes < MaxFlush
  /\ flushes' = flushes + 1
  /\ IF FlushAllowed
     THEN /\ freeRows' = [i \in 1 .. NumRows |-> i - 1]
          /\ kvFree' = KVSize
          /\ entries' = {}
     ELSE UNCHANGED <<freeRows, kvFree, entries>>
  /\ UNCHANGED <<phase, cur, available, waitingQueue, batch, batchIsFull, adder, arrived,
                 aborted, removed, slots, requests, row, kvHeld>>

-----------------------------------------------------------------------------
(* get_next_batch_to_run.                                                    *)

\* cache_unfinished_req of the requests in S.
CacheUnfinished(S) ==
  /\ prefix' = [r \in Req |-> IF r \in S THEN fill[r] ELSE prefix[r]]
  /\ entries' = entries \cup S

\* Mutant: filter_batch() leaves finished requests in the batch.
UnfinishedAll(reqs) == reqs

\* filter_batch
Unfinished(reqs) == Without(reqs, finished)

\* Mutant: the chunked request is not moved out of the batch.
KeptWithChunk(reqs, c) == IF c = NoReq THEN reqs ELSE Unfinished(reqs)

\* What filter_batch(being_chunked_req) leaves of the last prefill batch.
KeptOf(reqs, c) == IF c = NoReq THEN reqs
                   ELSE Without(reqs, finished \cup {c})

\* Mutant: a chunk that another slot has taken over is treated as this slot's own.
ChunkedAnywhere(c) == TRUE

ChunkedHere(c) == ppIdx[c] = cur

\* The first lines: move the chunked request out of the slot's last prefill batch, and
\* the rest of that batch into the running batch.  (The filtered last batch itself is
\* replaced at the end of the iteration and not read before.)
MergeLastBatch ==
  LET b        == lastBatch[cur]
      c        == IF b.mode = "extend" THEN beingChunkedReq[cur] ELSE NoReq
      reqs     == KeptOf(b.reqs, c)
  IN
  /\ phase = "handle"
  /\ IF c # NoReq /\ ChunkedHere(c)
     THEN /\ CacheUnfinished({c})
          /\ freeRows' = Append(freeRows, row[c])
          /\ batchIsFull' = FALSE
          /\ UNCHANGED beingChunkedReq
     ELSE /\ beingChunkedReq' = IF c = NoReq THEN beingChunkedReq
                                ELSE [beingChunkedReq EXCEPT ![cur] = NoReq]
          /\ UNCHANGED <<prefix, entries, freeRows, batchIsFull>>
  /\ outputIdsLen' = [r \in Req |-> outputIdsLen[r] + (IF Contains(reqs, r) THEN 1 ELSE 0)]
  /\ runningBatch' = IF b.mode = "extend" THEN [runningBatch EXCEPT ![cur] = @ \o reqs]
                     ELSE runningBatch
  /\ phase' = "fetch"
  /\ UNCHANGED <<cur, available, waitingQueue, lastBatch, batch, adder, inputs, outputs,
                 finished, toAbort, isBeingChunked, ppIdx, fill, row, kvFree, kvHeld>>

\* fetch_chunked_prefill: take over the chunked request of the previous slot.
FetchChunked ==
  LET c == beingChunkedReq[(cur - 1) % P] IN
  /\ phase = "fetch"
  /\ IF P = 1 \/ c = NoReq
     THEN UNCHANGED <<beingChunkedReq, prefix, entries, freeRows>>
     ELSE /\ beingChunkedReq' = [beingChunkedReq EXCEPT ![cur] = c]
          /\ CacheUnfinished({c})
          /\ freeRows' = Append(freeRows, row[c])
  /\ phase' = "prefill"
  /\ UNCHANGED <<cur, available, waitingQueue, runningBatch, lastBatch, batch, batchIsFull,
                 adder, inputs, outputs, outputIdsLen, finished, toAbort, isBeingChunked,
                 ppIdx, fill, row, kvFree, kvHeld>>

-----------------------------------------------------------------------------
(* get_new_batch_prefill and PrefillAdder (requests without ignore_eos).     *)

FullLen(r) == Prompt[r] + outputs[r]

RunningReqs == UNION {ToSet(runningBatch[s]) : s \in Slot}

NewAdder(ratio) ==
  LET mixedTokens == IF Mixed THEN Len(runningBatch[cur]) ELSE 0
      reserved == (SumFunctionOnSet([r \in Req |-> MaxNew[r] - outputIdsLen[r]], RunningReqs)
                     * ratio) \div Scale
  IN [NoAdder EXCEPT !.remTotal = available - mixedTokens - reserved,
                     !.curRem   = available - mixedTokens,
                     !.remInput = MaxPrefill - mixedTokens,
                     !.remChunk = ChunkSize - mixedTokens]

\* _prefill_one_req
Charge(a, r, extend, new) ==
  [a EXCEPT !.remTotal = @ - extend - new, !.curRem = @ - extend,
            !.remInput = @ - extend,       !.remChunk = @ - extend,
            !.canRun   = Append(@, r)]

PrefillWanted == beingChunkedReq[cur] # NoReq \/ (waitingQueue # <<>> /\ ~batchIsFull)

SkipPrefill ==
  /\ phase = "prefill"
  /\ PrefillWanted => Len(runningBatch[cur]) >= MaxRunning
  /\ batchIsFull' = (batchIsFull \/ PrefillWanted)
  /\ phase' = "decode"
  /\ UNCHANGED <<cur, available, waitingQueue, batch, adder, inputs, slots, requests, pools>>

\* A chunked request comes first, whatever memory is left.
StartPrefill ==
  LET c == beingChunkedReq[cur] IN
  /\ phase = "prefill"
  /\ PrefillWanted
  /\ Len(runningBatch[cur]) < MaxRunning
  /\ \E ratio \in Ratios :
       LET a         == NewAdder(ratio)
           rest      == FullLen(c) - prefix[c]
           truncated == rest > a.remChunk
           extend    == IF truncated THEN a.remChunk ELSE rest
       IN IF c = NoReq
          THEN adder' = a /\ UNCHANGED <<beingChunkedReq, fill>>
          ELSE /\ adder' = Charge(a, c, extend, IF truncated THEN 0 ELSE MaxNew[c])
               /\ fill' = [fill EXCEPT ![c] = prefix[c] + extend]
               /\ beingChunkedReq' = IF truncated THEN beingChunkedReq
                                     ELSE [beingChunkedReq EXCEPT ![cur] = NoReq]
  /\ phase' = "admit"
  /\ UNCHANGED <<cur, available, waitingQueue, runningBatch, lastBatch, batch, batchIsFull,
                 inputs, outputs, outputIdsLen, finished, toAbort, isBeingChunked, ppIdx,
                 prefix, pools>>

\* add_one_req: what becomes of the next waiting request, of which "extend" tokens are
\* not cached.
Verdict(r, extend) ==
  IF \/ Len(runningBatch[cur]) + Len(adder.canRun) >= MaxRunning
     \/ extend + MaxNew[r] >= adder.remTotal                     THEN "full"
  ELSE IF extend > adder.remInput /\ adder.canRun # <<>>         THEN "stop"
  ELSE IF extend <= adder.remChunk                               THEN "whole"
  ELSE IF adder.remChunk = 0                                     THEN "stop"
  ELSE                                                                "chunk"

\* match_prefix of a waiting request, whose last token is never taken from the cache.
Matched(r) == IF r \notin entries THEN 0
              ELSE IF prefix[r] < FullLen(r) THEN prefix[r] ELSE FullLen(r) - 1

\* (The lengths of a request that is not admitted are computed afresh the next time.)
AdmitOne ==
  LET r       == waitingQueue[adder.next]
      extend  == FullLen(r) - Matched(r)
      verdict == Verdict(r, extend)
      whole   == verdict = "whole"
      size    == IF whole THEN extend ELSE adder.remChunk
      charged == Charge(adder, r, size, IF whole THEN MaxNew[r] ELSE 0)
      noToken == charged.remTotal <= 0 \/ charged.curRem <= 0
      spent   == noToken \/ charged.remInput <= 0 \/ charged.remChunk <= 0
  IN
  /\ phase = "admit"
  /\ adder.next <= Len(waitingQueue)
  /\ IF verdict \in {"whole", "chunk"}
     THEN /\ adder' = [charged EXCEPT !.next = @ + 1,
                                      !.newChunked = IF whole THEN @ ELSE r]
          /\ fill' = [fill EXCEPT ![r] = Matched(r) + size]
          /\ prefix' = [prefix EXCEPT ![r] = Matched(r)]
          /\ batchIsFull' = (batchIsFull \/ noToken)
          /\ phase' = IF spent THEN "launch" ELSE "admit"
     ELSE /\ batchIsFull' = (batchIsFull \/ verdict = "full")
          /\ phase' = "launch"
          /\ UNCHANGED <<adder, fill, prefix>>
  /\ UNCHANGED <<cur, available, waitingQueue, batch, inputs, slots, outputs, outputIdsLen,
                 finished, toAbort, isBeingChunked, ppIdx, pools>>

AdmittedAll == phase = "launch" \/ (phase = "admit" /\ adder.next > Len(waitingQueue))

NothingAdmitted ==
  /\ AdmittedAll
  /\ adder.canRun = <<>>
  /\ adder' = NoAdder
  /\ phase' = "decode"
  /\ UNCHANGED <<cur, available, waitingQueue, batch, batchIsFull, inputs, slots, requests,
                 pools>>

\* The running requests mixed into the prefill batch, and the KV slots it allocates.
MixWanted == Mixed /\ ToSet(adder.canRun \o runningBatch[cur]) \cap Logprob = {}

MixedIn == IF MixWanted THEN Unfinished(runningBatch[cur]) ELSE <<>>

ExtendTokens == SumFunctionOnSet([r \in Req |-> fill[r] - prefix[r]], ToSet(adder.canRun))

\* The request of which the batch computes a chunk: an assertion of the code demands that
\* a new one does not displace one that is being continued.
Partial == IF adder.newChunked # NoReq THEN adder.newChunked ELSE beingChunkedReq[cur]

LaunchFails ==
  \/ Len(freeRows) < Len(adder.canRun)
  \/ kvFree < ExtendTokens + Len(MixedIn)
  \/ adder.newChunked # NoReq /\ beingChunkedReq[cur] # NoReq

LaunchPrefill ==
  LET run   == adder.canRun
      rowOf == [r \in ToSet(run) |-> freeRows[CHOOSE i \in DOMAIN run : run[i] = r]]
      mixed == ToSet(MixedIn)
  IN
  /\ AdmittedAll
  /\ run # <<>>
  /\ ~LaunchFails
  /\ waitingQueue' = Without(waitingQueue, ToSet(run))
  /\ ppIdx' = [r \in Req |-> IF Contains(run, r) THEN cur ELSE ppIdx[r]]
  /\ beingChunkedReq' = [beingChunkedReq EXCEPT ![cur] = Partial]
  /\ isBeingChunked' = [r \in Req |-> isBeingChunked[r] + (IF r = Partial THEN 1 ELSE 0)]
  /\ row' = [r \in Req |-> IF Contains(run, r) THEN rowOf[r] ELSE row[r]]
  /\ freeRows' = SubSeq(freeRows, Len(run) + 1, Len(freeRows))
  /\ kvFree' = kvFree - ExtendTokens - Len(MixedIn)
  /\ kvHeld' = [r \in Req |-> IF Contains(run, r) THEN fill[r]
                              ELSE IF r \in mixed THEN kvHeld[r] + 1 ELSE kvHeld[r]]
  /\ fill' = [r \in Req |-> IF r \in mixed THEN FullLen(r) ELSE fill[r]]
  /\ runningBatch' = IF MixWanted THEN [runningBatch EXCEPT ![cur] = <<>>] ELSE runningBatch
  /\ batch' = [mode |-> "extend", reqs |-> run \o MixedIn, decoding |-> mixed,
               partial |-> Partial]
  /\ adder' = NoAdder
  /\ phase' = "process"
  /\ UNCHANGED <<cur, available, batchIsFull, inputs, lastBatch, outputs, outputIdsLen,
                 finished, toAbort, prefix, entries>>

\* alloc_req_slots raises, alloc_token_slots exits, or the assertion fails.
ExitOnPrefill ==
  /\ AdmittedAll
  /\ adder.canRun # <<>>
  /\ LaunchFails
  /\ phase' = "exited"
  /\ UNCHANGED <<cur, available, waitingQueue, batch, batchIsFull, adder, inputs, slots,
                 requests, pools>>

-----------------------------------------------------------------------------
(* update_running_batch: decode, after retracting requests if memory is low. *)

\* seq_lens of a running request between two steps: its last token has no KV slot yet.
SeqLen(r) == Prompt[r] + outputs[r] - 1

\* Mutant: one token too few is asked for.
DecodeFitsOffByOne(reqs) == available + 1 >= Len(reqs)

DecodeFits(reqs) == available >= Len(reqs)

\* retract_decode pops requests with few outputs first, then those with long prompts.
PopsBefore(reqs, q, r) ==
  LET index(x) == CHOOSE i \in DOMAIN reqs : reqs[i] = x IN
  \/ outputIdsLen[q] < outputIdsLen[r]
  \/ outputIdsLen[q] = outputIdsLen[r] /\ Prompt[q] > Prompt[r]
  \/ outputIdsLen[q] = outputIdsLen[r] /\ Prompt[q] = Prompt[r] /\ index(q) > index(r)

PopOrder(reqs) ==
  [n \in DOMAIN reqs |->
     CHOOSE r \in ToSet(reqs) :
       Cardinality({q \in ToSet(reqs) : PopsBefore(reqs, q, r)}) = n - 1]

Freed(reqs) == SumFunctionOnSet([r \in Req |-> SeqLen(r)], ToSet(reqs))

\* Pop until there is room for RetractSteps steps of the others, at least one request but
\* never the last one.
RetractCount(reqs) ==
  LET n == Len(reqs)
      enough(k) == \/ k = n - 1
                   \/ available + Freed(SubSeq(PopOrder(reqs), 1, k)) >= (n - k) * RetractSteps
  IN IF DecodeFits(reqs) \/ n = 1 THEN 0
     ELSE CHOOSE k \in 1 .. n - 1 : enough(k) /\ \A j \in 1 .. k - 1 : ~enough(j)

Retracted(reqs) == SubSeq(PopOrder(reqs), 1, RetractCount(reqs))

\* The assertion "No space left for only one request", a retracted request without a
\* cache entry, or a failed allocation.
DecodeFails(reqs) ==
  \/ Len(reqs) = 1 /\ available = 0
  \/ ~(ToSet(Retracted(reqs)) \subseteq entries)
  \/ kvFree + Freed(Retracted(reqs)) < Len(reqs) - RetractCount(reqs)

DecodeRunning ==
  LET reqs == Unfinished(runningBatch[cur])
      out  == Retracted(reqs)
      kept == Without(reqs, ToSet(out))
  IN
  /\ phase = "decode"
  /\ reqs # <<>>
  /\ ~DecodeFails(reqs)
  /\ waitingQueue' = waitingQueue \o out
  /\ freeRows' = freeRows \o [i \in DOMAIN out |-> row[out[i]]]
  /\ kvFree' = kvFree + Freed(out) - Len(kept)
  /\ kvHeld' = [r \in Req |-> IF Contains(kept, r) THEN kvHeld[r] + 1
                              ELSE IF Contains(out, r) THEN kvHeld[r] - SeqLen(r) ELSE kvHeld[r]]
  /\ prefix' = [r \in Req |-> IF Contains(out, r) THEN 0 ELSE prefix[r]]
  /\ entries' = entries \ ToSet(out)
  /\ batchIsFull' = (batchIsFull /\ Len(kept) = Len(runningBatch[cur]))
  /\ runningBatch' = [runningBatch EXCEPT ![cur] = kept]
  /\ batch' = [NoBatch EXCEPT !.mode = "decode", !.reqs = kept]
  /\ phase' = "process"
  /\ UNCHANGED <<cur, available, adder, inputs, lastBatch, beingChunkedReq, outputs,
                 outputIdsLen, finished, toAbort, isBeingChunked, ppIdx, fill, row>>

NothingToRun ==
  /\ phase = "decode"
  /\ Unfinished(runningBatch[cur]) = <<>>
  /\ batchIsFull' = (batchIsFull /\ runningBatch[cur] = <<>>)
  /\ runningBatch' = [runningBatch EXCEPT ![cur] = <<>>]
  /\ batch' = NoBatch
  /\ phase' = "process"
  /\ UNCHANGED <<cur, available, waitingQueue, adder, inputs, lastBatch, beingChunkedReq,
                 requests, pools>>

ExitOnDecode ==
  /\ phase = "decode"
  /\ Unfinished(runningBatch[cur]) # <<>>
  /\ DecodeFails(Unfinished(runningBatch[cur]))
  /\ phase' = "exited"
  /\ UNCHANGED <<cur, available, waitingQueue, batch, batchIsFull, adder, inputs, slots,
                 requests, pools>>

-----------------------------------------------------------------------------
(* run_batch and process_batch_result, on the batch whose tokens this        *)
(* iteration's broadcast delivers.                                           *)

ResultOf == IF P = 1 THEN batch ELSE lastBatch[(cur + 1) % P]

\* Mutants: the last chunk's result is taken for an earlier one's, and the reverse.
SampledEarly(b) == {r \in ToSet(b.reqs) : b.mode = "decode" \/ isBeingChunked[r] <= 1}

\* The requests that get a token; the others had a chunk of their prompt computed.
Sampled(b) == {r \in ToSet(b.reqs) : b.mode = "decode" \/ isBeingChunked[r] <= 0}

\* Mutant: the last token, which has no KV slot yet, is counted.
FinishedLenAll(r) == Prompt[r] + (outputs[r] + 1)

\* The KV slots cache_finished_req returns, counted before the new token is appended.
FinishedLen(r) == Prompt[r] + (outputs[r] + 1) - 1

ApplyResult ==
  LET b       == ResultOf
      sampled == Sampled(b)
      certain == {r \in sampled : \/ r \in finished \cup toAbort
                                  \/ outputs[r] + 1 >= MaxNew[r]}
  IN
  /\ phase = "process"
  /\ \E stopped \in SUBSET (IF EarlyStop THEN sampled ELSE {}) :
       LET ended == certain \cup stopped
           inOrder == Without(b.reqs, Req \ ended)
           cached == IF b.mode = "extend" THEN (sampled \ ended) \ b.decoding ELSE {}
       IN /\ finished' = finished \cup ended
          /\ freeRows' = freeRows \o [i \in DOMAIN inOrder |-> row[inOrder[i]]]
          /\ kvFree' = kvFree + SumFunctionOnSet([r \in Req |-> FinishedLen(r)], ended)
          /\ kvHeld' = [r \in Req |-> IF r \in ended THEN kvHeld[r] - FinishedLen(r) ELSE kvHeld[r]]
          /\ entries' = (entries \ ended) \cup cached
          /\ prefix' = [r \in Req |-> IF r \in cached THEN fill[r] ELSE prefix[r]]
  /\ outputs' = [r \in Req |-> outputs[r] + (IF r \in sampled THEN 1 ELSE 0)]
  /\ isBeingChunked' = [r \in Req |-> isBeingChunked[r]
                                        - (IF r \in ToSet(b.reqs) \ sampled THEN 1 ELSE 0)]
  /\ lastBatch' = [lastBatch EXCEPT ![cur] = batch]
  /\ batch' = NoBatch
  /\ phase' = "recv"
  /\ UNCHANGED <<cur, available, waitingQueue, batchIsFull, adder, inputs, runningBatch,
                 beingChunkedReq, outputIdsLen, toAbort, ppIdx, fill, row>>

-----------------------------------------------------------------------------
\* The scheduler's own steps; which message arrives when is up to the environment.
Iterate ==
  \/ BeginIteration \/ MergeLastBatch \/ FetchChunked
  \/ SkipPrefill \/ StartPrefill \/ AdmitOne \/ NothingAdmitted \/ LaunchPrefill
  \/ ExitOnPrefill
  \/ DecodeRunning \/ NothingToRun \/ ExitOnDecode
  \/ ApplyResult

Receive ==
  \/ \E r \in Req : HandleGenerate(r) \/ HandleAbort(r)
  \/ HandleFlush

Next == Iterate \/ Receive

SafeSpec == Init /\ [][Next]_vars

\* The loop never blocks on the first rank but for its own collectives.
Spec == SafeSpec /\ WF_vars(Iterate)

-----------------------------------------------------------------------------
\* Between iterations: the unfinished requests of all slots, and the slots whose last
\* batch still waits for its result.
InBatches == (RunningReqs \cup UNION {ToSet(lastBatch[s].reqs) : s \in Slot}) \ finished

Pending == IF P = 1 THEN {} ELSE Slot \ {(cur + 1) % P}

\* Every row of req_to_token_pool is either free, once, or the row of exactly one request
\* in some slot: chunks free and take rows in two slots' turns, retraction and completion
\* in others, and no row is lost, freed twice or shared.
RowsAccounted ==
  phase = "recv" =>
    LET held == {row[r] : r \in InBatches} IN
    /\ IsInjective(freeRows)
    /\ Cardinality(held) = Cardinality(InBatches)
    /\ held = Row \ ToSet(freeRows)

\* What cache_finished_req and retract_decode return to the KV pool, computed from prompt
\* and output lengths, is what the prefill chunks and decode steps had taken from it.
KVAccounted ==
  /\ kvFree + SumFunction(kvHeld) = KVSize
  /\ phase = "recv" => \A r \in Req : kvHeld[r] # 0 <=> r \in InBatches

\* An unfinished request is in the waiting queue, in one slot's batches, or being chunked,
\* and never in two of them, however often it is chunked, mixed in or retracted.
OnePlace ==
  phase = "recv" =>
    \A r \in arrived \ (finished \cup removed) :
      LET queued  == {i \in DOMAIN waitingQueue : waitingQueue[i] = r}
          running == {s \in Slot : \/ Contains(runningBatch[s], r)
                                   \/ /\ lastBatch[s].mode = "extend"
                                      /\ Contains(lastBatch[s].reqs, r)
                                      /\ lastBatch[s].partial # r}
          chunked == {s \in Slot : lastBatch[s].partial = r /\ s = ppIdx[r]}
      IN Cardinality(queued) + Cardinality(running) + Cardinality(chunked) = 1

\* is_being_chunked counts the chunks in flight that are not the last of their prompt, so
\* that a token is appended for the last chunk's result and for no other.
ChunksCounted ==
  phase = "recv" =>
    \A r \in Req : isBeingChunked[r] = Cardinality({s \in Pending : lastBatch[s].partial = r})

\* When a slot has its turn, output_ids_len of its running requests, which the adder and
\* the choice of retracted requests use, is the length of output_ids.
OutputLenAgrees ==
  phase = "fetch" =>
    \A r \in ToSet(runningBatch[cur]) \ finished : outputIdsLen[r] = outputs[r]

\* A finished request is never launched again and gets no further token.
FinishedForGood ==
  [][\A r \in finished : outputs'[r] = outputs[r] /\ ~Contains(batch'.reqs, r)]_vars

\* The process never runs out of rows or KV slots and never fails an assertion.
NeverExits == phase # "exited"

\* "(When there are running or waiting requests, the operation will not be performed.)"
FlushOnlyWhenIdle ==
  [][flushes' # flushes /\ <<freeRows, kvFree, entries>>' # <<freeRows, kvFree, entries>>
       => waitingQueue = <<>> /\ InBatches = {}]_vars

\* "Delete requests in the running batch": an aborted request that is running is marked.
AbortMarksRunning ==
  [][\A r \in aborted' \ aborted :
       r \in RunningReqs \ finished => r \in toAbort']_vars

\* "the leak invariant only holds when all stages are idle": then the pools are full.
PoolsFullWhenIdle ==
  phase = "recv" /\ (\A s \in Slot : lastBatch[s].mode = "none")
    => Len(freeRows) = NumRows /\ kvFree = KVSize

\* "No space left for only one request": retraction never ends with one request and no
\* memory.
SpaceForLastRequest ==
  phase = "decode" =>
    LET reqs == Unfinished(runningBatch[cur]) IN Len(reqs) = 1 => available > 0

Service == INSTANCE RequestService WITH
             accepted <- arrived, withdrawn <- removed, ended <- finished, tokens <- outputs

\* The scheduler implements its promise: every request gets its tokens one by one, is not
\* run after its end, and ends.
ImplementsRequestService == Service!Spec

=============================================================================
