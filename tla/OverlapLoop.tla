----------------------------- MODULE OverlapLoop -----------------------------
(***************************************************************************)
(* event_loop_overlap with one pipeline stage: the scheduler launches a    *)
(* batch before it knows the result of the one before, and a forward       *)
(* thread (TpModelWorkerClient) runs the batches.  The input of a request  *)
(* whose last token is not known yet is a future, an index into a map that *)
(* the forward thread fills.  Requests with a grammar are sampled under a  *)
(* mask that needs all tokens before.                                      *)
(*                                                                         *)
(* The loop gets beyond its first iteration only if the ALP scheduler has  *)
(* profiled the model at start-up.                                         *)
(*                                                                         *)
(* The cache is the radix cache.  KV slots are counted per request,        *)
(* whether it owns them or has locked them in the cache; when memory is    *)
(* short is any time.                                                      *)
(***************************************************************************)
EXTENDS Integers, Sequences, FiniteSets, SequencesExt, SequenceFilter

CONSTANTS
  Req,             \* requests
  NoReq,           \* Python's None
  Prompt,          \* Prompt[r]: len(origin_input_ids)
  MaxNew,          \* MaxNew[r]: max_new_tokens
  Grammar,         \* requests with a grammar
  MaxRunning,      \* max_running_requests
  MixedModes,      \* the values of is_mixed_chunk
  ProfiledModes,   \* the values of startupProfiled
  MaxRetract       \* how many requests are retracted (a bound of the model)

ASSUME OverlapAssumption ==
  /\ IsFiniteSet(Req) /\ NoReq \notin Req /\ Grammar \subseteq Req
  /\ \A r \in Req : Prompt[r] \in Nat \ {0} /\ MaxNew[r] \in Nat \ {0}
  /\ MaxRunning \in Nat \ {0} /\ MaxRetract \in Nat
  /\ MixedModes \subseteq BOOLEAN /\ MixedModes # {}
  /\ ProfiledModes \subseteq BOOLEAN /\ ProfiledModes # {}

Limit == MaxRunning          \* future_token_ids_limit
Places == 1 .. 2 * MaxRunning - 1

\* A token is known by its request and its number; what is computed from a wrong input,
\* under a stale mask or for a prompt that goes on is Garbage.
Garbage == <<>>
Token == (Req \X Nat) \cup {Garbage}

VARIABLES
  phase,         \* of an iteration; "exited" after an uncaught exception
  isMixedChunk,
  startupProfiled,  \* hasattr(self, "_waiting_queue"): the ALP profiling ran at start-up
  waitingQueue,
  runningBatch,  \* running_batch.reqs, <<>> for None
  lastBatch,     \* last_batch
  batch,         \* the batch launched in this iteration
  beingChunked,  \* being_chunked_req
  batchIsFull,
  resultQueue,   \* result_queue: copies of the batches whose results are still to come
  future,        \* future[r]: the place its batch's output_ids hold for r
  seqLen,        \* seqLen[r]: its batch's seq_lens, counting what is in flight
  futureCt,      \* future_token_ids_ct
  info,          \* info[b]: the sampling_info of one batch of two: its event and its mask
  outputs,       \* outputs[r]: output_ids
  finished, isBeingChunked,
  fill,          \* fill[r]: prompt tokens whose KV is computed or in flight
  kvHeld,        \* kvHeld[r]: KV slots of r
  inputQueue, outputQueue,
  job,           \* the batch the forward thread has taken
  step,          \* what the forward thread does next
  launchDone,    \* launch_done, the event of the batch taken last
  futureMap,     \* future_token_ids_map
  arrived, retracts  \* requests received, retractions so far (not in the code)

requests == <<outputs, finished, isBeingChunked, fill, kvHeld>>
tensors  == <<future, seqLen, futureCt>>
thread   == <<outputQueue, job, step, launchDone, futureMap>>
env      == <<arrived, isMixedChunk, startupProfiled>>
vars == <<phase, waitingQueue, runningBatch, lastBatch, batch, beingChunked, batchIsFull,
          resultQueue, info, inputQueue, retracts, requests, tensors, thread, env>>

NoBatch == [mode |-> "none", reqs |-> <<>>, decoding |-> {}, id |-> 0]
NoInfo  == [done |-> FALSE, mask |-> [r \in Req |-> 0]]
NoJob   == [inputs |-> <<>>, ct |-> 0, id |-> 0]

Init ==
  /\ phase = "recv" /\ isMixedChunk \in MixedModes /\ startupProfiled \in ProfiledModes
  /\ waitingQueue = <<>> /\ runningBatch = <<>> /\ lastBatch = NoBatch /\ batch = NoBatch
  /\ beingChunked = NoReq /\ batchIsFull = FALSE /\ resultQueue = <<>>
  /\ future = [r \in Req |-> 0] /\ seqLen = [r \in Req |-> 0] /\ futureCt = 0
  /\ info = [b \in 0 .. 1 |-> NoInfo]
  /\ outputs = [r \in Req |-> <<>>] /\ finished = {}
  /\ isBeingChunked = [r \in Req |-> 0]
  /\ fill = [r \in Req |-> 0] /\ kvHeld = [r \in Req |-> 0]
  /\ inputQueue = <<>> /\ outputQueue = <<>> /\ job = NoJob /\ step = "get"
  /\ launchDone = FALSE /\ futureMap = [p \in Places |-> Garbage]
  /\ arrived = {} /\ retracts = 0

Unfinished(reqs) == Without(reqs, finished)

-----------------------------------------------------------------------------
(* The scheduler, up to the choice of a batch.                               *)

\* handle_generate_request.
Receive(r) ==
  /\ phase = "recv" /\ r \notin arrived
  /\ arrived' = arrived \cup {r} /\ waitingQueue' = Append(waitingQueue, r)
  /\ UNCHANGED <<phase, runningBatch, lastBatch, batch, beingChunked, batchIsFull, resultQueue,
                 info, inputQueue, retracts, isMixedChunk, startupProfiled, requests, tensors,
                 thread>>

\* First half of get_next_batch_to_run: all of the last prefill but the request that is
\* still being chunked joins the running batch.  batch.copy() in result_queue keeps its own.
MergeLastBatch ==
  LET chunked == lastBatch.mode = "extend" /\ beingChunked # NoReq
      kept    == IF chunked THEN Without(lastBatch.reqs, finished \cup {beingChunked})
                 ELSE lastBatch.reqs
  IN
  /\ phase = "recv" /\ phase' = "prefill"
  /\ runningBatch' = IF lastBatch.mode = "extend" THEN runningBatch \o kept ELSE runningBatch
  /\ batchIsFull' = (batchIsFull /\ ~chunked)
  /\ UNCHANGED <<waitingQueue, lastBatch, batch, beingChunked, resultQueue, info, inputQueue,
                 retracts, requests, tensors, thread, env>>

Barred == (batchIsFull \/ waitingQueue = <<>>) /\ beingChunked = NoReq

\* Early returns of get_new_batch_prefill.
SkipPrefill ==
  /\ phase = "prefill" /\ (Barred \/ Len(runningBatch) >= MaxRunning)
  /\ phase' = "decode"
  /\ batchIsFull' = (batchIsFull \/ ~Barred)
  /\ UNCHANGED <<waitingQueue, runningBatch, lastBatch, batch, beingChunked, resultQueue, info,
                 inputQueue, retracts, requests, tensors, thread, env>>

-----------------------------------------------------------------------------
(* TpModelWorkerClient.forward_batch_generation: the batch goes to the       *)
(* forward thread, and each of its requests gets the place of its token.     *)

FullLen(r) == Prompt[r] + Len(outputs[r])
MaxLen == Max({FullLen(r) : r \in Req})

\* Mutant: the counter goes on from one token too early.
NextPlaceEarly(bs) == (futureCt + bs - 1) % Limit

NextPlace(bs) == (futureCt + bs) % Limit

\* "inputs" says what each request's row of the batch is computed from (a place, or 0 for
\* tokens that are known) and which token it yields (0 for a chunk that is not the last).
Launch(b, inputs) ==
  /\ batch' = b
  /\ inputQueue' = Append(inputQueue, [inputs |-> inputs, ct |-> futureCt, id |-> b.id])
  /\ future' = [r \in Req |-> IF Contains(b.reqs, r)
                              THEN futureCt + (CHOOSE i \in DOMAIN b.reqs : b.reqs[i] = r)
                              ELSE future[r]]
  /\ futureCt' = NextPlace(Len(b.reqs))
  /\ info' = [info EXCEPT ![b.id] = NoInfo]
  /\ resultQueue' = Append(resultQueue, b)
  /\ phase' = "result"

OfPrefill(r, last) ==
  [req |-> r, from |-> 0, token |-> Garbage, nth |-> IF last THEN Len(outputs[r]) + 1 ELSE 0]
OfDecode(r) ==
  [req |-> r, from |-> future[r], token |-> Garbage, nth |-> seqLen[r] - Prompt[r] + 2]

\* Mutant: the last request that is launched stays in the queue.
LastLeftWaiting(j) == SubSeq(waitingQueue, IF j = 0 THEN 1 ELSE j, Len(waitingQueue))

\* waiting_queue without can_run_set.
LeftWaiting(j) == SubSeq(waitingQueue, j + 1, Len(waitingQueue))

\* The request that is being chunked, if any, and the first j of the queue; the last of them
\* may get a chunk only, and max_running_requests or memory may end the list.
Prefill(j, full, chunk) ==
  LET first   == IF beingChunked = NoReq THEN <<>> ELSE <<beingChunked>>
      run     == first \o SubSeq(waitingQueue, 1, j)
      partial == IF chunk = 0 THEN NoReq ELSE Last(run)
      mixed   == IF isMixedChunk THEN Unfinished(runningBatch) ELSE <<>>
      upTo(r) == IF r = partial THEN fill[r] + chunk ELSE FullLen(r)
      new     == ToSet(run)
  IN
  /\ run # <<>> /\ (j > 0 => Len(runningBatch) + Len(run) <= MaxRunning)
  /\ beingChunked # NoReq /\ partial = beingChunked => j = 0
  /\ chunk < FullLen(Last(run)) - fill[Last(run)]
  /\ full => j < Len(waitingQueue) /\ partial = NoReq
  /\ waitingQueue' = LeftWaiting(j)
  /\ batchIsFull' = (batchIsFull \/ full)
  /\ beingChunked' = partial
  /\ isBeingChunked' = [r \in Req |-> isBeingChunked[r] + (IF r = partial THEN 1 ELSE 0)]
  /\ kvHeld' = [r \in Req |-> IF r \in new THEN kvHeld[r] + upTo(r) - fill[r]
                              ELSE IF Contains(mixed, r) THEN kvHeld[r] + 1 ELSE kvHeld[r]]
  /\ fill' = [r \in Req |-> IF r \in new THEN upTo(r) ELSE fill[r]]
  /\ seqLen' = [r \in Req |-> IF r \in new THEN upTo(r)
                              ELSE IF Contains(mixed, r) THEN seqLen[r] + 1 ELSE seqLen[r]]
  /\ runningBatch' = IF isMixedChunk THEN <<>> ELSE runningBatch
  /\ Launch([mode |-> "extend", reqs |-> run \o mixed, decoding |-> ToSet(mixed),
             id |-> 1 - lastBatch.id],
            [i \in DOMAIN run |-> OfPrefill(run[i], run[i] # partial)]
              \o [i \in DOMAIN mixed |-> OfDecode(mixed[i])])

LaunchPrefill ==
  /\ phase = "prefill" /\ ~Barred /\ Len(runningBatch) < MaxRunning
  /\ \E j \in 0 .. Len(waitingQueue), full \in BOOLEAN, chunk \in 0 .. MaxLen :
       Prefill(j, full, chunk)
  /\ UNCHANGED <<lastBatch, retracts, outputs, finished, thread, env>>

\* The memory left does not do for the first request of the queue.
NothingAdmitted ==
  /\ phase = "prefill" /\ ~Barred /\ beingChunked = NoReq
  /\ runningBatch # <<>> /\ Len(runningBatch) < MaxRunning
  /\ phase' = "decode" /\ batchIsFull' = TRUE
  /\ UNCHANGED <<waitingQueue, runningBatch, lastBatch, batch, beingChunked, resultQueue, info,
                 inputQueue, retracts, requests, tensors, thread, env>>

\* update_running_batch without or with retraction; retract_decode returns all KV slots up
\* to seq_lens, the one for the token in flight included.  reset_for_retract clears last_node;
\* it does not set is_retracted, since with one stage every scheduler is on the first rank.
RunDecode ==
  /\ phase = "decode" /\ Unfinished(runningBatch) # <<>>
  /\ \E out \in SUBSET ToSet(Unfinished(runningBatch)) :
       LET kept == Without(Unfinished(runningBatch), out) IN
       /\ kept # <<>> /\ retracts + Cardinality(out) <= MaxRetract
       /\ retracts' = retracts + Cardinality(out)
       /\ waitingQueue' = waitingQueue \o SetToSeq(out)
       /\ kvHeld' = [r \in Req |-> IF r \in out THEN kvHeld[r] - seqLen[r]
                                   ELSE IF Contains(kept, r) THEN kvHeld[r] + 1 ELSE kvHeld[r]]
       /\ fill' = [r \in Req |-> IF r \in out THEN 0 ELSE fill[r]]
       /\ seqLen' = [r \in Req |-> IF Contains(kept, r) THEN seqLen[r] + 1 ELSE seqLen[r]]
       /\ runningBatch' = kept
       /\ batchIsFull' = (batchIsFull /\ Len(kept) = Len(runningBatch))
       /\ Launch([mode |-> "decode", reqs |-> kept, decoding |-> {}, id |-> 1 - lastBatch.id],
                 [i \in DOMAIN kept |-> OfDecode(kept[i])])
  /\ UNCHANGED <<lastBatch, beingChunked, outputs, finished, isBeingChunked, thread, env>>

NothingToRun ==
  /\ phase = "decode" /\ Unfinished(runningBatch) = <<>>
  /\ batchIsFull' = (batchIsFull /\ runningBatch = <<>>)
  /\ runningBatch' = <<>> /\ batch' = NoBatch /\ phase' = "result"
  /\ UNCHANGED <<waitingQueue, lastBatch, beingChunked, resultQueue, info, inputQueue,
                 retracts, requests, tensors, thread, env>>

-----------------------------------------------------------------------------
(* The forward thread.                                                       *)

TakeJob ==
  /\ step = "get" /\ inputQueue # <<>>
  /\ job' = Head(inputQueue) /\ inputQueue' = Tail(inputQueue)
  /\ launchDone' = FALSE /\ step' = "forward"
  /\ UNCHANGED <<phase, waitingQueue, runningBatch, lastBatch, batch, beingChunked, batchIsFull,
                 resultQueue, info, retracts, requests, tensors, outputQueue, futureMap, env>>

\* resolve_future_token_ids, and the forward pass: "token" is the one before the next.
Forward ==
  /\ step = "forward" /\ step' = "sample" /\ launchDone' = TRUE
  /\ job' = [job EXCEPT !.inputs = [i \in DOMAIN job.inputs |->
               LET x == job.inputs[i]
               IN  [x EXCEPT !.token = IF x.from = 0 THEN <<x.req, x.nth - 1>> ELSE futureMap[x.from]]]]
  /\ UNCHANGED <<phase, waitingQueue, runningBatch, lastBatch, batch, beingChunked, batchIsFull,
                 resultQueue, info, inputQueue, retracts, requests, tensors, outputQueue,
                 futureMap, env>>

Sampled(x) ==
  IF /\ x.nth > 0 /\ x.token = <<x.req, x.nth - 1>>
     /\ x.req \in Grammar => info[job.id].mask[x.req] = x.nth - 1
  THEN <<x.req, x.nth>> ELSE Garbage

\* model_runner.sample waits for the mask if the batch has a grammar.
MaskAwaited == (\E i \in DOMAIN job.inputs : job.inputs[i].req \in Grammar) /\ ~info[job.id].done

Sample ==
  LET tokens == [i \in DOMAIN job.inputs |-> Sampled(job.inputs[i])] IN
  /\ step = "sample" /\ ~MaskAwaited
  /\ futureMap' = [p \in Places |-> IF p - job.ct \in DOMAIN tokens THEN tokens[p - job.ct]
                                    ELSE futureMap[p]]
  /\ outputQueue' = Append(outputQueue, tokens)
  /\ step' = "get" /\ job' = NoJob
  /\ UNCHANGED <<phase, waitingQueue, runningBatch, lastBatch, batch, beingChunked, batchIsFull,
                 resultQueue, info, inputQueue, retracts, requests, tensors, launchDone, env>>

-----------------------------------------------------------------------------
(* process_batch_result.                                                     *)

\* update_regex_vocab_mask of the batch launched in this iteration, after the results of the
\* batch before.
Signal(out) ==
  info' = IF batch.mode = "none" THEN info
          ELSE [info EXCEPT ![batch.id] = [done |-> TRUE, mask |-> [r \in Req |-> Len(out[r])]]]

\* get_pp_queue_lengths raises AttributeError where nothing has set _waiting_queue.
EndIteration ==
  \/ startupProfiled /\ lastBatch' = batch /\ batch' = NoBatch /\ phase' = "recv"
  \/ ~startupProfiled /\ phase' = "exited" /\ UNCHANGED <<lastBatch, batch>>

\* The dummy first batch, which only signals; without any batch the loop is idle.
NoResult ==
  /\ phase = "result" /\ lastBatch.mode = "none"
  /\ Signal(outputs) /\ EndIteration
  /\ UNCHANGED <<waitingQueue, runningBatch, beingChunked, batchIsFull, resultQueue, inputQueue,
                 retracts, requests, tensors, thread, env>>

\* Mutant: the one delayed token of a request that has ended is not freed.
DelayedKept(b) == {}

\* The requests that ended with the batch before: "Free the one delayed token".
Delayed(b) == {r \in ToSet(b.reqs) : r \in finished /\ (b.mode = "decode" \/ isMixedChunk)}

\* Mutant: a request that has ended gets the token that was already being computed.
GetsTokenAlways(b) == {r \in ToSet(b.reqs) : b.mode = "decode" \/ isBeingChunked[r] <= 0}

GetsToken(b) ==
  {r \in ToSet(b.reqs) \ finished : b.mode = "decode" \/ isBeingChunked[r] <= 0}

\* A request retracted in this iteration has no last_node to unlock, so dec_lock_ref raises
\* an exception for it if the result would put it into the cache.
Cached(b, given, ended) == ended \cup (IF b.mode = "extend" THEN given \ b.decoding ELSE {})

\* resolve_batch_result and process_batch_result_prefill or _decode.
ApplyResult ==
  LET b      == Head(resultQueue)
      tokens == Head(outputQueue)
      given  == GetsToken(b)
      chunk  == {r \in ToSet(b.reqs) \ finished : r \notin given}
      index(r) == CHOOSE i \in DOMAIN b.reqs : b.reqs[i] = r
      out    == [r \in Req |-> IF r \in given THEN Append(outputs[r], tokens[index(r)]) ELSE outputs[r]]
      full   == {r \in given : Len(out[r]) >= MaxNew[r]}
  IN
  /\ phase = "result" /\ lastBatch.mode # "none" /\ outputQueue # <<>> /\ launchDone
  /\ \E stopped \in SUBSET given :
       LET ended == stopped \cup full
           fails == Cached(b, given, ended) \cap ToSet(waitingQueue) # {}
       IN
       \/ /\ fails /\ phase' = "exited"
          /\ UNCHANGED <<lastBatch, batch, resultQueue, outputQueue, info, requests>>
       \/ /\ ~fails
          /\ resultQueue' = Tail(resultQueue) /\ outputQueue' = Tail(outputQueue)
          /\ outputs' = out /\ finished' = finished \cup ended
          /\ kvHeld' = [r \in Req |-> kvHeld[r] - (IF r \in ended THEN Prompt[r] + Len(out[r]) - 1 ELSE 0)
                                                - (IF r \in Delayed(b) THEN 1 ELSE 0)]
          /\ isBeingChunked' = [r \in Req |-> isBeingChunked[r] - (IF r \in chunk THEN 1 ELSE 0)]
          /\ UNCHANGED fill
          /\ Signal(out) /\ EndIteration
  /\ UNCHANGED <<waitingQueue, runningBatch, beingChunked, batchIsFull, inputQueue, retracts,
                 tensors, job, step, launchDone, futureMap, env>>

-----------------------------------------------------------------------------
Schedule ==
  \/ MergeLastBatch \/ SkipPrefill \/ LaunchPrefill \/ NothingAdmitted
  \/ RunDecode \/ NothingToRun \/ NoResult \/ ApplyResult

ForwardThread == TakeJob \/ Forward \/ Sample

Next == (\E r \in Req : Receive(r)) \/ Schedule \/ ForwardThread

\* Each of the two threads runs on unless it waits.
Spec == Init /\ [][Next]_vars /\ WF_vars(Schedule) /\ WF_vars(ForwardThread)
-----------------------------------------------------------------------------
\* "Store next_token in the future token ids map; on the next iteration, schedule with a
\* dummy token -(k), then restore input_ids before model forward": every request gets its
\* own tokens in order, although its input was a place in a map that is used again and
\* again, and its mask was made after the batch was launched.
OwnTokens == \A r \in Req : \A i \in DOMAIN outputs[r] : outputs[r][i] = <<r, i>>

\* Between iterations a request holds KV slots for exactly the tokens that were computed or
\* are in flight: what chunks, decode steps and the one delayed token take is what the end
\* of a request, a retraction and the delayed token's result return.
InFlight(r) == Contains(lastBatch.reqs, r)

KVClaims ==
  phase = "recv" =>
    \A r \in Req : kvHeld[r] =
      IF r \in finished THEN IF InFlight(r) THEN 1 ELSE 0
      ELSE IF Contains(waitingQueue, r) \/ r \notin arrived THEN 0
      ELSE IF fill[r] < FullLen(r) - Len(outputs[r]) THEN fill[r]
      ELSE seqLen[r]

\* "Retract the decoding requests when there is not enough memory": retraction does not
\* end the process.
NeverExits == phase # "exited"

\* The start-up profiling is no part of the overlap of "the CPU scheduler with GPU model
\* worker": the loop does without it.
RunsUnprofiled == startupProfiled \/ phase # "exited"

\* Nothing else ends it: no result is for a request that is back in the queue (its last_node
\* gone), however far the launches run ahead, if no request was retracted.
ExitsForRetraction == phase = "exited" /\ startupProfiled => retracts > 0

Requests == INSTANCE RequestService
  WITH accepted <- arrived, ended <- finished,
       withdrawn <- IF phase = "exited" THEN arrived \ finished ELSE {},
       tokens <- [r \in Req |-> Len(outputs[r])]

\* Results that come a batch late keep the promise of the scheduler without overlap: a
\* request that is accepted gets tokens one by one, none after its end, and it ends.  So the
\* threads never wait for each other at once, though sampling needs a mask that is made
\* after the result of the batch before, and that result is waited for.  An exit of the
\* process (ExitsForRetraction) gives up what has not ended.
ImplementsRequestService == Requests!Spec

=============================================================================
