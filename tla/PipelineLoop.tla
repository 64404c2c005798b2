---------------------------- MODULE PipelineLoop ----------------------------
(***************************************************************************)
(* The iteration of Scheduler.event_loop_normal on every pipeline rank:    *)
(* PPCounter's slot arithmetic, the PUB/SUB request channel with its two   *)
(* kinds of messages, the hidden states sent from rank to rank, the        *)
(* broadcast of the sampled tokens by the last rank, and the moment each   *)
(* rank applies those tokens to "pipe_batch".                              *)
(*                                                                         *)
(* What a batch contains is left to MicroBatch: here a batch is the number *)
(* of the iteration that launched it, and "plan" records, per iteration,   *)
(* what get_next_batch_to_run returned.  Rank 0 decides the plan and the   *)
(* other ranks, which recompute the same schedule from the same inputs,    *)
(* read it.  Tokens are named by the batch whose hidden states they were   *)
(* sampled from.                                                           *)
(***************************************************************************)
EXTENDS Integers, Sequences

CONSTANTS
  P,            \* server_args.pp_size
  MaxIter,      \* bound: iterations of the loop each rank executes
  Strategy,     \* "off", or the dynamic_chunk_strategy "greedy" / "alp"
  Chunks,       \* chunk sizes the controller chooses from
  OrigChunk,    \* the chunk size flush_cache restores
  FlushInputs,  \* values of "a FlushCacheReq arrived in this iteration"
  BatchKinds,   \* what get_next_batch_to_run may return
  Collective    \* "buffered": a broadcast's root goes on at once; "barrier": all
                \* ranks leave it together.  The library may behave as either.

ASSUME PAssumption == P \in Nat \ {0}
ASSUME MaxIterAssumption == MaxIter \in Nat
ASSUME StrategyAssumption == Strategy \in {"off", "greedy", "alp"}
ASSUME ChunksAssumption == Chunks \subseteq Nat \ {0} /\ OrigChunk \in Chunks
ASSUME FlushAssumption == FlushInputs \subseteq BOOLEAN /\ FlushInputs # {}
\* "none": no batch; "forward": a batch that runs the model; "empty": a prefill
\* batch with extend_num_tokens = 0, for which run_batch makes tokens up.
ASSUME KindsAssumption == /\ BatchKinds \subseteq {"none", "forward", "empty"}
                          /\ "none" \in BatchKinds
ASSUME CollectiveAssumption == Collective \in {"buffered", "barrier"}

Rank == 0 .. P - 1
Slot == 0 .. P - 1
LastRank == P - 1

NoBatch == 0           \* Python's None: batches are numbered from 1
BatchId == 1 .. MaxIter
NotAChunk == 0         \* chunked_prefill_size set from something not a chunk size

\* Steps of the scheduler iteration, between which a rank may be pre-empted or block.
Steps == {"recv", "decide", "schedule", "hidden", "tokens", "finish", "failed"}

VARIABLES
  pc,          \* pc[r]: the next step of rank r
  iter,        \* iter[r]: iterations rank r has begun (not in the code)
  currentIdx,  \* cur_pp.current_idx
  processIdx,  \* cur_pp.process_pp_idx
  stepCount,   \* chunk_controller.step_count
  chunk,       \* chunked_prefill_size
  lastBatch,   \* lastBatch[r][s]: _last_batch[s]
  batch,       \* the batch chosen in this iteration
  pipeBatch,   \* "batch awaiting sampling results from the last stage"
  stage,       \* the batch whose activations the rank's forward pass computed
  tokens,      \* next_token_ids returned by run_batch
  reqChan,     \* reqChan[r]: published messages rank r has not received
  hiddenChan,  \* hiddenChan[r]: hidden states sent by r-1, not received by r
  tokenChan,   \* tokenChan[r]: broadcasts rank r has not joined
  plan,        \* plan[i]: kind of the batch of iteration i, once decided
  done         \* done[r]: results rank r has applied, in order

channels == <<reqChan, hiddenChan, tokenChan>>
counters == <<iter, currentIdx, processIdx>>
control  == <<stepCount, chunk>>
vars == <<pc, counters, control, lastBatch, batch, pipeBatch, stage, tokens,
          channels, plan, done>>

-----------------------------------------------------------------------------
ReqsMsg(i, flush)  == [kind |-> "reqs",  iter |-> i, flush |-> flush]
ChunkMsg(i, size)  == [kind |-> "chunk", iter |-> i, size  |-> size]
Result(b, t)       == [batch |-> b, tokens |-> t]

AdvanceNoWrap(i) == i + 1   \* mutant

Advance(i) == (i + 1) % P

Publish(msg) == reqChan' = [r \in Rank |->
                              IF r = 0 THEN reqChan[r] ELSE Append(reqChan[r], msg)]

Init ==
  /\ pc         = [r \in Rank |-> "recv"]
  /\ iter       = [r \in Rank |-> 0]
  /\ currentIdx = [r \in Rank |-> -1]
  /\ processIdx = [r \in Rank |-> r]
  /\ stepCount  = [r \in Rank |-> 0]
  /\ chunk      = [r \in Rank |-> OrigChunk]
  /\ lastBatch  = [r \in Rank |-> [s \in Slot |-> NoBatch]]
  /\ batch      = [r \in Rank |-> NoBatch]
  /\ pipeBatch  = [r \in Rank |-> NoBatch]
  /\ stage      = [r \in Rank |-> NoBatch]
  /\ tokens     = [r \in Rank |-> NoBatch]
  /\ reqChan    = [r \in Rank |-> <<>>]
  /\ hiddenChan = [r \in Rank |-> <<>>]
  /\ tokenChan  = [r \in Rank |-> <<>>]
  /\ plan       = <<>>
  /\ done       = [r \in Rank |-> <<>>]

-----------------------------------------------------------------------------
(* next(self.cur_pp), recv_requests and process_input_requests.  Of the      *)
(* requests, only a FlushCacheReq changes state this module keeps.           *)

NextSlot(r) ==
  /\ iter'       = [iter EXCEPT ![r] = @ + 1]
  /\ currentIdx' = [currentIdx EXCEPT ![r] = Advance(@)]
  /\ processIdx' = [processIdx EXCEPT ![r] = Advance(@)]

FlushCacheFirstRank(r, flush) ==   \* mutant: only rank 0 restarts its step count
  /\ stepCount' = IF flush /\ r = 0 THEN [stepCount EXCEPT ![r] = 0] ELSE stepCount
  /\ chunk'     = IF flush THEN [chunk EXCEPT ![r] = OrigChunk] ELSE chunk

FlushCache(r, flush) ==
  /\ stepCount' = IF flush THEN [stepCount EXCEPT ![r] = 0] ELSE stepCount
  /\ chunk'     = IF flush THEN [chunk EXCEPT ![r] = OrigChunk] ELSE chunk

\* Rank 0 drains the tokenizer's socket without blocking and publishes the list.
PublishRequests ==
  /\ pc[0] = "recv"
  /\ iter[0] < MaxIter
  /\ NextSlot(0)
  /\ \E flush \in FlushInputs :
       /\ Publish(ReqsMsg(iter[0] + 1, flush))
       /\ FlushCache(0, flush)
  /\ pc' = [pc EXCEPT ![0] = "decide"]
  /\ UNCHANGED <<lastBatch, batch, pipeBatch, stage, tokens, hiddenChan, tokenChan,
                 plan, done>>

\* The other ranks block on the SUB socket and take whatever object comes first:
\* ".pop()" on anything but the list of requests raises and ends the process.
ReceiveRequests(r) ==
  /\ r # 0
  /\ pc[r] = "recv"
  /\ reqChan[r] # <<>>
  /\ NextSlot(r)
  /\ LET msg == Head(reqChan[r]) IN
       IF msg.kind = "reqs"
       THEN /\ FlushCache(r, msg.flush)
            /\ pc' = [pc EXCEPT ![r] = "decide"]
       ELSE /\ pc' = [pc EXCEPT ![r] = "failed"]
            /\ UNCHANGED control
  /\ reqChan' = [reqChan EXCEPT ![r] = Tail(@)]
  /\ UNCHANGED <<lastBatch, batch, pipeBatch, stage, tokens, hiddenChan, tokenChan,
                 plan, done>>

-----------------------------------------------------------------------------
(* chunk_controller.decide_chunk_size and sync_chunk_size.                   *)

SyncPeriod == IF Strategy = "alp" THEN 2 * P ELSE P

SyncDueFirstRank(r) == r = 0 /\ Strategy # "off" /\ stepCount[r] % SyncPeriod = 0 \* mutant

SyncDue(r) == Strategy # "off" /\ stepCount[r] % SyncPeriod = 0

SkipChunkSync(r) ==
  /\ pc[r] = "decide"
  /\ ~SyncDue(r)
  /\ pc' = [pc EXCEPT ![r] = "schedule"]
  /\ UNCHANGED <<counters, control, lastBatch, batch, pipeBatch, stage, tokens,
                 channels, plan, done>>

PublishChunk ==
  /\ pc[0] = "decide"
  /\ SyncDue(0)
  /\ \E size \in Chunks :
       /\ chunk' = [chunk EXCEPT ![0] = size]
       /\ Publish(ChunkMsg(iter[0], size))
  /\ pc' = [pc EXCEPT ![0] = "schedule"]
  /\ UNCHANGED <<counters, stepCount, lastBatch, batch, pipeBatch, stage, tokens,
                 hiddenChan, tokenChan, plan, done>>

\* An object that is no (chunk_size, metrics) pair is stored as the chunk size itself.
ReceiveChunk(r) ==
  /\ r # 0
  /\ pc[r] = "decide"
  /\ SyncDue(r)
  /\ reqChan[r] # <<>>
  /\ LET msg == Head(reqChan[r]) IN
       chunk' = [chunk EXCEPT ![r] = IF msg.kind = "chunk" THEN msg.size ELSE NotAChunk]
  /\ reqChan' = [reqChan EXCEPT ![r] = Tail(@)]
  /\ pc' = [pc EXCEPT ![r] = "schedule"]
  /\ UNCHANGED <<counters, stepCount, lastBatch, batch, pipeBatch, stage, tokens,
                 hiddenChan, tokenChan, plan, done>>

-----------------------------------------------------------------------------
(* get_next_batch_to_run and the choice of pipe_batch.                       *)

\* The bound MaxIter leaves room for every launched batch to drain.
MayLaunch(i) == i + P - 1 <= MaxIter

\* The slot whose result this rank applies in this iteration: cur_pp.get_pp().
PipeSlotCurrent(r) == currentIdx[r]   \* mutant

PipeSlot(r) == processIdx[r]

AfterScheduleSkip(r, kind, pipe) ==   \* mutant: without a batch there is nothing to do
  CASE kind = "forward" -> IF r = 0 THEN "tokens" ELSE "hidden"
    [] kind \in {"empty", "none"} -> "finish"

\* Where the iteration goes once batch and pipe_batch are known: the last rank has
\* nobody to wait for, the others join a broadcast whenever pipe_batch is there.
AfterSchedule(r, kind, pipe) ==
  CASE kind = "forward" -> IF r = 0 THEN "tokens" ELSE "hidden"
    [] kind = "empty"   -> "finish"
    [] kind = "none"    -> IF pipe # NoBatch /\ r # LastRank THEN "tokens" ELSE "finish"

\* Rank 0 comes first in every iteration and decides; the others recompute its choice.
Choices(i) == IF i <= Len(plan) THEN {plan[i]}
              ELSE IF MayLaunch(i) THEN BatchKinds ELSE {"none"}

ScheduleAs(r, kind) ==
  LET b    == IF kind = "none" THEN NoBatch ELSE iter[r]
      pipe == lastBatch[r][PipeSlot(r)]
  IN /\ plan'      = IF iter[r] > Len(plan) THEN Append(plan, kind) ELSE plan
     /\ batch'     = [batch EXCEPT ![r] = b]
     /\ pipeBatch' = [pipeBatch EXCEPT ![r] = pipe]
     /\ stage'     = [stage EXCEPT ![r] = b]
     /\ tokens'    = [tokens EXCEPT ![r] = b]
     /\ pc'        = [pc EXCEPT ![r] = AfterSchedule(r, kind, pipe)]

Schedule(r) ==
  /\ pc[r] = "schedule"
  /\ \E kind \in Choices(iter[r]) : ScheduleAs(r, kind)
  /\ UNCHANGED <<counters, control, lastBatch, channels, done>>

-----------------------------------------------------------------------------
(* run_batch: recv_tensor, the forward pass, sampling or joining the         *)
(* broadcast, isend_tensor; then process_batch_result.                       *)

\* A rank that is not the first computes on the activations that come first.
ReceiveHidden(r) ==
  /\ pc[r] = "hidden"
  /\ hiddenChan[r] # <<>>
  /\ stage'      = [stage EXCEPT ![r] = Head(hiddenChan[r])]
  /\ hiddenChan' = [hiddenChan EXCEPT ![r] = Tail(@)]
  /\ pc' = [pc EXCEPT ![r] = "tokens"]
  /\ UNCHANGED <<counters, control, lastBatch, batch, pipeBatch, tokens, reqChan,
                 tokenChan, plan, done>>

\* The last rank samples from its activations and broadcasts the tokens.
SampleAndBroadcast(r) ==
  /\ Collective = "buffered"
  /\ r = LastRank
  /\ pc[r] = "tokens"
  /\ tokens'    = [tokens EXCEPT ![r] = stage[r]]
  /\ tokenChan' = [q \in Rank |-> IF q = LastRank THEN tokenChan[q]
                                  ELSE Append(tokenChan[q], stage[r])]
  /\ pc' = [pc EXCEPT ![r] = "finish"]
  /\ UNCHANGED <<counters, control, lastBatch, batch, pipeBatch, stage, reqChan,
                 hiddenChan, plan, done>>

\* The other ranks take part in a broadcast only if they have a pipe_batch, and send
\* their own activations on only afterwards.
SendHiddenAlways(r) ==   \* mutant
  hiddenChan' = [hiddenChan EXCEPT ![r + 1] = Append(@, stage[r])]

SendHidden(r) ==
  hiddenChan' = IF batch[r] = NoBatch THEN hiddenChan
                ELSE [hiddenChan EXCEPT ![r + 1] = Append(@, stage[r])]

JoinBroadcast(r) ==
  /\ Collective = "buffered"
  /\ r # LastRank
  /\ pc[r] = "tokens"
  /\ pipeBatch[r] # NoBatch
  /\ tokenChan[r] # <<>>
  /\ tokens'    = [tokens EXCEPT ![r] = Head(tokenChan[r])]
  /\ tokenChan' = [tokenChan EXCEPT ![r] = Tail(@)]
  /\ SendHidden(r)
  /\ pc' = [pc EXCEPT ![r] = "finish"]
  /\ UNCHANGED <<counters, control, lastBatch, batch, pipeBatch, stage, reqChan,
                 plan, done>>

\* The same collective when nobody leaves before everybody has come.
BroadcastTogether ==
  /\ Collective = "barrier"
  /\ \A r \in Rank : pc[r] = "tokens" /\ (r # LastRank => pipeBatch[r] # NoBatch)
  /\ tokens'     = [r \in Rank |-> stage[LastRank]]
  /\ hiddenChan' = [r \in Rank |-> IF r = 0 \/ batch[r - 1] = NoBatch THEN hiddenChan[r]
                                   ELSE Append(hiddenChan[r], stage[r - 1])]
  /\ pc' = [r \in Rank |-> "finish"]
  /\ UNCHANGED <<counters, control, lastBatch, batch, pipeBatch, stage, reqChan,
                 tokenChan, plan, done>>

NoBroadcast(r) ==
  /\ r # LastRank
  /\ pc[r] = "tokens"
  /\ pipeBatch[r] = NoBatch
  /\ SendHidden(r)
  /\ pc' = [pc EXCEPT ![r] = "finish"]
  /\ UNCHANGED <<counters, control, lastBatch, batch, pipeBatch, stage, tokens,
                 reqChan, tokenChan, plan, done>>

\* The batch whose result this iteration applies: its own on the last rank, the one
\* in the pipe slot elsewhere.
AppliedWithBatch(r) ==   \* mutant: results are applied only in iterations that run a batch
  IF r = LastRank \/ batch[r] = NoBatch THEN batch[r] ELSE pipeBatch[r]

AppliedOwn(r) == batch[r]   \* mutant

Applied(r) == IF r = LastRank THEN batch[r] ELSE pipeBatch[r]

\* post_step counts the iterations that ran a batch, not those that only applied one.
PostStepEveryResult(r) ==   \* mutant
  stepCount' = IF batch[r] = NoBatch /\ pipeBatch[r] = NoBatch THEN stepCount
               ELSE [stepCount EXCEPT ![r] = @ + 1]

PostStep(r) ==
  stepCount' = IF batch[r] = NoBatch THEN stepCount
               ELSE [stepCount EXCEPT ![r] = @ + 1]

\* process_batch_result, post_step and "self.last_batch = batch".
Finish(r) ==
  /\ pc[r] = "finish"
  /\ done' = IF Applied(r) = NoBatch THEN done
             ELSE [done EXCEPT ![r] = Append(@, Result(Applied(r), tokens[r]))]
  /\ PostStep(r)
  /\ lastBatch' = [lastBatch EXCEPT ![r][currentIdx[r]] = batch[r]]
  /\ pc' = [pc EXCEPT ![r] = "recv"]
  /\ UNCHANGED <<counters, chunk, batch, pipeBatch, stage, tokens, channels, plan>>

-----------------------------------------------------------------------------
RankStep(r) ==
  \/ r = 0 /\ PublishRequests
  \/ ReceiveRequests(r)
  \/ SkipChunkSync(r)
  \/ r = 0 /\ PublishChunk
  \/ ReceiveChunk(r)
  \/ Schedule(r)
  \/ ReceiveHidden(r)
  \/ SampleAndBroadcast(r)
  \/ JoinBroadcast(r)
  \/ NoBroadcast(r)
  \/ Finish(r)

\* Every rank has executed its MaxIter iterations: only here may the model stop.
AllStopped ==
  /\ \A r \in Rank : pc[r] = "recv" /\ iter[r] = MaxIter
  /\ UNCHANGED vars

Next ==
  \/ \E r \in Rank : RankStep(r)
  \/ BroadcastTogether
  \/ AllStopped

\* Every rank is an operating-system process running its loop.
Fairness ==
  /\ \A r \in Rank : WF_vars(RankStep(r))
  /\ WF_vars(BroadcastTogether)

SafeSpec == Init /\ [][Next]_vars
Spec == SafeSpec /\ Fairness

-----------------------------------------------------------------------------
Message == [kind : {"reqs"}, iter : Nat, flush : BOOLEAN]
             \cup [kind : {"chunk"}, iter : Nat, size : Chunks]

\* Each variable stays within the values the code can give it.
TypeOK ==
  /\ pc \in [Rank -> Steps] /\ \A r \in Rank : pc[r] # "recv" => iter[r] > 0
  /\ iter \in [Rank -> Nat]
  /\ currentIdx \in [Rank -> -1 .. P - 1]
  /\ processIdx \in [Rank -> 0 .. P - 1]
  /\ stepCount \in [Rank -> Nat]
  /\ chunk \in [Rank -> Chunks \cup {NotAChunk}]
  /\ lastBatch \in [Rank -> [Slot -> Nat]]
  /\ batch \in [Rank -> Nat] /\ pipeBatch \in [Rank -> Nat]
  /\ stage \in [Rank -> Nat] /\ tokens \in [Rank -> Nat]
  /\ reqChan \in [Rank -> Seq(Message)]
  /\ hiddenChan \in [Rank -> Seq(Nat)]
  /\ tokenChan \in [Rank -> Seq(Nat)]
  /\ plan \in Seq(BatchKinds)
  /\ done \in [Rank -> Seq([batch : Nat, tokens : Nat])]

\* recv_requests and sync_chunk_size share one PUB/SUB socket: no rank ever takes a
\* chunk message for the request list or the other way round, because every rank's
\* step_count agrees with rank 0's on when a chunk message is published.
ChannelInStep ==
  \A r \in Rank : pc[r] # "failed" /\ chunk[r] # NotAChunk

\* Two ranks that schedule the same iteration do so with the same chunk size, however
\* far apart in time they reach it: prefill batches are cut alike on every rank.
ChunkAgreement ==
  \A q, r \in Rank :
    pc[q] = "schedule" /\ pc[r] = "schedule" /\ iter[q] = iter[r] => chunk[q] = chunk[r]

\* A rank's forward pass runs on the activations of the batch it scheduled, never on
\* those of an earlier or later batch of the previous stage.
StageMatchesBatch ==
  \A r \in Rank : pc[r] = "tokens" /\ batch[r] # NoBatch => stage[r] = batch[r]

\* last_batch of a slot is overwritten only after this rank has applied its result.
NoOverwriteBeforeResult ==
  [][\A r \in Rank, s \in Slot :
       LET old == lastBatch[r][s] IN
       old # NoBatch /\ lastBatch'[r][s] # old
         => \E i \in DOMAIN done'[r] : done'[r][i].batch = old]_vars

\* "Batch awaiting sampling results from the last stage and to be processed": what a rank
\* applies to a batch are the tokens the last stage sampled from that batch.
ResultsFromLastStage ==
  \A r \in Rank : \A i \in DOMAIN done[r] : done[r][i].tokens = done[r][i].batch

\* Before its turn comes, get_next_batch_to_run finds the slot's previous batch with its
\* result applied: it merges and filters requests only with up-to-date output_ids.
ScheduledOnResults ==
  \A r \in Rank :
    pc[r] = "schedule" /\ lastBatch[r][currentIdx[r]] # NoBatch
      => \E i \in DOMAIN done[r] : done[r][i].batch = lastBatch[r][currentIdx[r]]

\* While work is in flight the first stage cannot run away from the last one: it is
\* never P or more iterations ahead of a rank whose result it still waits for.
BoundedLead ==
  \A r \in Rank :
    iter[0] - iter[r] >= P =>
      \A b \in BatchId : b \in iter[r] + 1 .. iter[0] - P => plan[b] = "none"

-----------------------------------------------------------------------------
\* The invariant that makes the slot arithmetic right.  An iteration's batch, once it is
\* in plan; the number of iterations ago that slot s of rank r was last set; and the
\* last iteration whose result rank r has applied.
BatchOf(i) == IF i \in 1 .. Len(plan) /\ plan[i] # "none" THEN i ELSE NoBatch

Age(r, s) == IF s = currentIdx[r] /\ pc[r] # "recv" THEN P
             ELSE IF s <= currentIdx[r] THEN currentIdx[r] - s
             ELSE currentIdx[r] - s + P

AppliedUpTo(r) == (IF pc[r] = "recv" THEN iter[r] ELSE iter[r] - 1) - (P - 1 - r)

Launching(r) == pc[r] \in {"hidden", "tokens", "finish"}

Wrap(i) == IF i >= P THEN i - P ELSE i

SlotInv(r) ==
  /\ iter[r] <= (IF pc[r] = "recv" \/ Launching(r) THEN Len(plan) ELSE Len(plan) + 1)
  /\ currentIdx[r] = -1 <=> iter[r] = 0
  /\ processIdx[r] = Wrap(currentIdx[r] + 1 + r)
  /\ \A s \in Slot : lastBatch[r][s] = BatchOf(iter[r] - Age(r, s))
  /\ Launching(r) => /\ batch[r] = BatchOf(iter[r])
                     /\ r # LastRank => pipeBatch[r] = BatchOf(iter[r] - (P - 1 - r))
  /\ \A i \in 1 .. Len(plan) :
       i <= AppliedUpTo(r) /\ plan[i] # "none"
         => \E k \in DOMAIN done[r] : done[r][k].batch = i

\* A rank that joins a broadcast joins it for the batch launched P - 1 - r iterations
\* earlier, and slot s holds the batch of the last iteration congruent to s: PPCounter's
\* two counters are always the right distance apart.
SlotsInStep == \A r \in Rank : SlotInv(r)

\* Every iteration's chunk message and request list is eventually consumed and every
\* rank completes its iterations: no rank waits for ever on a channel or a collective.
EveryRankCompletes == <>[](\A r \in Rank : iter[r] = MaxIter /\ reqChan[r] = <<>>)

=============================================================================
