------------------------- MODULE PipelineLoopProofs -------------------------
(***************************************************************************)
(* Proofs about PipelineLoop for every number of stages, every bound,      *)
(* either behaviour of the collective and every chunk strategy: slots and  *)
(* step counts first, then the order of what the stages send each other.   *)
(***************************************************************************)
EXTENDS PipelineLoop, TLAPS

-----------------------------------------------------------------------------
\* PPCounter.__next__: within the range of its counters, adding one modulo pp_size is
\* adding one and wrapping at pp_size - 1.
LEMMA AdvanceWraps ==
  ASSUME NEW i \in -1 .. P - 1
  PROVE  Advance(i) = IF i = P - 1 THEN 0 ELSE i + 1
<1>1. CASE i = P - 1
  BY <1>1, PAssumption DEF Advance
<1>2. CASE i # P - 1
  BY <1>2, PAssumption DEF Advance
<1> QED BY <1>1, <1>2

\* What the receiver of a channel takes from it and what it leaves there.
LEMMA HeadTailType ==
  ASSUME NEW S, NEW q \in Seq(S), q # <<>>
  PROVE  Head(q) \in S /\ Tail(q) \in Seq(S)
OBVIOUS

-----------------------------------------------------------------------------
\* Type correctness.

\* The scheduler's constructor leaves every variable in its type.
LEMMA InitType == Init => TypeOK
BY PAssumption, MaxIterAssumption, ChunksAssumption
   DEF Init, TypeOK, Rank, Slot, Steps, NoBatch, BatchId, Message

\* next(self.cur_pp) keeps both counters in range and counts the iteration of one rank.
LEMMA NextSlotType ==
  ASSUME TypeOK, NEW r \in Rank, NextSlot(r)
  PROVE  /\ iter' \in [Rank -> Nat]
         /\ iter'[r] > 0
         /\ \A q \in Rank : q # r => iter'[q] = iter[q]
         /\ currentIdx' \in [Rank -> -1 .. P - 1]
         /\ processIdx' \in [Rank -> 0 .. P - 1]
         /\ currentIdx'[r] \in Slot
<1>1. /\ currentIdx[r] \in -1 .. P - 1
      /\ processIdx[r] \in -1 .. P - 1
  BY PAssumption DEF TypeOK
<1>2. Advance(currentIdx[r]) \in 0 .. P - 1 /\ Advance(processIdx[r]) \in 0 .. P - 1
  <2>1. ASSUME NEW i \in -1 .. P - 1 PROVE Advance(i) \in 0 .. P - 1
    BY <2>1, AdvanceWraps, PAssumption
  <2> QED BY <1>1, <2>1
<1>3. /\ iter' \in [Rank -> Nat] /\ iter'[r] > 0
      /\ \A q \in Rank : q # r => iter'[q] = iter[q]
  <2>1. iter' = [iter EXCEPT ![r] = iter[r] + 1] /\ iter \in [Rank -> Nat]
    BY DEF TypeOK, NextSlot
  <2>2. iter[r] + 1 \in Nat /\ iter[r] + 1 > 0
    BY <2>1
  <2> QED BY <2>1, <2>2
<1>4. currentIdx' \in [Rank -> -1 .. P - 1] /\ currentIdx'[r] \in Slot
  <2>1. Advance(currentIdx[r]) \in -1 .. P - 1
    BY <1>2, PAssumption
  <2>2. currentIdx' = [currentIdx EXCEPT ![r] = Advance(currentIdx[r])]
    BY DEF NextSlot
  <2> QED BY <1>2, <2>1, <2>2 DEF TypeOK, Slot
<1>5. processIdx' \in [Rank -> 0 .. P - 1]
  BY <1>2, PAssumption DEF TypeOK, NextSlot
<1> QED
  BY <1>3, <1>4, <1>5

\* flush_cache resets the step count and the chunk size to values of their types.
LEMMA FlushCacheType ==
  ASSUME TypeOK, NEW r \in Rank, NEW flush \in BOOLEAN, FlushCache(r, flush)
  PROVE  /\ stepCount' \in [Rank -> Nat]
         /\ chunk' \in [Rank -> Chunks \cup {NotAChunk}]
BY ChunksAssumption DEF TypeOK, FlushCache

\* What rank 0 publishes, request lists and chunk sizes, keeps the channels' type.
LEMMA PublishType ==
  ASSUME TypeOK, NEW msg \in Message, Publish(msg)
  PROVE  reqChan' \in [Rank -> Seq(Message)]
BY DEF TypeOK, Publish

\* Each step of an iteration of event_loop_normal keeps the types.
LEMMA RankStepType ==
  ASSUME TypeOK, NEW r \in Rank, RankStep(r)
  PROVE  TypeOK'
<1> USE PAssumption, MaxIterAssumption
<1>0. 0 \in Rank /\ LastRank \in Rank
  BY DEF Rank, LastRank
<1>1. CASE r = 0 /\ PublishRequests
  <2>1. PICK flush \in FlushInputs : /\ Publish(ReqsMsg(iter[0] + 1, flush))
                                     /\ FlushCache(0, flush)
    BY <1>1 DEF PublishRequests
  <2>2. flush \in BOOLEAN
    BY FlushAssumption
  <2>3. ReqsMsg(iter[0] + 1, flush) \in Message
    <3>1. iter[0] \in Nat
      BY <1>0 DEF TypeOK
    <3>2. iter[0] + 1 \in Nat
      BY <3>1
    <3> QED BY <2>2, <3>2 DEF ReqsMsg, Message
  <2>4. reqChan' \in [Rank -> Seq(Message)]
    BY <2>1, <2>3, PublishType
  <2>5. /\ stepCount' \in [Rank -> Nat]
        /\ chunk' \in [Rank -> Chunks \cup {NotAChunk}]
    BY <1>0, <2>1, <2>2, FlushCacheType
  <2>6. /\ iter' \in [Rank -> Nat]
        /\ iter'[r] > 0 /\ \A q \in Rank : q # r => iter'[q] = iter[q]
        /\ currentIdx' \in [Rank -> -1 .. P - 1]
        /\ processIdx' \in [Rank -> 0 .. P - 1]
    BY <1>0, <1>1, NextSlotType DEF PublishRequests
  <2> QED
    BY <1>1, <2>4, <2>5, <2>6 DEF PublishRequests, TypeOK, Steps
<1>2. CASE ReceiveRequests(r)
  <2>1. Head(reqChan[r]) \in Message /\ Tail(reqChan[r]) \in Seq(Message)
    <3>1. reqChan[r] # <<>>
      BY <1>2 DEF ReceiveRequests
    <3>2. reqChan[r] \in Seq(Message)
      BY DEF TypeOK
    <3> QED BY <3>1, <3>2, HeadTailType
  <2>2. reqChan' \in [Rank -> Seq(Message)]
    BY <1>2, <2>1 DEF ReceiveRequests, TypeOK
  <2>3. /\ stepCount' \in [Rank -> Nat]
        /\ chunk' \in [Rank -> Chunks \cup {NotAChunk}]
        /\ pc' \in [Rank -> Steps] /\ \A q \in Rank : q # r => pc'[q] = pc[q]
    <3>1. CASE Head(reqChan[r]).kind = "reqs"
      <4>1. Head(reqChan[r]).flush \in BOOLEAN
        BY <2>1, <3>1 DEF Message
      <4>2. /\ FlushCache(r, Head(reqChan[r]).flush)
            /\ pc' = [pc EXCEPT ![r] = "decide"]
        BY <1>2, <3>1 DEF ReceiveRequests
      <4>3. /\ stepCount' \in [Rank -> Nat]
            /\ chunk' \in [Rank -> Chunks \cup {NotAChunk}]
        BY <4>1, <4>2, FlushCacheType
      <4>4. pc \in [Rank -> Steps] /\ "decide" \in Steps
        BY DEF TypeOK, Steps
      <4> QED BY <4>2, <4>3, <4>4
    <3>2. CASE Head(reqChan[r]).kind # "reqs"
      BY <1>2, <3>2 DEF ReceiveRequests, TypeOK, Steps, control
    <3> QED BY <3>1, <3>2
  <2>4. /\ iter' \in [Rank -> Nat]
        /\ iter'[r] > 0 /\ \A q \in Rank : q # r => iter'[q] = iter[q]
        /\ currentIdx' \in [Rank -> -1 .. P - 1]
        /\ processIdx' \in [Rank -> 0 .. P - 1]
    BY <1>2, NextSlotType DEF ReceiveRequests
  <2> QED
    BY <1>2, <2>2, <2>3, <2>4 DEF ReceiveRequests, TypeOK
<1>3. CASE SkipChunkSync(r)
  BY <1>3 DEF SkipChunkSync, TypeOK, Steps, counters, control, channels
<1>4. CASE r = 0 /\ PublishChunk
  <2>1. PICK size \in Chunks : /\ chunk' = [chunk EXCEPT ![0] = size]
                               /\ Publish(ChunkMsg(iter[0], size))
    BY <1>4 DEF PublishChunk
  <2>2. ChunkMsg(iter[0], size) \in Message
    BY <1>0 DEF ChunkMsg, Message, TypeOK
  <2>3. reqChan' \in [Rank -> Seq(Message)]
    BY <2>1, <2>2, PublishType
  <2> QED
    BY <1>4, <2>1, <2>3 DEF PublishChunk, TypeOK, Steps, counters
<1>5. CASE ReceiveChunk(r)
  <2>1. Head(reqChan[r]) \in Message /\ Tail(reqChan[r]) \in Seq(Message)
    <3>1. reqChan[r] # <<>>
      BY <1>5 DEF ReceiveChunk
    <3>2. reqChan[r] \in Seq(Message)
      BY DEF TypeOK
    <3> QED BY <3>1, <3>2, HeadTailType
  <2>2. chunk' \in [Rank -> Chunks \cup {NotAChunk}]
    BY <1>5, <2>1 DEF ReceiveChunk, TypeOK, Message
  <2> QED
    BY <1>5, <2>1, <2>2 DEF ReceiveChunk, TypeOK, Steps, counters
<1>6. CASE Schedule(r)
  <2>1. PICK kind \in Choices(iter[r]) : ScheduleAs(r, kind)
    BY <1>6 DEF Schedule
  <2>2. kind \in BatchKinds
    <3>1. iter[r] \in Nat /\ iter[r] > 0
      BY <1>6 DEF Schedule, TypeOK
    <3>2. CASE iter[r] <= Len(plan)
      <4>1. Choices(iter[r]) = {plan[iter[r]]}
        BY <3>2 DEF Choices
      <4>2. plan \in Seq(BatchKinds) /\ iter[r] \in 1 .. Len(plan)
        BY <3>1, <3>2 DEF TypeOK
      <4> QED BY <4>1, <4>2
    <3>3. CASE ~(iter[r] <= Len(plan))
      BY <3>3, KindsAssumption DEF Choices
    <3> QED BY <3>2, <3>3
  <2>3. plan' \in Seq(BatchKinds)
    BY <2>1, <2>2 DEF ScheduleAs, TypeOK
  <2>4. (IF kind = "none" THEN NoBatch ELSE iter[r]) \in Nat
    BY DEF TypeOK, NoBatch
  <2>5. lastBatch[r][PipeSlot(r)] \in Nat
    BY DEF TypeOK, PipeSlot, Slot
  <2>6. AfterSchedule(r, kind, lastBatch[r][PipeSlot(r)]) \in Steps
    <3>1. kind \in {"none", "forward", "empty"}
      BY <2>2, KindsAssumption
    <3>2. CASE kind = "forward"
      BY <3>2 DEF AfterSchedule, Steps
    <3>3. CASE kind = "empty"
      BY <3>3 DEF AfterSchedule, Steps
    <3>4. CASE kind = "none"
      BY <3>4 DEF AfterSchedule, Steps
    <3> QED BY <3>1, <3>2, <3>3, <3>4
  <2>7. /\ batch' \in [Rank -> Nat] /\ pipeBatch' \in [Rank -> Nat]
        /\ stage' \in [Rank -> Nat] /\ tokens' \in [Rank -> Nat]
    BY <2>1, <2>4, <2>5 DEF ScheduleAs, TypeOK
  <2>8. pc' = [pc EXCEPT ![r] = AfterSchedule(r, kind, lastBatch[r][PipeSlot(r)])]
    BY <2>1 DEF ScheduleAs
  <2>9. pc' \in [Rank -> Steps] /\ \A q \in Rank : pc'[q] # "recv" => iter[q] > 0
    BY <1>6, <2>6, <2>8 DEF TypeOK, Schedule
  <2> QED
    BY <1>6, <2>3, <2>7, <2>9 DEF Schedule, TypeOK, counters, control, channels
<1>7. CASE ReceiveHidden(r)
  <2>1. Head(hiddenChan[r]) \in Nat /\ Tail(hiddenChan[r]) \in Seq(Nat)
    <3>1. hiddenChan[r] # <<>>
      BY <1>7 DEF ReceiveHidden
    <3>2. hiddenChan[r] \in Seq(Nat)
      BY DEF TypeOK
    <3> QED BY <3>1, <3>2, HeadTailType
  <2>2. stage' \in [Rank -> Nat] /\ hiddenChan' \in [Rank -> Seq(Nat)]
    BY <1>7, <2>1 DEF ReceiveHidden, TypeOK
  <2> QED
    BY <1>7, <2>2 DEF ReceiveHidden, TypeOK, Steps, counters, control
<1>8. CASE SampleAndBroadcast(r)
  <2>1. tokenChan' \in [Rank -> Seq(Nat)]
    BY <1>8 DEF SampleAndBroadcast, TypeOK
  <2> QED
    BY <1>8, <2>1 DEF SampleAndBroadcast, TypeOK, Steps, counters, control
<1>9. ASSUME r # LastRank, SendHidden(r) PROVE hiddenChan' \in [Rank -> Seq(Nat)]
  <2>1. r + 1 \in Rank
    BY <1>9 DEF Rank, LastRank
  <2>2. Append(hiddenChan[r + 1], stage[r]) \in Seq(Nat)
    BY <2>1 DEF TypeOK
  <2> QED
    BY <1>9, <2>1, <2>2 DEF SendHidden, TypeOK
<1>10. CASE JoinBroadcast(r)
  <2>1. Head(tokenChan[r]) \in Nat /\ Tail(tokenChan[r]) \in Seq(Nat)
    <3>1. tokenChan[r] # <<>>
      BY <1>10 DEF JoinBroadcast
    <3>2. tokenChan[r] \in Seq(Nat)
      BY DEF TypeOK
    <3> QED BY <3>1, <3>2, HeadTailType
  <2>2. tokens' \in [Rank -> Nat] /\ tokenChan' \in [Rank -> Seq(Nat)]
    BY <1>10, <2>1 DEF JoinBroadcast, TypeOK
  <2>3. hiddenChan' \in [Rank -> Seq(Nat)]
    BY <1>9, <1>10 DEF JoinBroadcast
  <2> QED
    BY <1>10, <2>2, <2>3 DEF JoinBroadcast, TypeOK, Steps, counters, control
<1>11. CASE NoBroadcast(r)
  <2>1. hiddenChan' \in [Rank -> Seq(Nat)]
    BY <1>9, <1>11 DEF NoBroadcast
  <2> QED
    BY <1>11, <2>1 DEF NoBroadcast, TypeOK, Steps, counters, control
<1>12. CASE Finish(r)
  <2>1. Applied(r) \in Nat /\ Result(Applied(r), tokens[r]) \in [batch : Nat, tokens : Nat]
    BY DEF Applied, Result, TypeOK
  <2>2. done' \in [Rank -> Seq([batch : Nat, tokens : Nat])]
    <3> DEFINE B == [batch : Nat, tokens : Nat]
               x == Result(Applied(r), tokens[r])
    <3>1. x \in B /\ done \in [Rank -> Seq(B)]
      BY <2>1 DEF TypeOK
    <3>2. \/ done' = done
          \/ done' = [done EXCEPT ![r] = Append(done[r], x)]
      BY <1>12 DEF Finish
    <3> HIDE DEF B, x
    <3>3. Append(done[r], x) \in Seq(B)
      <4>1. done[r] \in Seq(B)
        BY <3>1
      <4> QED BY <3>1, <4>1
    <3>4. done' \in [Rank -> Seq(B)]
      BY <3>1, <3>2, <3>3
    <3> QED BY <3>4 DEF B
  <2>3. stepCount' \in [Rank -> Nat]
    <3>1. stepCount \in [Rank -> Nat] /\ stepCount[r] + 1 \in Nat
      BY DEF TypeOK
    <3>2. stepCount' = stepCount \/ stepCount' = [stepCount EXCEPT ![r] = stepCount[r] + 1]
      BY <1>12 DEF Finish, PostStep
    <3> QED BY <3>1, <3>2
  <2>4. lastBatch' \in [Rank -> [Slot -> Nat]]
    BY <1>12 DEF Finish, TypeOK
  <2> QED
    BY <1>12, <2>2, <2>3, <2>4 DEF Finish, TypeOK, Steps, counters, channels
<1> QED
  BY <1>1, <1>2, <1>3, <1>4, <1>5, <1>6, <1>7, <1>8, <1>10, <1>11, <1>12 DEF RankStep

\* So does the broadcast that all ranks take together.
LEMMA BroadcastTogetherType == TypeOK /\ BroadcastTogether => TypeOK'
<1> SUFFICES ASSUME TypeOK, BroadcastTogether PROVE TypeOK'
  OBVIOUS
<1>1. LastRank \in Rank /\ \A r \in Rank : r # 0 => r - 1 \in Rank
  BY PAssumption DEF Rank, LastRank
<1>2. tokens' \in [Rank -> Nat]
  BY <1>1 DEF BroadcastTogether, TypeOK
<1>3. hiddenChan' \in [Rank -> Seq(Nat)]
  <2>1. \A r \in Rank : r # 0 => Append(hiddenChan[r], stage[r - 1]) \in Seq(Nat)
    BY <1>1 DEF TypeOK
  <2> QED
    BY <2>1 DEF BroadcastTogether, TypeOK
<1>4. pc' \in [Rank -> Steps] /\ \A r \in Rank : iter[r] > 0
  BY DEF BroadcastTogether, TypeOK, Steps
<1> QED
  BY <1>2, <1>3, <1>4 DEF BroadcastTogether, TypeOK, counters, control

\* The types are inductive.
LEMMA NextType == TypeOK /\ [Next]_vars => TypeOK'
<1> SUFFICES ASSUME TypeOK, [Next]_vars PROVE TypeOK'
  OBVIOUS
<1>1. ASSUME NEW r \in Rank, RankStep(r) PROVE TypeOK'
  BY <1>1, RankStepType
<1>2. CASE BroadcastTogether
  BY <1>2, BroadcastTogetherType
<1>3. CASE UNCHANGED vars
  BY <1>3 DEF vars, counters, control, channels, TypeOK
<1> QED
  BY <1>1, <1>2, <1>3 DEF Next, AllStopped

\* Whatever the interleaving of the ranks, the channels hold only messages of their kind
\* and every index the code uses to address a micro-batch slot is one.
THEOREM TypeCorrect == Spec => []TypeOK
BY InitType, NextType, PTL DEF Spec, SafeSpec

-----------------------------------------------------------------------------
\* The slot arithmetic.

\* get_next_batch_to_run decides iterations in order: what is decided stays decided.
LEMMA PlanGrows ==
  ASSUME TypeOK, NEW kind \in BatchKinds, plan' = plan \/ plan' = Append(plan, kind)
  PROVE  /\ Len(plan) \in Nat /\ Len(plan') \in Nat /\ Len(plan) <= Len(plan')
         /\ \A i \in 1 .. Len(plan) : plan'[i] = plan[i]
         /\ \A i \in Int : i <= Len(plan) => BatchOf(i)' = BatchOf(i)
<1>1. plan \in Seq(BatchKinds)
  BY DEF TypeOK
<1>2. CASE plan' = plan
  BY <1>1, <1>2 DEF BatchOf
<1>3. CASE plan' = Append(plan, kind)
  <2>1. Len(plan') = Len(plan) + 1 /\ \A i \in 1 .. Len(plan) : plan'[i] = plan[i]
    BY <1>1, <1>3
  <2> QED
    BY <1>1, <2>1 DEF BatchOf
<1> QED
  BY <1>2, <1>3

\* What the types say of one rank, in the form the arithmetic below needs.
LEMMA RankFacts ==
  ASSUME TypeOK, NEW r \in Rank
  PROVE  /\ r \in Nat /\ r <= P - 1 /\ P \in Nat /\ P > 0
         /\ iter[r] \in Nat /\ (pc[r] # "recv" => iter[r] > 0)
         /\ currentIdx[r] \in -1 .. P - 1 /\ processIdx[r] \in -1 .. P - 1
         /\ plan \in Seq(BatchKinds) /\ Len(plan) \in Nat
<1>1. r \in Nat /\ r <= P - 1 /\ P \in Nat /\ P > 0
  BY PAssumption DEF Rank
<1>2. /\ iter[r] \in Nat /\ (pc[r] # "recv" => iter[r] > 0)
      /\ currentIdx[r] \in -1 .. P - 1 /\ processIdx[r] \in 0 .. P - 1
  BY DEF TypeOK
<1>3. processIdx[r] \in -1 .. P - 1
  BY <1>1, <1>2
<1>4. plan \in Seq(BatchKinds) /\ Len(plan) \in Nat
  BY DEF TypeOK
<1> QED
  BY <1>1, <1>2, <1>3, <1>4

\* The age of a slot, in iterations since its last turn, is at most P, and not 0 during one.
LEMMA AgeRange ==
  ASSUME TypeOK, NEW r \in Rank, SlotInv(r), NEW s \in Slot
  PROVE  Age(r, s) \in 0 .. P /\ (pc[r] # "recv" => Age(r, s) > 0)
<1>1. /\ currentIdx[r] \in -1 .. P - 1 /\ iter[r] \in Nat
      /\ pc[r] # "recv" => currentIdx[r] # -1
  BY DEF TypeOK, SlotInv
<1> QED
  BY <1>1, PAssumption DEF Age, Slot

\* A step of rank r that starts or ends no iteration leaves r's invariant alone, and so
\* does a step of another rank, which may at most extend the plan.
LEMMA SlotFrame ==
  ASSUME TypeOK, NEW r \in Rank, SlotInv(r),
         NEW kind \in BatchKinds, plan' = plan \/ plan' = Append(plan, kind),
         iter'[r] = iter[r], currentIdx'[r] = currentIdx[r], processIdx'[r] = processIdx[r],
         lastBatch'[r] = lastBatch[r], batch'[r] = batch[r], pipeBatch'[r] = pipeBatch[r],
         done'[r] = done[r],
         pc'[r] = "recv" <=> pc[r] = "recv", Launching(r)' <=> Launching(r)
  PROVE  SlotInv(r)'
<1>1. /\ iter[r] \in Nat /\ Len(plan) \in Nat /\ r \in Nat /\ r <= P - 1 /\ P \in Nat
      /\ Len(plan') \in Nat /\ Len(plan) <= Len(plan')
  <2>1. /\ Len(plan) \in Nat /\ Len(plan') \in Nat /\ Len(plan) <= Len(plan')
    BY PlanGrows
  <2>2. iter[r] \in Nat /\ r \in Nat /\ r <= P - 1 /\ P \in Nat
    BY RankFacts
  <2> QED BY <2>1, <2>2
<1>2. \A i \in Int : i <= Len(plan) => BatchOf(i)' = BatchOf(i)
  BY PlanGrows
<1>3. \A s \in Slot : Age(r, s)' = Age(r, s)
  BY DEF Age
<1>4. ASSUME NEW s \in Slot PROVE lastBatch'[r][s] = BatchOf(iter[r] - Age(r, s))'
  <2>1. Age(r, s) \in 0 .. P /\ (pc[r] # "recv" => Age(r, s) > 0)
    BY AgeRange
  <2>2. iter[r] - Age(r, s) \in Int /\ iter[r] - Age(r, s) <= Len(plan)
    BY <1>1, <2>1 DEF SlotInv
  <2>3. BatchOf(iter[r] - Age(r, s))' = BatchOf(iter[r] - Age(r, s))
    BY <1>2, <1>3, <2>2 DEF BatchOf
  <2> QED
    BY <2>3 DEF SlotInv
<1>5. ASSUME Launching(r)
      PROVE  /\ batch'[r] = BatchOf(iter[r])'
             /\ r # LastRank => pipeBatch'[r] = BatchOf(iter[r] - (P - 1 - r))'
  <2>1. iter[r] <= Len(plan) /\ iter[r] - (P - 1 - r) <= Len(plan)
    BY <1>1, <1>5 DEF SlotInv
  <2>2. /\ batch[r] = BatchOf(iter[r])
        /\ r # LastRank => pipeBatch[r] = BatchOf(iter[r] - (P - 1 - r))
    BY <1>5 DEF SlotInv
  <2>3. /\ iter[r] \in Int /\ iter[r] - (P - 1 - r) \in Int
        /\ iter'[r] = iter[r] /\ iter'[r] - (P - 1 - r) = iter[r] - (P - 1 - r)
    BY <1>1
  <2>4. /\ BatchOf(iter[r])' = BatchOf(iter[r])
        /\ BatchOf(iter[r] - (P - 1 - r))' = BatchOf(iter[r] - (P - 1 - r))
    BY <1>2, <2>1, <2>3 DEF BatchOf
  <2> QED
    BY <2>2, <2>4
<1>6. ASSUME NEW i \in 1 .. Len(plan'), i <= AppliedUpTo(r)', plan'[i] # "none"
      PROVE  \E k \in DOMAIN done'[r] : done'[r][k].batch = i
  <2>1. AppliedUpTo(r)' = AppliedUpTo(r)
    BY DEF AppliedUpTo
  <2>2. AppliedUpTo(r) <= Len(plan)
    BY <1>1 DEF AppliedUpTo, SlotInv
  <2>3. i \in 1 .. Len(plan) /\ plan[i] # "none"
    <3>1. AppliedUpTo(r) \in Int
      BY <1>1 DEF AppliedUpTo
    <3>2. i \in Int /\ i <= Len(plan) /\ i > 0
      BY <1>1, <1>6, <2>1, <2>2, <3>1
    <3> QED
      BY <1>6, <3>2, PlanGrows
  <2> QED
    BY <1>6, <2>1, <2>3 DEF SlotInv
<1> QED
  BY <1>1, <1>3, <1>4, <1>5, <1>6 DEF SlotInv

\* next(self.cur_pp): every slot is one iteration older, the one to be filled P of them.
LEMMA SlotNext ==
  ASSUME TypeOK, NEW r \in Rank, SlotInv(r), NextSlot(r),
         pc[r] = "recv", pc'[r] # "recv", ~Launching(r)',
         plan' = plan, lastBatch' = lastBatch, done' = done
  PROVE  SlotInv(r)'
<1>1. /\ iter[r] \in Nat /\ currentIdx[r] \in -1 .. P - 1 /\ processIdx[r] \in -1 .. P - 1
      /\ r \in Nat /\ r <= P - 1 /\ P \in Nat /\ P > 0 /\ Len(plan) \in Nat
  BY RankFacts
<1>2. /\ iter'[r] = iter[r] + 1
      /\ currentIdx'[r] = Advance(currentIdx[r])
      /\ processIdx'[r] = Advance(processIdx[r])
  BY DEF NextSlot, TypeOK
<1>3. /\ currentIdx'[r] = IF currentIdx[r] = P - 1 THEN 0 ELSE currentIdx[r] + 1
      /\ processIdx'[r] = IF processIdx[r] = P - 1 THEN 0 ELSE processIdx[r] + 1
  BY <1>1, <1>2, AdvanceWraps
<1>4. iter'[r] <= Len(plan') + 1 /\ (currentIdx'[r] = -1 <=> iter'[r] = 0)
  <2>1. iter[r] <= Len(plan)
    BY DEF SlotInv
  <2>2. currentIdx'[r] # -1
    BY <1>1, <1>3
  <2> QED
    BY <1>1, <1>2, <2>1, <2>2
<1>5. processIdx'[r] = Wrap(currentIdx'[r] + 1 + r)
  <2> DEFINE c == currentIdx[r]   cNext == currentIdx'[r]
             q == processIdx[r]   qNext == processIdx'[r]
  <2>1. q = Wrap(c + 1 + r)
    BY DEF SlotInv
  <2>2. /\ cNext = IF c = P - 1 THEN 0 ELSE c + 1
        /\ qNext = IF q = P - 1 THEN 0 ELSE q + 1
    BY <1>3
  <2>3. c \in -1 .. P - 1 /\ r \in Nat /\ r <= P - 1 /\ P \in Nat
    BY <1>1
  <2> HIDE DEF c, cNext, q, qNext
  <2>4. qNext = Wrap(cNext + 1 + r)
    BY <2>1, <2>2, <2>3 DEF Wrap
  <2> QED BY <2>4 DEF cNext, qNext
<1>6. ASSUME NEW s \in Slot PROVE lastBatch'[r][s] = BatchOf(iter[r] - Age(r, s))'
  <2>1. Age(r, s)' = Age(r, s) + 1 /\ Age(r, s) \in Int
    <3>1. s \in Int /\ 0 <= s /\ s <= P - 1
      BY <1>1 DEF Slot
    <3>2. Age(r, s) = IF s <= currentIdx[r] THEN currentIdx[r] - s ELSE currentIdx[r] - s + P
      BY DEF Age
    <3>3. Age(r, s)' = IF s = currentIdx'[r] THEN P
                       ELSE IF s <= currentIdx'[r] THEN currentIdx'[r] - s
                       ELSE currentIdx'[r] - s + P
      BY DEF Age
    <3> DEFINE c == currentIdx[r]   cNext == currentIdx'[r]
               age == Age(r, s)     ageNext == Age(r, s)'
    <3>4. /\ cNext = IF c = P - 1 THEN 0 ELSE c + 1
          /\ age = IF s <= c THEN c - s ELSE c - s + P
          /\ ageNext = IF s = cNext THEN P ELSE IF s <= cNext THEN cNext - s ELSE cNext - s + P
          /\ c \in -1 .. P - 1 /\ P \in Nat /\ P > 0
      BY <1>1, <1>3, <3>2, <3>3
    <3> HIDE DEF c, cNext, age, ageNext
    <3>5. ageNext = age + 1 /\ age \in Int
      BY <3>1, <3>4
    <3> QED BY <3>5 DEF age, ageNext
  <2>2. iter'[r] - Age(r, s)' = iter[r] - Age(r, s)
    <3> DEFINE n == iter[r]        nNext == iter'[r]
               age == Age(r, s)    ageNext == Age(r, s)'
    <3>1. nNext = n + 1 /\ ageNext = age + 1 /\ n \in Int /\ age \in Int
      BY <1>1, <1>2, <2>1
    <3> HIDE DEF n, nNext, age, ageNext
    <3>2. nNext - ageNext = n - age
      BY <3>1
    <3> QED BY <3>2 DEF n, nNext, age, ageNext
  <2> QED
    BY <2>2 DEF SlotInv, BatchOf
<1>7. AppliedUpTo(r)' = AppliedUpTo(r)
  BY <1>1, <1>2 DEF AppliedUpTo
<1> QED
  BY <1>4, <1>5, <1>6, <1>7 DEF SlotInv, Launching

\* get_next_batch_to_run: the pipe slot holds the batch of P - 1 - r iterations ago.
LEMMA SlotSchedule ==
  ASSUME TypeOK, NEW r \in Rank, SlotInv(r), Schedule(r)
  PROVE  SlotInv(r)'
<1>1. /\ iter[r] \in Nat /\ iter[r] > 0 /\ currentIdx[r] \in 0 .. P - 1
      /\ r \in Nat /\ r <= P - 1 /\ P \in Nat /\ P > 0 /\ Len(plan) \in Nat
      /\ pc[r] = "schedule" /\ plan \in Seq(BatchKinds)
  <2>1. pc[r] = "schedule"
    BY DEF Schedule
  <2>2. currentIdx[r] = -1 <=> iter[r] = 0
    BY DEF SlotInv
  <2> QED
    BY <2>1, <2>2, RankFacts
<1>2. PICK kind \in Choices(iter[r]) : ScheduleAs(r, kind)
  BY DEF Schedule
<1>3. kind \in BatchKinds
  BY <1>1, KindsAssumption DEF Choices
<1>4. plan' = IF iter[r] > Len(plan) THEN Append(plan, kind) ELSE plan
  BY <1>2 DEF ScheduleAs
<1>5. iter[r] <= Len(plan') /\ plan'[iter[r]] = kind /\ Len(plan) <= Len(plan')
  <2>1. CASE iter[r] > Len(plan)
    <3>1. iter[r] = Len(plan) + 1
      BY <1>1, <2>1 DEF SlotInv, Launching
    <3> QED BY <1>1, <1>3, <1>4, <2>1, <3>1
  <2>2. CASE ~(iter[r] > Len(plan))
    BY <1>1, <1>2, <1>4, <2>2 DEF Choices
  <2> QED BY <2>1, <2>2
<1>6. /\ Len(plan') \in Nat
      /\ \A i \in 1 .. Len(plan) : plan'[i] = plan[i]
      /\ \A i \in Int : i <= Len(plan) => BatchOf(i)' = BatchOf(i)
  BY <1>3, <1>4, PlanGrows
<1>7. pc'[r] \in {"hidden", "tokens", "finish"}
  <2>1. kind \in {"none", "forward", "empty"}
    BY <1>3, KindsAssumption
  <2>2. pc'[r] = AfterSchedule(r, kind, lastBatch[r][PipeSlot(r)])
    BY <1>2 DEF ScheduleAs, TypeOK
  <2>3. CASE kind = "forward"  BY <2>2, <2>3 DEF AfterSchedule
  <2>4. CASE kind = "empty"    BY <2>2, <2>4 DEF AfterSchedule
  <2>5. CASE kind = "none"     BY <2>2, <2>5 DEF AfterSchedule
  <2> QED BY <2>1, <2>3, <2>4, <2>5
<1>8. /\ iter' = iter /\ currentIdx' = currentIdx /\ processIdx' = processIdx
      /\ lastBatch' = lastBatch /\ done' = done
  BY DEF Schedule, counters
<1>9. \A s \in Slot : Age(r, s)' = Age(r, s)
  BY <1>1, <1>7, <1>8 DEF Age
<1>10. ASSUME NEW s \in Slot PROVE lastBatch'[r][s] = BatchOf(iter[r] - Age(r, s))'
  <2>1. Age(r, s) \in 0 .. P /\ Age(r, s) > 0
    BY <1>1, AgeRange
  <2>2. iter[r] - Age(r, s) \in Int /\ iter[r] - Age(r, s) <= Len(plan)
    BY <1>1, <2>1 DEF SlotInv, Launching
  <2>3. BatchOf(iter[r] - Age(r, s))' = BatchOf(iter[r] - Age(r, s))
    BY <1>6, <1>8, <1>9, <2>2 DEF BatchOf
  <2> QED
    BY <1>8, <2>3 DEF SlotInv
<1>11. batch'[r] = BatchOf(iter[r])'
  <2>1. batch'[r] = IF kind = "none" THEN NoBatch ELSE iter[r]
    BY <1>2 DEF ScheduleAs, TypeOK
  <2>2. iter'[r] = iter[r] /\ iter'[r] \in 1 .. Len(plan') /\ plan'[iter'[r]] = kind
    BY <1>1, <1>5, <1>6, <1>8
  <2> QED BY <2>1, <2>2 DEF BatchOf
<1>12. ASSUME r # LastRank PROVE pipeBatch'[r] = BatchOf(iter[r] - (P - 1 - r))'
  <2>1. PipeSlot(r) \in Slot
    BY DEF PipeSlot, TypeOK, Slot
  <2>2. Age(r, PipeSlot(r)) = P - 1 - r
    <3>1. processIdx[r] = Wrap(currentIdx[r] + 1 + r)
      BY DEF SlotInv
    <3> QED BY <1>1, <1>12, <3>1 DEF Age, PipeSlot, LastRank, Wrap
  <2>3. pipeBatch'[r] = lastBatch[r][PipeSlot(r)]
    BY <1>2 DEF ScheduleAs, TypeOK
  <2> QED
    BY <1>8, <1>10, <1>9, <2>1, <2>2, <2>3
<1>13. AppliedUpTo(r)' = AppliedUpTo(r) /\ AppliedUpTo(r) \in Int /\ AppliedUpTo(r) <= Len(plan)
  <2>1. iter[r] <= Len(plan) + 1
    BY <1>1 DEF SlotInv, Launching
  <2>2. pc[r] # "recv" /\ pc'[r] # "recv" /\ iter'[r] = iter[r]
    BY <1>1, <1>7, <1>8
  <2>3. AppliedUpTo(r)' = AppliedUpTo(r) /\ AppliedUpTo(r) = iter[r] - 1 - (P - 1 - r)
    BY <2>2 DEF AppliedUpTo
  <2> QED BY <1>1, <2>1, <2>3
<1>14. ASSUME NEW i \in 1 .. Len(plan'), i <= AppliedUpTo(r)', plan'[i] # "none"
       PROVE  \E k \in DOMAIN done'[r] : done'[r][k].batch = i
  <2>1. i \in 1 .. Len(plan)
    BY <1>1, <1>6, <1>13, <1>14
  <2> QED
    BY <1>6, <1>8, <1>13, <1>14, <2>1 DEF SlotInv
<1> QED
  BY <1>5, <1>7, <1>8, <1>10, <1>11, <1>12, <1>14 DEF SlotInv, Launching

\* process_batch_result and "self.last_batch = batch".
LEMMA SlotFinish ==
  ASSUME TypeOK, NEW r \in Rank, SlotInv(r), Finish(r)
  PROVE  SlotInv(r)'
<1>1. /\ iter[r] \in Nat /\ iter[r] > 0 /\ currentIdx[r] \in Slot
      /\ r \in Nat /\ r <= P - 1 /\ P \in Nat /\ P > 0 /\ Len(plan) \in Nat
      /\ pc[r] = "finish"
  <2>1. pc[r] = "finish"
    BY DEF Finish
  <2>2. currentIdx[r] = -1 <=> iter[r] = 0
    BY DEF SlotInv
  <2> QED
    BY <2>1, <2>2, RankFacts DEF Slot
<1>2. /\ pc'[r] = "recv" /\ iter' = iter /\ currentIdx' = currentIdx
      /\ processIdx' = processIdx /\ plan' = plan
  BY DEF Finish, TypeOK, counters
<1>3. /\ iter[r] <= Len(plan)
      /\ batch[r] = BatchOf(iter[r])
      /\ r # LastRank => pipeBatch[r] = BatchOf(iter[r] - (P - 1 - r))
  BY <1>1 DEF SlotInv, Launching
<1>4. ASSUME NEW s \in Slot PROVE lastBatch'[r][s] = BatchOf(iter[r] - Age(r, s))'
  <2>1. lastBatch'[r] = [lastBatch[r] EXCEPT ![currentIdx[r]] = batch[r]]
    BY DEF Finish, TypeOK
  <2>2. CASE s = currentIdx[r]
    <3>1. iter'[r] - Age(r, s)' = iter[r]
      BY <1>1, <1>2, <2>2 DEF Age, Slot
    <3>2. lastBatch'[r][s] = BatchOf(iter[r])
      BY <1>1, <1>3, <2>1, <2>2 DEF TypeOK
    <3> QED
      BY <1>2, <3>1, <3>2 DEF BatchOf
  <2>3. CASE s # currentIdx[r]
    <3>1. Age(r, s)' = Age(r, s)
      BY <1>1, <1>2, <2>3 DEF Age
    <3>2. lastBatch'[r][s] = lastBatch[r][s]
      BY <1>1, <2>1, <2>3 DEF TypeOK
    <3> QED
      BY <1>2, <3>1, <3>2 DEF BatchOf, SlotInv
  <2> QED BY <2>2, <2>3
<1>5. AppliedUpTo(r)' = AppliedUpTo(r) + 1 /\ AppliedUpTo(r) + 1 = iter[r] - (P - 1 - r)
  BY <1>1, <1>2 DEF AppliedUpTo
<1>6. /\ done[r] \in Seq([batch : Nat, tokens : Nat])
      /\ done'[r] = IF Applied(r) = NoBatch THEN done[r]
                    ELSE Append(done[r], Result(Applied(r), tokens[r]))
      /\ Applied(r) \in Nat /\ tokens[r] \in Nat
  BY DEF Finish, TypeOK, Applied
<1>7. ASSUME NEW i \in 1 .. Len(plan), i <= AppliedUpTo(r) + 1, plan[i] # "none"
      PROVE  \E k \in DOMAIN done'[r] : done'[r][k].batch = i
  <2>1. CASE i <= AppliedUpTo(r)
    <3>1. PICK k \in DOMAIN done[r] : done[r][k].batch = i
      BY <1>7, <2>1 DEF SlotInv
    <3>2. k \in DOMAIN done'[r] /\ done'[r][k] = done[r][k]
      BY <1>6, <3>1 DEF Result
    <3> QED BY <3>1, <3>2
  <2>2. CASE i = AppliedUpTo(r) + 1
    <3>1. Applied(r) = i
      <4>1. CASE r = LastRank
        BY <1>1, <1>3, <1>5, <1>7, <2>2, <4>1 DEF Applied, BatchOf, LastRank
      <4>2. CASE r # LastRank
        BY <1>1, <1>3, <1>5, <1>7, <2>2, <4>2 DEF Applied, BatchOf
      <4> QED BY <4>1, <4>2
    <3>2. done'[r] = Append(done[r], Result(i, tokens[r])) /\ i # NoBatch
      BY <1>6, <3>1 DEF NoBatch
    <3>3. Result(i, tokens[r]) \in [batch : Nat, tokens : Nat] /\ Result(i, tokens[r]).batch = i
      BY <1>6 DEF Result
    <3>4. /\ Len(done[r]) + 1 \in DOMAIN done'[r]
          /\ done'[r][Len(done[r]) + 1] = Result(i, tokens[r])
      <4> DEFINE d == done[r]
                 x == Result(i, tokens[r])
      <4>1. d \in Seq([batch : Nat, tokens : Nat]) /\ x \in [batch : Nat, tokens : Nat]
        BY <1>6, <3>3
      <4> HIDE DEF d, x
      <4>2. Len(d) + 1 \in DOMAIN Append(d, x) /\ Append(d, x)[Len(d) + 1] = x
        BY <4>1
      <4> USE DEF d, x
      <4> QED BY <3>2, <4>2
    <3> QED BY <3>3, <3>4
  <2>3. AppliedUpTo(r) \in Int
    BY <1>1, <1>2 DEF AppliedUpTo
  <2> QED BY <1>7, <2>1, <2>2, <2>3
<1>8. /\ iter'[r] <= Len(plan') /\ (currentIdx'[r] = -1 <=> iter'[r] = 0)
      /\ processIdx'[r] = Wrap(currentIdx'[r] + 1 + r)
  BY <1>2, <1>3 DEF SlotInv
<1>9. \A i \in 1 .. Len(plan') :
        i <= AppliedUpTo(r)' /\ plan'[i] # "none"
          => \E k \in DOMAIN done'[r] : done'[r][k].batch = i
  BY <1>2, <1>5, <1>7
<1> QED
  BY <1>2, <1>4, <1>8, <1>9 DEF SlotInv, Launching

-----------------------------------------------------------------------------
\* Every action of the loop keeps the slots of every rank in step.

\* PPCounter starts with its two counters rank positions apart.
LEMMA InitSlots == Init => SlotsInStep
<1> SUFFICES ASSUME Init, NEW r \in Rank PROVE SlotInv(r)
  BY DEF SlotsInStep
<1>1. /\ pc[r] = "recv" /\ iter[r] = 0 /\ currentIdx[r] = -1 /\ processIdx[r] = r
      /\ plan = <<>> /\ \A s \in Slot : lastBatch[r][s] = NoBatch
  BY DEF Init
<1>2. Len(plan) = 0 /\ \A i \in Int : BatchOf(i) = NoBatch
  BY <1>1 DEF BatchOf
<1>3. r \in Nat /\ r <= P - 1 /\ P \in Nat
  BY PAssumption DEF Rank
<1>4. \A s \in Slot : iter[r] - Age(r, s) \in Int
  BY <1>1, <1>3 DEF Age, Slot
<1> QED
  BY <1>1, <1>2, <1>3, <1>4 DEF SlotInv, Launching, Wrap

\* The steps that neither begin nor end an iteration nor decide a batch.
LEMMA SlotQuiet ==
  ASSUME TypeOK, SlotsInStep, plan' = plan,
         UNCHANGED <<iter, currentIdx, processIdx, lastBatch, batch, pipeBatch, done>>,
         \A r \in Rank : /\ pc'[r] = "recv" <=> pc[r] = "recv"
                         /\ Launching(r)' <=> Launching(r)
  PROVE  SlotsInStep'
<1> SUFFICES ASSUME NEW r \in Rank PROVE SlotInv(r)'
  BY DEF SlotsInStep
<1>1. SlotInv(r)
  BY DEF SlotsInStep
<1>2. PICK kind \in BatchKinds : TRUE
  BY KindsAssumption
<1> QED
  BY <1>1, <1>2, SlotFrame

\* What a step of rank q that is not quiet leaves alone of the other ranks.
LEMMA SlotOthers ==
  ASSUME TypeOK, NEW q \in Rank, NEW r \in Rank, q # r, SlotInv(r),
         NEW kind \in BatchKinds, plan' = plan \/ plan' = Append(plan, kind),
         \/ pc[q] = "recv" /\ NextSlot(q) /\ lastBatch' = lastBatch /\ done' = done
              /\ batch' = batch /\ pipeBatch' = pipeBatch
         \/ Schedule(q) \/ Finish(q),
         pc'[r] = pc[r]
  PROVE  SlotInv(r)'
<1>1. /\ iter'[r] = iter[r] /\ currentIdx'[r] = currentIdx[r] /\ processIdx'[r] = processIdx[r]
      /\ lastBatch'[r] = lastBatch[r] /\ batch'[r] = batch[r] /\ pipeBatch'[r] = pipeBatch[r]
      /\ done'[r] = done[r]
  <2>1. CASE pc[q] = "recv" /\ NextSlot(q) /\ lastBatch' = lastBatch /\ done' = done
              /\ batch' = batch /\ pipeBatch' = pipeBatch
    BY <2>1 DEF NextSlot, TypeOK
  <2>2. CASE Schedule(q)
    BY <2>2 DEF Schedule, ScheduleAs, TypeOK, counters
  <2>3. CASE Finish(q)
    BY <2>3 DEF Finish, TypeOK, counters
  <2> QED BY <2>1, <2>2, <2>3
<1>2. Launching(r)' <=> Launching(r)
  BY DEF Launching
<1> QED
  BY <1>1, <1>2, SlotFrame

\* Each step of an iteration of one rank keeps the slots of all ranks in step.
LEMMA RankStepSlots ==
  ASSUME TypeOK, SlotsInStep, NEW q \in Rank, RankStep(q)
  PROVE  SlotsInStep'
<1>1. SlotInv(q) /\ \A r \in Rank : SlotInv(r)
  BY DEF SlotsInStep
<1>2. PICK none \in BatchKinds : TRUE
  BY KindsAssumption
<1>3. CASE (q = 0 /\ PublishRequests) \/ ReceiveRequests(q)
  <2>1. /\ pc[q] = "recv" /\ NextSlot(q)
        /\ plan' = plan /\ lastBatch' = lastBatch /\ done' = done
        /\ batch' = batch /\ pipeBatch' = pipeBatch
    BY <1>3 DEF PublishRequests, ReceiveRequests
  <2>2. \/ pc' = [pc EXCEPT ![q] = "decide"] \/ pc' = [pc EXCEPT ![q] = "failed"]
    BY <1>3 DEF PublishRequests, ReceiveRequests
  <2>3. pc'[q] # "recv" /\ ~Launching(q)' /\ \A r \in Rank : r # q => pc'[r] = pc[r]
    BY <2>2 DEF Launching, TypeOK
  <2>4. SlotInv(q)'
    BY <1>1, <2>1, <2>3, SlotNext
  <2>5. ASSUME NEW r \in Rank, r # q PROVE SlotInv(r)'
    BY <1>1, <1>2, <2>1, <2>3, <2>5, SlotOthers
  <2> QED BY <2>4, <2>5 DEF SlotsInStep
<1>4. CASE Schedule(q)
  <2>1. SlotInv(q)'
    BY <1>1, <1>4, SlotSchedule
  <2>2. PICK kind \in Choices(iter[q]) : ScheduleAs(q, kind)
    BY <1>4 DEF Schedule
  <2>3. kind \in BatchKinds
    <3>1. iter[q] \in Nat /\ iter[q] > 0 /\ plan \in Seq(BatchKinds)
      BY <1>4, RankFacts DEF Schedule
    <3> QED BY <3>1, KindsAssumption DEF Choices
  <2>4. plan' = plan \/ plan' = Append(plan, kind)
    BY <2>2 DEF ScheduleAs
  <2>5. \A r \in Rank : r # q => pc'[r] = pc[r]
    BY <2>2 DEF ScheduleAs, TypeOK
  <2>6. ASSUME NEW r \in Rank, r # q PROVE SlotInv(r)'
    BY <1>1, <1>4, <2>3, <2>4, <2>5, <2>6, SlotOthers
  <2> QED BY <2>1, <2>6 DEF SlotsInStep
<1>5. CASE Finish(q)
  <2>1. SlotInv(q)'
    BY <1>1, <1>5, SlotFinish
  <2>2. plan' = plan /\ \A r \in Rank : r # q => pc'[r] = pc[r]
    BY <1>5 DEF Finish, TypeOK
  <2>3. ASSUME NEW r \in Rank, r # q PROVE SlotInv(r)'
    BY <1>1, <1>2, <1>5, <2>2, <2>3, SlotOthers
  <2> QED BY <2>1, <2>3 DEF SlotsInStep
<1>6. CASE \/ SkipChunkSync(q) \/ (q = 0 /\ PublishChunk) \/ ReceiveChunk(q)
  <2>1. /\ plan' = plan
        /\ UNCHANGED <<iter, currentIdx, processIdx, lastBatch, batch, pipeBatch, done>>
        /\ pc[q] = "decide" /\ pc' = [pc EXCEPT ![q] = "schedule"]
    BY <1>6 DEF SkipChunkSync, PublishChunk, ReceiveChunk, counters
  <2>2. \A r \in Rank : /\ pc'[r] = "recv" <=> pc[r] = "recv"
                        /\ Launching(r)' <=> Launching(r)
    BY <2>1 DEF Launching, TypeOK
  <2> QED BY <2>1, <2>2, SlotQuiet
<1>7. CASE ReceiveHidden(q) \/ SampleAndBroadcast(q) \/ JoinBroadcast(q) \/ NoBroadcast(q)
  <2>1. /\ plan' = plan
        /\ UNCHANGED <<iter, currentIdx, processIdx, lastBatch, batch, pipeBatch, done>>
        /\ pc[q] \in {"hidden", "tokens"}
        /\ \/ pc' = [pc EXCEPT ![q] = "tokens"] \/ pc' = [pc EXCEPT ![q] = "finish"]
    BY <1>7 DEF ReceiveHidden, SampleAndBroadcast, JoinBroadcast, NoBroadcast, counters
  <2>2. \A r \in Rank : /\ pc'[r] = "recv" <=> pc[r] = "recv"
                        /\ Launching(r)' <=> Launching(r)
    BY <2>1 DEF Launching, TypeOK
  <2> QED BY <2>1, <2>2, SlotQuiet
<1> QED
  BY <1>3, <1>4, <1>5, <1>6, <1>7 DEF RankStep

\* With the types, the slot arithmetic is inductive.
LEMMA NextSlots == TypeOK /\ SlotsInStep /\ [Next]_vars => SlotsInStep'
<1> SUFFICES ASSUME TypeOK, SlotsInStep, [Next]_vars PROVE SlotsInStep'
  OBVIOUS
<1>1. ASSUME NEW q \in Rank, RankStep(q) PROVE SlotsInStep'
  BY <1>1, RankStepSlots
<1>2. CASE BroadcastTogether
  <2>1. /\ plan' = plan
        /\ UNCHANGED <<iter, currentIdx, processIdx, lastBatch, batch, pipeBatch, done>>
    BY <1>2 DEF BroadcastTogether, counters
  <2>2. \A r \in Rank : /\ pc'[r] = "recv" <=> pc[r] = "recv"
                        /\ Launching(r)' <=> Launching(r)
    BY <1>2 DEF BroadcastTogether, Launching
  <2> QED BY <2>1, <2>2, SlotQuiet
<1>3. CASE UNCHANGED vars
  <2>1. /\ plan' = plan /\ pc' = pc
        /\ UNCHANGED <<iter, currentIdx, processIdx, lastBatch, batch, pipeBatch, done>>
    BY <1>3 DEF vars, counters
  <2>2. \A r \in Rank : /\ pc'[r] = "recv" <=> pc[r] = "recv"
                        /\ Launching(r)' <=> Launching(r)
    BY <2>1 DEF Launching
  <2> QED BY <2>1, <2>2, SlotQuiet
<1> QED
  BY <1>1, <1>2, <1>3 DEF Next, AllStopped

\* For every number of stages P: the two counters of PPCounter stay P - 1 - rank slots
\* apart, the slots hold the last P iterations' batches, and every result due is applied.
THEOREM SlotArithmetic == Spec => []SlotsInStep
BY InitType, NextType, InitSlots, NextSlots, PTL DEF Spec, SafeSpec

-----------------------------------------------------------------------------
\* What the invariant is for.

\* Outside "recv" the current slot holds the batch of P iterations ago, whose result
\* rank r applied r + 1 iterations ago.
LEMMA CurrentSlotApplied ==
  ASSUME TypeOK, NEW r \in Rank, SlotInv(r), pc[r] # "recv",
         lastBatch[r][currentIdx[r]] # NoBatch
  PROVE  \E k \in DOMAIN done[r] : done[r][k].batch = lastBatch[r][currentIdx[r]]
<1> DEFINE old == iter[r] - P
<1>1. /\ iter[r] \in Nat /\ r \in Nat /\ P \in Nat /\ currentIdx[r] \in Slot
  <2>1. currentIdx[r] = -1 <=> iter[r] = 0
    BY DEF SlotInv
  <2> QED BY <2>1, RankFacts DEF Slot
<1>2. Age(r, currentIdx[r]) = P
  BY DEF Age
<1>3. lastBatch[r][currentIdx[r]] = BatchOf(old)
  BY <1>1, <1>2 DEF SlotInv
<1>4. old \in 1 .. Len(plan) /\ plan[old] # "none" /\ BatchOf(old) = old
  BY <1>3 DEF BatchOf
<1>5. old <= AppliedUpTo(r)
  BY <1>1 DEF AppliedUpTo
<1> QED
  BY <1>3, <1>4, <1>5 DEF SlotInv

\* get_next_batch_to_run merges and filters the slot's previous batch only after this
\* rank has applied that batch's tokens.
THEOREM SchedulesOnResults == Spec => []ScheduledOnResults
<1>1. TypeOK /\ SlotsInStep => ScheduledOnResults
  BY CurrentSlotApplied DEF SlotsInStep, ScheduledOnResults
<1> QED
  BY <1>1, TypeCorrect, SlotArithmetic, PTL

\* "self.last_batch = batch" never drops a batch whose result is still to be applied.
THEOREM ResultBeforeOverwrite == Spec => NoOverwriteBeforeResult
<1> DEFINE Kept == \A r \in Rank, s \in Slot :
                     LET old == lastBatch[r][s] IN
                     old # NoBatch /\ lastBatch'[r][s] # old
                       => \E i \in DOMAIN done'[r] : done'[r][i].batch = old
<1>1. TypeOK /\ SlotsInStep /\ [Next]_vars => [Kept]_vars
  <2> SUFFICES ASSUME TypeOK, SlotsInStep, Next,
                      NEW r \in Rank, NEW s \in Slot,
                      lastBatch[r][s] # NoBatch, lastBatch'[r][s] # lastBatch[r][s]
               PROVE  \E i \in DOMAIN done'[r] : done'[r][i].batch = lastBatch[r][s]
    OBVIOUS
  <2>1. PICK q \in Rank : Finish(q)
    <3>1. CASE UNCHANGED lastBatch
      BY <3>1
    <3>2. CASE \E q \in Rank : RankStep(q)
      <4>1. PICK q \in Rank : RankStep(q)
        BY <3>2
      <4>2. Finish(q) \/ UNCHANGED lastBatch
        BY <4>1 DEF RankStep, PublishRequests, ReceiveRequests, SkipChunkSync, PublishChunk,
           ReceiveChunk, Schedule, ReceiveHidden, SampleAndBroadcast, JoinBroadcast, NoBroadcast
      <4> QED BY <3>1, <4>2
    <3>3. CASE BroadcastTogether \/ AllStopped
      BY <3>1, <3>3 DEF BroadcastTogether, AllStopped, vars
    <3> QED BY <3>2, <3>3 DEF Next
  <2>2. q = r /\ s = currentIdx[r]
    BY <2>1 DEF Finish, TypeOK
  <2>3. PICK k \in DOMAIN done[r] : done[r][k].batch = lastBatch[r][s]
    <3>1. SlotInv(r) /\ pc[r] # "recv"
      BY <2>1, <2>2 DEF SlotsInStep, Finish
    <3> QED BY <2>2, <3>1, CurrentSlotApplied
  <2>4. k \in DOMAIN done'[r] /\ done'[r][k] = done[r][k]
    <3>1. /\ done[r] \in Seq([batch : Nat, tokens : Nat])
          /\ done'[r] = IF Applied(r) = NoBatch THEN done[r]
                        ELSE Append(done[r], Result(Applied(r), tokens[r]))
          /\ Applied(r) \in Nat /\ tokens[r] \in Nat
      BY <2>1, <2>2 DEF Finish, TypeOK, Applied
    <3> QED BY <2>3, <3>1 DEF Result
  <2> QED BY <2>3, <2>4
<1> QED
  BY <1>1, TypeCorrect, SlotArithmetic, PTL DEF Spec, SafeSpec, NoOverwriteBeforeResult

-----------------------------------------------------------------------------
(* The order of the channels between the stages: which batch a stage's next  *)
(* hidden states and tokens belong to.                                       *)

\* The batches that run the model.  Of these, link "c" holds in increasing order those
\* after "lo", which its receiver has dealt with, up to "hi", which its sender has.
Forwarded == {b \in 1 .. Len(plan) : plan[b] = "forward"}

Link(F, c, lo, hi) ==
  /\ c \in Seq(Nat)
  /\ \A i, j \in DOMAIN c : i < j => c[i] < c[j]
  /\ \A i \in DOMAIN c : c[i] \in F /\ lo < c[i] /\ c[i] <= hi
  /\ \A b \in F : lo < b /\ b <= hi => \E i \in DOMAIN c : c[i] = b

Behind(F, lo, hi) == \A b \in F : b <= lo => b <= hi

\* One end of a link moves on by at most one iteration, and only past one without a batch.
Passes(G, n, next) == next = n \/ (next = n + 1 /\ next \notin G)

\* The last iteration for which rank r has its activations, for which it has passed the
\* collective and its own activations on, and whose tokens that collective was for.
Taken(r) == IF pc[r] \in {"tokens", "finish", "recv"} THEN iter[r] ELSE iter[r] - 1

Sent(r) == IF pc[r] \in {"finish", "recv"} THEN iter[r] ELSE iter[r] - 1

Joined(r) == Sent(r) - (P - 1 - r)

\* A rank waits for hidden states, or for a broadcast without a batch of its own, only
\* where run_batch does, and computes on the activations of its iteration's batch.
StageInv(r) ==
  /\ pc[r] = "hidden" => r # 0 /\ batch[r] # NoBatch
  /\ pc[r] = "tokens" /\ batch[r] = NoBatch => r # LastRank /\ pipeBatch[r] # NoBatch
  /\ pc[r] \in {"hidden", "tokens"} /\ batch[r] # NoBatch => iter[r] \in Forwarded
  /\ pc[r] = "tokens" /\ batch[r] # NoBatch => stage[r] = batch[r]

\* The hidden states on their way to rank r are those sent and not taken, and no rank takes
\* a batch that one before it has not sent.
HiddenInv(r) ==
  /\ r # 0 => Link(Forwarded, hiddenChan[r], Taken(r), Sent(r - 1))
  /\ \A q \in Rank : q < r => Behind(Forwarded, Taken(r), Sent(q))

\* recv_tensor yields the hidden states of the batches that run the model in launch order.
HiddenInOrder == \A r \in Rank : StageInv(r) /\ HiddenInv(r)

\* No prefill batch consists of empty prompts only (README, section 6).
NoEmptyPrefill == "empty" \notin BatchKinds

\* The same for the broadcasts, which rank r joins P - 1 - r iterations after the batch was
\* launched; what it has when it applies a result are that batch's tokens.
TokenInv(r) ==
  /\ r # LastRank => /\ Link(Forwarded, tokenChan[r], Joined(r), Sent(LastRank))
                     /\ Behind(Forwarded, Joined(r), Sent(LastRank))
                     /\ Collective = "barrier" => tokenChan[r] = <<>>
  /\ pc[r] = "finish" /\ Applied(r) # NoBatch => tokens[r] = Applied(r)

\* The tokens a rank gets from the last stage are those of its pipe_batch, and so are all
\* those it has applied.
TokensInOrder ==
  NoEmptyPrefill => ResultsFromLastStage /\ \A r \in Rank : TokenInv(r)

-----------------------------------------------------------------------------
\* What sending, taking and passing over a batch do to a link.

\* isend_tensor, or the root's side of the broadcast: the next batch goes in last.
LEMMA LinkSend ==
  ASSUME NEW F, F \subseteq Nat, NEW lo \in Int, NEW hi \in Int, NEW c,
         Link(F, c, lo, hi), hi + 1 \in F, lo < hi + 1
  PROVE  Link(F, Append(c, hi + 1), lo, hi + 1)
<1> DEFINE d == Append(c, hi + 1)
<1>1. c \in Seq(Nat) /\ hi + 1 \in Nat /\ Len(c) \in Nat
  BY DEF Link
<1>2. d \in Seq(Nat) /\ Len(d) = Len(c) + 1
  BY <1>1
<1>3. d[Len(c) + 1] = hi + 1 /\ \A i \in 1 .. Len(c) : d[i] = c[i]
  BY <1>1
<1>4. DOMAIN c = 1 .. Len(c) /\ DOMAIN d = 1 .. Len(c) + 1
  BY <1>1, <1>2
<1> HIDE DEF d
<1>5. /\ \A i, j \in 1 .. Len(c) : i < j => c[i] < c[j]
      /\ \A i \in 1 .. Len(c) : c[i] \in F /\ lo < c[i] /\ c[i] <= hi /\ c[i] \in Int
  <2>1. \A i \in 1 .. Len(c) : c[i] \in Nat
    BY <1>1
  <2>2. /\ \A i, j \in DOMAIN c : i < j => c[i] < c[j]
        /\ \A i \in DOMAIN c : c[i] \in F /\ lo < c[i] /\ c[i] <= hi
    BY DEF Link
  <2>3. DOMAIN c = 1 .. Len(c)
    BY <1>4
  <2>4. \A i, j \in 1 .. Len(c) : i < j => c[i] < c[j]
    BY <2>2, <2>3
  <2>5. \A i \in 1 .. Len(c) : c[i] \in F /\ lo < c[i] /\ c[i] <= hi /\ c[i] \in Int
    BY <2>1, <2>2, <2>3
  <2> QED BY <2>4, <2>5
<1>6. ASSUME NEW i \in DOMAIN d, NEW j \in DOMAIN d, i < j PROVE d[i] < d[j]
  <2>1. i \in 1 .. Len(c)
    BY <1>1, <1>4, <1>6
  <2>2. CASE j = Len(c) + 1
    BY <1>3, <1>5, <2>1, <2>2
  <2>3. CASE j # Len(c) + 1
    <3>1. j \in 1 .. Len(c)
      BY <1>1, <1>4, <2>3
    <3> QED BY <1>3, <1>5, <1>6, <2>1, <3>1
  <2> QED BY <2>2, <2>3
<1>7. ASSUME NEW i \in DOMAIN d PROVE d[i] \in F /\ lo < d[i] /\ d[i] <= hi + 1
  <2>1. CASE i = Len(c) + 1
    BY <1>3, <2>1
  <2>2. CASE i # Len(c) + 1
    <3>1. i \in 1 .. Len(c)
      BY <1>1, <1>4, <2>2
    <3> QED BY <1>3, <1>5, <3>1
  <2> QED BY <2>1, <2>2
<1>8. ASSUME NEW b \in F, lo < b, b <= hi + 1 PROVE \E i \in DOMAIN d : d[i] = b
  <2>1. CASE b = hi + 1
    <3>1. Len(c) + 1 \in DOMAIN d
      BY <1>1, <1>4
    <3> QED BY <1>3, <2>1, <3>1
  <2>2. CASE b # hi + 1
    <3>1. b <= hi
      BY <1>8, <2>2
    <3>2. PICK i \in 1 .. Len(c) : c[i] = b
      BY <1>4, <1>8, <3>1 DEF Link
    <3>3. i \in DOMAIN d
      BY <1>1, <1>4
    <3> QED BY <1>3, <3>2, <3>3
  <2> QED BY <2>1, <2>2
<1> QED
  BY <1>2, <1>6, <1>7, <1>8 DEF Link, d

\* recv_tensor, or a receiver's side of the broadcast: what comes first is the next batch.
LEMMA LinkTake ==
  ASSUME NEW F, F \subseteq Nat, NEW lo \in Int, NEW hi \in Int, NEW c,
         Link(F, c, lo, hi), lo + 1 \in F, c # <<>>
  PROVE  Head(c) = lo + 1 /\ lo + 1 <= hi /\ Link(F, Tail(c), lo + 1, hi)
<1> DEFINE t == Tail(c)
<1>1. c \in Seq(Nat) /\ Len(c) \in Nat /\ Len(c) > 0 /\ Head(c) = c[1]
  BY DEF Link
<1>2. t \in Seq(Nat) /\ Len(t) = Len(c) - 1 /\ \A i \in 1 .. Len(c) - 1 : t[i] = c[i + 1]
  BY <1>1
<1>3. DOMAIN c = 1 .. Len(c) /\ DOMAIN t = 1 .. Len(c) - 1
  BY <1>1, <1>2
<1> HIDE DEF t
<1>4. /\ \A i, j \in 1 .. Len(c) : i < j => c[i] < c[j]
      /\ \A i \in 1 .. Len(c) : c[i] \in F /\ lo < c[i] /\ c[i] <= hi /\ c[i] \in Int
  <2>1. \A i \in 1 .. Len(c) : c[i] \in Nat
    BY <1>1
  <2>2. /\ \A i, j \in DOMAIN c : i < j => c[i] < c[j]
        /\ \A i \in DOMAIN c : c[i] \in F /\ lo < c[i] /\ c[i] <= hi
    BY DEF Link
  <2>3. DOMAIN c = 1 .. Len(c)
    BY <1>3
  <2>4. \A i, j \in 1 .. Len(c) : i < j => c[i] < c[j]
    BY <2>2, <2>3
  <2>5. \A i \in 1 .. Len(c) : c[i] \in F /\ lo < c[i] /\ c[i] <= hi /\ c[i] \in Int
    BY <2>1, <2>2, <2>3
  <2> QED BY <2>4, <2>5
<1>5. c[1] = lo + 1 /\ lo + 1 <= hi
  <2>1. 1 \in 1 .. Len(c)
    BY <1>1
  <2>2. lo < c[1] /\ c[1] <= hi /\ c[1] \in Int
    BY <1>4, <2>1
  <2>3. lo < lo + 1 /\ lo + 1 <= hi
    BY <2>2
  <2>4. PICK k \in 1 .. Len(c) : c[k] = lo + 1
    BY <1>3, <2>3 DEF Link
  <2>5. CASE k = 1
    BY <2>3, <2>4, <2>5
  <2>6. CASE k # 1
    <3>1. 1 < k
      BY <1>1, <2>6
    <3>2. c[1] < c[k]
      BY <1>4, <2>1, <3>1
    <3> QED BY <2>2, <2>4, <3>2
  <2> QED BY <2>5, <2>6
<1>6. \A i \in DOMAIN t : i + 1 \in 1 .. Len(c) /\ t[i] = c[i + 1] /\ i \in Int /\ i >= 1
  <2> SUFFICES ASSUME NEW i \in 1 .. Len(c) - 1
               PROVE  i + 1 \in 1 .. Len(c) /\ t[i] = c[i + 1] /\ i \in Int /\ i >= 1
    BY <1>3
  <2>1. t[i] = c[i + 1]
    BY <1>2
  <2>2. Len(c) \in Int
    BY <1>1
  <2> QED BY <2>1, <2>2
<1>7. ASSUME NEW i \in DOMAIN t, NEW j \in DOMAIN t, i < j PROVE t[i] < t[j]
  <2>1. i + 1 < j + 1
    BY <1>6, <1>7
  <2> QED BY <1>4, <1>6, <2>1
<1>8. ASSUME NEW i \in DOMAIN t PROVE t[i] \in F /\ lo + 1 < t[i] /\ t[i] <= hi
  <2>1. 1 \in 1 .. Len(c) /\ 1 < i + 1
    BY <1>1, <1>6
  <2>2. c[1] < c[i + 1]
    BY <1>4, <1>6, <2>1
  <2> QED BY <1>4, <1>5, <1>6, <2>2
<1>9. ASSUME NEW b \in F, lo + 1 < b, b <= hi PROVE \E i \in DOMAIN t : t[i] = b
  <2>1. lo < b /\ b \in Int
    BY <1>9
  <2>2. PICK k \in 1 .. Len(c) : c[k] = b
    BY <1>3, <1>9, <2>1 DEF Link
  <2>3. k # 1
    BY <1>5, <1>9, <2>1, <2>2
  <2>4. k - 1 \in DOMAIN t /\ t[k - 1] = c[k]
    <3>1. k - 1 \in 1 .. Len(c) - 1 /\ (k - 1) + 1 = k
      BY <1>1, <2>3
    <3> QED BY <1>2, <1>3, <3>1
  <2> QED BY <2>2, <2>4
<1> QED
  BY <1>1, <1>2, <1>5, <1>7, <1>8, <1>9 DEF Link, t

\* An iteration that runs no batch passes both ends by, and a newly decided batch lies
\* beyond both.
LEMMA LinkPass ==
  ASSUME NEW F, NEW G, F \subseteq G, G \subseteq Nat, NEW lo \in Int, NEW hi \in Int,
         NEW lo2 \in Int, NEW hi2 \in Int, NEW c, Link(F, c, lo, hi),
         \A b \in G : b \notin F => hi < b, Passes(G, lo, lo2), Passes(G, hi, hi2)
  PROVE  Link(G, c, lo2, hi2)
<1> USE DEF Passes
<1>1. c \in Seq(Nat) /\ \A i \in DOMAIN c : c[i] \in Int
  BY DEF Link
<1>2. \A i \in DOMAIN c : c[i] \in G /\ lo2 < c[i] /\ c[i] <= hi2
  <2> SUFFICES ASSUME NEW i \in DOMAIN c PROVE c[i] \in G /\ lo2 < c[i] /\ c[i] <= hi2
    OBVIOUS
  <2>1. c[i] \in G /\ lo < c[i] /\ c[i] <= hi /\ c[i] \in Int
    BY <1>1 DEF Link
  <2> QED BY <2>1
<1>3. ASSUME NEW b \in G, lo2 < b, b <= hi2 PROVE \E i \in DOMAIN c : c[i] = b
  <2>1. b \in Int /\ lo < b /\ b <= hi
    BY <1>3
  <2>2. b \in F
    BY <2>1
  <2> QED BY <2>1, <2>2 DEF Link
<1> QED
  BY <1>1, <1>2, <1>3 DEF Link

\* The same for what the receiver may not be ahead of: a step onto a batch that has been
\* sent, or past an iteration that runs none.
LEMMA BehindPass ==
  ASSUME NEW F, NEW G, F \subseteq G, G \subseteq Nat, NEW lo \in Int, NEW hi \in Int,
         NEW lo2 \in Int, NEW hi2 \in Int, Behind(F, lo, hi),
         \A b \in G : b \notin F => lo < b,
         lo2 = lo \/ (lo2 = lo + 1 /\ (lo2 \notin G \/ lo2 <= hi2)), hi <= hi2
  PROVE  Behind(G, lo2, hi2)
<1> SUFFICES ASSUME NEW b \in G, b <= lo2 PROVE b <= hi2
  BY DEF Behind
<1>1. b \in Int
  OBVIOUS
<1>2. CASE b <= lo
  <2>1. b \in F
    BY <1>1, <1>2
  <2>2. b <= hi
    BY <1>2, <2>1 DEF Behind
  <2> QED BY <1>1, <2>2
<1>3. CASE lo < b
  BY <1>1, <1>3
<1> QED BY <1>1, <1>2, <1>3

-----------------------------------------------------------------------------
\* Where the ranks are.

\* A rank's counters are integers, it sends only what it has taken, and it is never
\* beyond what get_next_batch_to_run has decided.
LEMMA Progress ==
  ASSUME TypeOK, SlotsInStep, NEW r \in Rank
  PROVE  /\ iter[r] \in Int /\ Taken(r) \in Int /\ Sent(r) \in Int /\ Joined(r) \in Int
         /\ Sent(r) <= Taken(r) /\ Taken(r) <= Len(plan) /\ Joined(r) <= Sent(r)
         /\ Forwarded \subseteq Nat
<1>1. /\ r \in Nat /\ r <= P - 1 /\ P \in Nat /\ iter[r] \in Nat /\ Len(plan) \in Nat
  BY RankFacts
<1>2. iter[r] <= (IF pc[r] = "recv" \/ Launching(r) THEN Len(plan) ELSE Len(plan) + 1)
  BY DEF SlotsInStep, SlotInv
<1>3. Taken(r) \in Int /\ Sent(r) \in Int /\ Sent(r) <= Taken(r)
  BY <1>1 DEF Taken, Sent
<1>4. Taken(r) <= Len(plan)
  <2>1. CASE pc[r] \in {"tokens", "finish", "recv"}
    BY <1>1, <1>2, <2>1 DEF Taken, Launching
  <2>2. CASE pc[r] \notin {"tokens", "finish", "recv"}
    <3>1. iter[r] <= Len(plan) + 1
      BY <1>1, <1>2
    <3> QED BY <1>1, <2>2, <3>1 DEF Taken
  <2> QED BY <2>1, <2>2
<1>5. Joined(r) \in Int /\ Joined(r) <= Sent(r)
  BY <1>1, <1>3 DEF Joined
<1>6. Forwarded \subseteq Nat
  BY <1>1 DEF Forwarded
<1> QED BY <1>1, <1>3, <1>4, <1>5, <1>6

\* The batch of a launching rank is its iteration's, and runs the model if it is in
\* Forwarded.
LEMMA LaunchedBatch ==
  ASSUME TypeOK, SlotsInStep, NEW r \in Rank, Launching(r)
  PROVE  /\ batch[r] # NoBatch => batch[r] = iter[r]
         /\ batch[r] = NoBatch => iter[r] \notin Forwarded
<1>1. batch[r] = BatchOf(iter[r])
  BY DEF SlotsInStep, SlotInv
<1>2. iter[r] \in Forwarded => iter[r] \in 1 .. Len(plan) /\ plan[iter[r]] # "none"
  BY DEF Forwarded
<1>3. iter[r] \in Forwarded => iter[r] # NoBatch
  BY <1>2 DEF NoBatch
<1> QED BY <1>1, <1>2, <1>3 DEF BatchOf

\* What a decision of get_next_batch_to_run adds lies beyond every rank's progress.
LEMMA ForwardedGrows ==
  ASSUME TypeOK, NEW kind \in BatchKinds, plan' = plan \/ plan' = Append(plan, kind)
  PROVE  /\ Forwarded \subseteq Forwarded' /\ Forwarded' \subseteq Nat
         /\ \A b \in Forwarded' : b \notin Forwarded => Len(plan) < b
<1>1. /\ Len(plan) \in Nat /\ Len(plan') \in Nat /\ Len(plan) <= Len(plan')
      /\ \A i \in 1 .. Len(plan) : plan'[i] = plan[i]
  BY PlanGrows
<1> QED BY <1>1 DEF Forwarded

-----------------------------------------------------------------------------
\* What the steps that receive requests and agree on the chunk size leave alone.
InputStep(q) == \/ (q = 0 /\ PublishRequests) \/ ReceiveRequests(q) \/ SkipChunkSync(q)
                \/ (q = 0 /\ PublishChunk) \/ ReceiveChunk(q)

LEMMA InputFrame ==
  ASSUME TypeOK, NEW q \in Rank, InputStep(q)
  PROVE  /\ plan' = plan /\ hiddenChan' = hiddenChan /\ tokenChan' = tokenChan
         /\ batch' = batch /\ pipeBatch' = pipeBatch /\ stage' = stage
         /\ tokens' = tokens /\ done' = done
         /\ \A r \in Rank : r # q => pc'[r] = pc[r] /\ iter'[r] = iter[r]
         /\ \/ pc[q] = "recv" /\ pc'[q] \in {"decide", "failed"} /\ iter'[q] = iter[q] + 1
            \/ pc[q] = "decide" /\ pc'[q] = "schedule" /\ iter'[q] = iter[q]
<1>1. pc \in [Rank -> Steps] /\ iter \in [Rank -> Nat]
  BY DEF TypeOK
<1>2. CASE q = 0 /\ PublishRequests
  BY <1>1, <1>2 DEF PublishRequests, NextSlot
<1>3. CASE ReceiveRequests(q)
  <2>1. pc' = [pc EXCEPT ![q] = "decide"] \/ pc' = [pc EXCEPT ![q] = "failed"]
    BY <1>3 DEF ReceiveRequests
  <2> QED BY <1>1, <1>3, <2>1 DEF ReceiveRequests, NextSlot
<1>4. CASE SkipChunkSync(q)
  BY <1>1, <1>4 DEF SkipChunkSync, counters, channels
<1>5. CASE q = 0 /\ PublishChunk
  BY <1>1, <1>5 DEF PublishChunk, counters
<1>6. CASE ReceiveChunk(q)
  BY <1>1, <1>6 DEF ReceiveChunk, counters
<1> QED
  BY <1>2, <1>3, <1>4, <1>5, <1>6 DEF InputStep

-----------------------------------------------------------------------------
\* The hidden states.

\* The steps that decide, take and send no batch.
LEMMA HiddenQuiet ==
  ASSUME HiddenInOrder, plan' = plan, hiddenChan' = hiddenChan,
         \A r \in Rank : /\ Taken(r)' = Taken(r) /\ Sent(r)' = Sent(r)
                         /\ pc'[r] \in {"hidden", "tokens"} =>
                              /\ pc'[r] = pc[r] /\ iter'[r] = iter[r]
                              /\ batch'[r] = batch[r] /\ pipeBatch'[r] = pipeBatch[r]
                              /\ stage'[r] = stage[r]
  PROVE  HiddenInOrder'
<1> SUFFICES ASSUME NEW r \in Rank PROVE StageInv(r)' /\ HiddenInv(r)'
  BY DEF HiddenInOrder
<1>1. StageInv(r) /\ HiddenInv(r)
  BY DEF HiddenInOrder
<1>2. Forwarded' = Forwarded
  BY DEF Forwarded
<1>3. StageInv(r)'
  BY <1>1, <1>2 DEF StageInv
<1>4. r # 0 => r - 1 \in Rank
  BY PAssumption DEF Rank
<1>5. r # 0 => Link(Forwarded, hiddenChan[r], Taken(r), Sent(r - 1))'
  <2>1. r # 0 => Sent(r - 1)' = Sent(r - 1)
    BY <1>4
  <2> QED BY <1>1, <1>2, <2>1 DEF HiddenInv, Link
<1>6. \A q \in Rank : q < r => Behind(Forwarded, Taken(r), Sent(q))'
  BY <1>1, <1>2 DEF HiddenInv, Behind
<1> QED BY <1>3, <1>5, <1>6 DEF HiddenInv

\* get_next_batch_to_run: an iteration that forwards nothing is passed by.
LEMMA HiddenSchedule ==
  ASSUME TypeOK, SlotsInStep, SlotsInStep', HiddenInOrder, NEW q \in Rank, Schedule(q)
  PROVE  HiddenInOrder'
<1>1. PICK kind \in Choices(iter[q]) : ScheduleAs(q, kind)
  BY DEF Schedule
<1>2. kind \in BatchKinds /\ iter[q] \in Nat /\ iter[q] > 0 /\ pc[q] = "schedule"
  <2>1. pc[q] = "schedule" /\ iter[q] \in Nat /\ iter[q] > 0 /\ plan \in Seq(BatchKinds)
    BY RankFacts DEF Schedule
  <2> QED BY <2>1, KindsAssumption DEF Choices
<1>3. plan' = plan \/ plan' = Append(plan, kind)
  BY <1>1 DEF ScheduleAs
<1>4. /\ Forwarded \subseteq Forwarded' /\ Forwarded' \subseteq Nat
      /\ \A b \in Forwarded' : b \notin Forwarded => Len(plan) < b
  BY <1>2, <1>3, ForwardedGrows
<1>5. /\ iter' = iter /\ hiddenChan' = hiddenChan
      /\ batch'[q] = (IF kind = "none" THEN NoBatch ELSE iter[q]) /\ stage'[q] = batch'[q]
      /\ \A r \in Rank : r # q => /\ pc'[r] = pc[r] /\ batch'[r] = batch[r]
                                  /\ pipeBatch'[r] = pipeBatch[r] /\ stage'[r] = stage[r]
  BY <1>1 DEF ScheduleAs, Schedule, counters, channels, TypeOK
<1>6. pc'[q] = AfterSchedule(q, kind, pipeBatch'[q])
  BY <1>1 DEF ScheduleAs, TypeOK
<1>7. /\ kind = "forward" => pc'[q] = IF q = 0 THEN "tokens" ELSE "hidden"
      /\ kind = "empty" => pc'[q] = "finish"
      /\ kind = "none" => pc'[q] = IF pipeBatch'[q] # NoBatch /\ q # LastRank
                                   THEN "tokens" ELSE "finish"
  <2>1. CASE kind = "forward"
    BY <1>6, <2>1 DEF AfterSchedule
  <2>2. CASE kind = "empty"
    BY <1>6, <2>2 DEF AfterSchedule
  <2>3. CASE kind = "none"
    BY <1>6, <2>3 DEF AfterSchedule
  <2> QED BY <2>1, <2>2, <2>3
<1>8. kind \in {"none", "forward", "empty"}
  BY <1>2, KindsAssumption
<1>9. iter[q] \in Forwarded' <=> kind = "forward"
  <2>1. iter[q] \in 1 .. Len(plan') /\ plan'[iter[q]] = kind
    <3>1. iter'[q] <= Len(plan')
      <4>1. Launching(q)'
        BY <1>7, <1>8 DEF Launching
      <4> QED BY <4>1 DEF SlotsInStep, SlotInv
    <3>2. CASE iter[q] > Len(plan)
      <4>1. plan' = Append(plan, kind) /\ plan \in Seq(BatchKinds)
        BY <1>1, <3>2 DEF ScheduleAs, TypeOK
      <4>2. Len(plan') = Len(plan) + 1 /\ Len(plan) \in Nat /\ plan'[Len(plan) + 1] = kind
        BY <1>2, <4>1
      <4>3. iter[q] = Len(plan) + 1
        BY <1>2, <1>5, <3>1, <3>2, <4>2
      <4> QED BY <1>2, <4>2, <4>3
    <3>3. CASE ~(iter[q] > Len(plan))
      <4>1. plan' = plan /\ Len(plan) \in Nat
        BY <1>1, <3>3 DEF ScheduleAs, TypeOK
      <4>2. kind = plan[iter[q]]
        BY <1>1, <1>2, <3>3, <4>1 DEF Choices
      <4> QED BY <1>2, <3>3, <4>1, <4>2
    <3> QED BY <3>2, <3>3
  <2> QED BY <2>1 DEF Forwarded
<1>10. \A r \in Rank : /\ Taken(r) \in Int /\ Sent(r) \in Int /\ Sent(r) <= Taken(r)
                       /\ Taken(r) <= Len(plan) /\ Len(plan) \in Nat
                       /\ Taken(r)' \in Int /\ Sent(r)' \in Int
  <2>1. \A r \in Rank : /\ Taken(r) \in Int /\ Sent(r) \in Int /\ Sent(r) <= Taken(r)
                        /\ Taken(r) <= Len(plan) /\ iter[r] \in Int
    BY Progress
  <2>2. \A r \in Rank : Taken(r)' \in Int /\ Sent(r)' \in Int
    BY <1>5, <2>1 DEF Taken, Sent
  <2> QED BY <2>1, <2>2 DEF TypeOK
<1>11. \A r \in Rank : r # q => Taken(r)' = Taken(r) /\ Sent(r)' = Sent(r)
  BY <1>5 DEF Taken, Sent
<1>12. /\ Taken(q)' = Taken(q) \/ (Taken(q)' = Taken(q) + 1 /\ (q = 0 \/ Taken(q)' \notin Forwarded'))
       /\ Sent(q)' = Sent(q) \/ (Sent(q)' = Sent(q) + 1 /\ Sent(q)' \notin Forwarded')
  <2>1. Taken(q) = iter[q] - 1 /\ Sent(q) = iter[q] - 1
    BY <1>2 DEF Taken, Sent
  <2>2. CASE kind = "forward"
    BY <1>2, <1>5, <1>7, <2>1, <2>2 DEF Taken, Sent
  <2>3. CASE kind # "forward"
    BY <1>2, <1>5, <1>7, <1>8, <1>9, <2>1, <2>3 DEF Taken, Sent
  <2> QED BY <2>2, <2>3
<1>13. ASSUME NEW r \in Rank PROVE StageInv(r)'
  <2>1. CASE r = q
    BY <1>5, <1>7, <1>8, <1>9, <2>1, <1>2 DEF StageInv, NoBatch
  <2>2. CASE r # q
    BY <1>4, <1>5, <2>2 DEF StageInv, HiddenInOrder
  <2> QED BY <2>1, <2>2
<1>14. ASSUME NEW r \in Rank, r # 0
       PROVE  Link(Forwarded, hiddenChan[r], Taken(r), Sent(r - 1))'
  <2>1. r - 1 \in Rank
    BY <1>14, PAssumption DEF Rank
  <2>2. Link(Forwarded, hiddenChan[r], Taken(r), Sent(r - 1))
    BY <1>14 DEF HiddenInOrder, HiddenInv
  <2>3. \A b \in Forwarded' : b \notin Forwarded => Sent(r - 1) < b
    <3>1. Sent(r - 1) \in Int /\ Sent(r - 1) <= Len(plan) /\ Len(plan) \in Nat
      BY <1>10, <2>1
    <3> QED BY <1>4, <3>1
  <2>4. Taken(r)' = Taken(r) \/ (Taken(r)' = Taken(r) + 1 /\ Taken(r)' \notin Forwarded')
    BY <1>11, <1>12, <1>14
  <2>5. Sent(r - 1)' = Sent(r - 1) \/ (Sent(r - 1)' = Sent(r - 1) + 1 /\ Sent(r - 1)' \notin Forwarded')
    BY <1>11, <1>12, <2>1
  <2>6. Taken(r) \in Int /\ Taken(r)' \in Int /\ Sent(r - 1) \in Int /\ Sent(r - 1)' \in Int
    BY <1>10, <2>1
  <2>7. Link(Forwarded', hiddenChan[r], Taken(r)', Sent(r - 1)')
    <3> DEFINE F == Forwarded    G == Forwarded'
               lo == Taken(r)    loNext == Taken(r)'
               hi == Sent(r - 1) hiNext == Sent(r - 1)'
    <3>1. /\ F \subseteq G /\ G \subseteq Nat /\ lo \in Int /\ hi \in Int
          /\ loNext \in Int /\ hiNext \in Int /\ Link(F, hiddenChan[r], lo, hi)
          /\ \A b \in G : b \notin F => hi < b
          /\ Passes(G, lo, loNext) /\ Passes(G, hi, hiNext)
      BY <1>4, <2>2, <2>3, <2>4, <2>5, <2>6 DEF Passes
    <3> HIDE DEF F, G, lo, loNext, hi, hiNext
    <3>2. Link(G, hiddenChan[r], loNext, hiNext)
      BY <3>1, LinkPass
    <3> QED BY <3>2 DEF G, loNext, hiNext
  <2> QED BY <1>5, <2>7 DEF Link
<1>15. ASSUME NEW r \in Rank, NEW p \in Rank, p < r
       PROVE  Behind(Forwarded, Taken(r), Sent(p))'
  <2>1. Behind(Forwarded, Taken(r), Sent(p))
    BY <1>15 DEF HiddenInOrder, HiddenInv
  <2>2. \A b \in Forwarded' : b \notin Forwarded => Taken(r) < b
    <3>1. Taken(r) \in Int /\ Taken(r) <= Len(plan) /\ Len(plan) \in Nat
      BY <1>10
    <3> QED BY <1>4, <3>1
  <2>3. r # 0
    BY <1>15, PAssumption DEF Rank
  <2>4. Taken(r)' = Taken(r) \/ (Taken(r)' = Taken(r) + 1 /\ Taken(r)' \notin Forwarded')
    BY <1>11, <1>12, <2>3
  <2>5. Sent(p) <= Sent(p)'
    BY <1>10, <1>11, <1>12
  <2>6. Taken(r) \in Int /\ Taken(r)' \in Int /\ Sent(p) \in Int /\ Sent(p)' \in Int
    BY <1>10
  <2>7. Behind(Forwarded', Taken(r)', Sent(p)')
    BY <1>4, <2>1, <2>2, <2>4, <2>5, <2>6, BehindPass
  <2> QED BY <2>7 DEF Behind
<1> QED
  BY <1>13, <1>14, <1>15 DEF HiddenInOrder, HiddenInv

\* recv_tensor: what comes first are the activations of the batch the rank has scheduled.
LEMMA HiddenReceive ==
  ASSUME TypeOK, SlotsInStep, HiddenInOrder, NEW q \in Rank, ReceiveHidden(q)
  PROVE  HiddenInOrder'
<1>1. /\ pc[q] = "hidden" /\ hiddenChan[q] # <<>> /\ plan' = plan /\ iter' = iter
      /\ batch' = batch /\ pipeBatch' = pipeBatch /\ pc'[q] = "tokens"
      /\ stage'[q] = Head(hiddenChan[q]) /\ hiddenChan'[q] = Tail(hiddenChan[q])
      /\ \A r \in Rank : r # q => /\ pc'[r] = pc[r] /\ stage'[r] = stage[r]
                                  /\ hiddenChan'[r] = hiddenChan[r]
  BY DEF ReceiveHidden, TypeOK, counters
<1>2. StageInv(q) /\ HiddenInv(q)
  BY DEF HiddenInOrder
<1>3. q # 0 /\ batch[q] # NoBatch /\ iter[q] \in Forwarded /\ batch[q] = iter[q]
  BY <1>1, <1>2, LaunchedBatch DEF StageInv, Launching
<1>4. q - 1 \in Rank
  BY <1>3, PAssumption DEF Rank
<1>5. \A r \in Rank : /\ Taken(r) \in Int /\ Sent(r) \in Int /\ iter[r] \in Int
                      /\ Sent(r) <= Taken(r) /\ Forwarded \subseteq Nat
  BY Progress
<1>6. Taken(q) + 1 = iter[q] /\ Taken(q)' = iter[q]
  BY <1>1, <1>5 DEF Taken
<1>7. /\ \A r \in Rank : Sent(r)' = Sent(r)
      /\ \A r \in Rank : r # q => Taken(r)' = Taken(r)
  BY <1>1 DEF Taken, Sent
<1>8. Forwarded' = Forwarded
  BY <1>1 DEF Forwarded
<1>9. /\ Head(hiddenChan[q]) = iter[q] /\ iter[q] <= Sent(q - 1)
      /\ Link(Forwarded, Tail(hiddenChan[q]), iter[q], Sent(q - 1))
  <2> DEFINE F == Forwarded
             lo == Taken(q)
             hi == Sent(q - 1)
             c == hiddenChan[q]
  <2>1. /\ F \subseteq Nat /\ lo \in Int /\ hi \in Int /\ Link(F, c, lo, hi)
        /\ lo + 1 \in F /\ c # <<>>
    BY <1>1, <1>2, <1>3, <1>4, <1>5, <1>6 DEF HiddenInv
  <2> HIDE DEF F, lo, hi, c
  <2>2. Head(c) = lo + 1 /\ lo + 1 <= hi /\ Link(F, Tail(c), lo + 1, hi)
    BY <2>1, LinkTake
  <2> QED BY <1>6, <2>2 DEF F, lo, hi, c
<1>10. ASSUME NEW r \in Rank PROVE StageInv(r)'
  <2>1. CASE r = q
    BY <1>1, <1>3, <1>8, <1>9, <2>1 DEF StageInv
  <2>2. CASE r # q
    BY <1>1, <1>8, <2>2 DEF StageInv, HiddenInOrder
  <2> QED BY <2>1, <2>2
<1>11. ASSUME NEW r \in Rank, r # 0
       PROVE  Link(Forwarded, hiddenChan[r], Taken(r), Sent(r - 1))'
  <2>1. r - 1 \in Rank
    BY <1>11, PAssumption DEF Rank
  <2>2. Link(Forwarded, hiddenChan'[r], Taken(r)', Sent(r - 1))
    <3>1. CASE r = q
      BY <1>1, <1>6, <1>9, <3>1
    <3>2. CASE r # q
      BY <1>1, <1>7, <1>11, <3>2 DEF HiddenInOrder, HiddenInv
    <3> QED BY <3>1, <3>2
  <2> QED BY <1>7, <1>8, <2>1, <2>2 DEF Link
<1>12. ASSUME NEW r \in Rank, NEW p \in Rank, p < r
       PROVE  Behind(Forwarded, Taken(r), Sent(p))'
  <2>1. Behind(Forwarded, Taken(r), Sent(p))
    BY <1>12 DEF HiddenInOrder, HiddenInv
  <2>2. CASE r # q
    BY <1>7, <1>8, <2>1, <2>2 DEF Behind
  <2>3. ASSUME r = q PROVE iter[q] <= Sent(p)
    <3>1. CASE p = q - 1
      BY <1>9, <3>1
    <3>2. CASE p # q - 1
      <4>1. p < q - 1
        BY <1>12, <2>3, <3>2, PAssumption DEF Rank
      <4>2. Behind(Forwarded, Taken(q - 1), Sent(p))
        BY <1>4, <4>1 DEF HiddenInOrder, HiddenInv
      <4>3. iter[q] <= Taken(q - 1)
        BY <1>4, <1>5, <1>9
      <4> QED BY <1>3, <4>2, <4>3 DEF Behind
    <3> QED BY <3>1, <3>2
  <2>4. ASSUME r = q, NEW b \in Forwarded, b <= iter[q] PROVE b <= Sent(p)
    <3>1. b \in Int
      BY <1>5
    <3>2. CASE b = iter[q]
      BY <2>3, <2>4, <3>2
    <3>3. CASE b # iter[q]
      <4>1. b <= Taken(r)
        BY <1>5, <1>6, <2>4, <3>1, <3>3
      <4> QED BY <2>1, <4>1 DEF Behind
    <3> QED BY <3>2, <3>3
  <2>5. CASE r = q
    BY <1>6, <1>7, <1>8, <2>4, <2>5 DEF Behind
  <2> QED BY <2>2, <2>5
<1> QED
  BY <1>10, <1>11, <1>12 DEF HiddenInOrder, HiddenInv

\* isend_tensor: a rank that has passed the collective sends what it has computed, if
\* it ran a batch at all, to the rank that follows it.
LEMMA LinkLeave ==
  ASSUME TypeOK, SlotsInStep, HiddenInOrder, NEW r \in Rank, r # 0,
         pc[r - 1] = "tokens", pc'[r - 1] = "finish",
         plan' = plan, iter' = iter, Taken(r)' = Taken(r),
         hiddenChan'[r] = IF batch[r - 1] = NoBatch THEN hiddenChan[r]
                          ELSE Append(hiddenChan[r], stage[r - 1])
  PROVE  Link(Forwarded, hiddenChan[r], Taken(r), Sent(r - 1))'
<1> DEFINE p == r - 1
<1>1. p \in Rank /\ p < r
  BY PAssumption DEF Rank
<1>2. StageInv(p) /\ HiddenInv(r)
  BY <1>1 DEF HiddenInOrder
<1>3. /\ Taken(r) \in Int /\ Sent(p) \in Int /\ iter[p] \in Int /\ Forwarded \subseteq Nat
  BY <1>1, Progress
<1> HIDE DEF p
<1>4. Sent(p) + 1 = iter[p] /\ Sent(p)' = iter[p]
  BY <1>3 DEF Sent, p
<1>5. Forwarded' = Forwarded
  BY DEF Forwarded
<1>6. Link(Forwarded, hiddenChan[r], Taken(r), Sent(p)) /\ Behind(Forwarded, Taken(r), Sent(p))
  BY <1>1, <1>2 DEF HiddenInv, p
<1>7. /\ batch[p] # NoBatch => batch[p] = iter[p]
      /\ batch[p] = NoBatch => iter[p] \notin Forwarded
  <2>1. Launching(p)
    BY DEF Launching, p
  <2> QED BY <1>1, <2>1, LaunchedBatch
<1>8. CASE batch[p] = NoBatch
  <2> DEFINE F == Forwarded
             lo == Taken(r)
             hi == Sent(p)
             c == hiddenChan[r]
  <2>1. /\ F \subseteq Nat /\ lo \in Int /\ hi \in Int /\ Link(F, c, lo, hi)
        /\ hi + 1 \notin F
    BY <1>3, <1>4, <1>6, <1>7, <1>8
  <2> HIDE DEF F, lo, hi, c
  <2>2. Link(F, c, lo, hi + 1)
    <3> DEFINE hiNext == hi + 1
    <3>1. /\ hiNext \in Int /\ Passes(F, lo, lo) /\ Passes(F, hi, hiNext)
          /\ F \subseteq F /\ \A b \in F : b \notin F => hi < b
      BY <2>1 DEF Passes
    <3> HIDE DEF hiNext
    <3>2. Link(F, c, lo, hiNext)
      BY <2>1, <3>1, LinkPass
    <3> QED BY <3>2 DEF hiNext
  <2>3. hiddenChan'[r] = c
    BY <1>8 DEF c, p
  <2>4. Link(Forwarded', hiddenChan'[r], Taken(r)', Sent(p)')
    BY <1>4, <1>5, <2>2, <2>3 DEF F, lo, hi
  <2> QED BY <2>4 DEF Link, p
<1>9. CASE batch[p] # NoBatch
  <2> DEFINE F == Forwarded
             lo == Taken(r)
             hi == Sent(p)
             c == hiddenChan[r]
  <2>1. stage[p] = iter[p] /\ iter[p] \in Forwarded
    BY <1>2, <1>7, <1>9 DEF StageInv, p
  <2>2. Taken(r) < iter[p]
    BY <1>3, <1>4, <1>6, <2>1 DEF Behind
  <2>3. /\ F \subseteq Nat /\ lo \in Int /\ hi \in Int /\ Link(F, c, lo, hi)
        /\ hi + 1 \in F /\ lo < hi + 1
    BY <1>3, <1>4, <1>6, <2>1, <2>2
  <2> HIDE DEF F, lo, hi, c
  <2>4. Link(F, Append(c, hi + 1), lo, hi + 1)
    BY <2>3, LinkSend
  <2>5. hiddenChan'[r] = Append(c, hi + 1)
    BY <1>4, <1>9, <2>1 DEF c, hi, p
  <2>6. Link(Forwarded', hiddenChan'[r], Taken(r)', Sent(p)')
    BY <1>4, <1>5, <2>4, <2>5 DEF F, lo, hi
  <2> QED BY <2>6 DEF Link, p
<1> QED BY <1>8, <1>9

\* A step in which the ranks of L leave the collective and send their hidden states.
LEMMA HiddenLeave ==
  ASSUME TypeOK, SlotsInStep, HiddenInOrder, NEW L \in SUBSET Rank,
         plan' = plan, iter' = iter, batch' = batch, pipeBatch' = pipeBatch, stage' = stage,
         \A r \in L : pc[r] = "tokens" /\ pc'[r] = "finish",
         \A r \in Rank : r \notin L => pc'[r] = pc[r],
         \A r \in Rank : hiddenChan'[r] =
           IF r # 0 /\ r - 1 \in L /\ batch[r - 1] # NoBatch
           THEN Append(hiddenChan[r], stage[r - 1]) ELSE hiddenChan[r]
  PROVE  HiddenInOrder'
<1>1. Forwarded' = Forwarded
  BY DEF Forwarded
<1>2. \A r \in Rank : Taken(r)' = Taken(r)
  BY DEF Taken
<1>3. \A r \in Rank : /\ Taken(r) \in Int /\ Sent(r) \in Int /\ iter[r] \in Int
                      /\ Forwarded \subseteq Nat
  BY Progress
<1>4. /\ \A r \in Rank : r \notin L => Sent(r)' = Sent(r)
      /\ \A r \in Rank : Sent(r)' \in Int /\ Sent(r) <= Sent(r)'
  BY <1>3 DEF Sent
<1>5. ASSUME NEW r \in Rank PROVE StageInv(r)'
  BY <1>1 DEF StageInv, HiddenInOrder
<1>6. ASSUME NEW r \in Rank, r # 0
      PROVE  Link(Forwarded, hiddenChan[r], Taken(r), Sent(r - 1))'
  <2>1. r - 1 \in Rank
    BY <1>6, PAssumption DEF Rank
  <2>2. CASE r - 1 \in L
    BY <1>2, <1>6, <2>2, LinkLeave
  <2>3. CASE r - 1 \notin L
    <3>1. Link(Forwarded, hiddenChan[r], Taken(r), Sent(r - 1))
      BY <1>6 DEF HiddenInOrder, HiddenInv
    <3>2. hiddenChan'[r] = hiddenChan[r] /\ Sent(r - 1)' = Sent(r - 1)
      BY <1>4, <2>1, <2>3
    <3> QED BY <1>1, <1>2, <3>1, <3>2 DEF Link
  <2> QED BY <2>2, <2>3
<1>7. ASSUME NEW r \in Rank, NEW p \in Rank, p < r
      PROVE  Behind(Forwarded, Taken(r), Sent(p))'
  <2>1. Behind(Forwarded, Taken(r), Sent(p))
    BY <1>7 DEF HiddenInOrder, HiddenInv
  <2>2. \A b \in Forwarded : b <= Taken(r) => b <= Sent(p)'
    BY <1>3, <1>4, <2>1 DEF Behind
  <2> QED BY <1>1, <1>2, <2>2 DEF Behind
<1> QED
  BY <1>5, <1>6, <1>7 DEF HiddenInOrder, HiddenInv

\* Before the first iteration nothing is decided and every channel is empty.
LEMMA InitHidden == Init => HiddenInOrder
<1> SUFFICES ASSUME Init, NEW r \in Rank PROVE StageInv(r) /\ HiddenInv(r)
  BY DEF HiddenInOrder
<1>1. plan = <<>> /\ hiddenChan[r] = <<>> /\ pc[r] = "recv"
  BY DEF Init
<1>2. Len(plan) = 0
  BY <1>1
<1>3. Forwarded = {}
  BY <1>2 DEF Forwarded
<1>4. <<>> \in Seq(Nat) /\ DOMAIN <<>> = {}
  OBVIOUS
<1> QED
  BY <1>1, <1>3, <1>4 DEF StageInv, HiddenInv, Link, Behind

\* Each step of an iteration of one rank keeps the hidden states of all ranks in order.
LEMMA RankStepHidden ==
  ASSUME TypeOK, SlotsInStep, SlotsInStep', HiddenInOrder, NEW q \in Rank, RankStep(q)
  PROVE  HiddenInOrder'
<1>1. CASE InputStep(q) \/ Finish(q)
  <2>0. ASSUME Finish(q)
        PROVE  /\ plan' = plan /\ hiddenChan' = hiddenChan /\ batch' = batch
               /\ pipeBatch' = pipeBatch /\ stage' = stage /\ iter' = iter
               /\ \A r \in Rank : r # q => pc'[r] = pc[r]
               /\ pc[q] = "finish" /\ pc'[q] = "recv"
    BY <2>0 DEF Finish, TypeOK, counters, channels
  <2>1. /\ plan' = plan /\ hiddenChan' = hiddenChan /\ batch' = batch
        /\ pipeBatch' = pipeBatch /\ stage' = stage
        /\ \A r \in Rank : r # q => pc'[r] = pc[r] /\ iter'[r] = iter[r]
    BY <1>1, <2>0, InputFrame
  <2>2. \/ pc[q] = "recv" /\ pc'[q] \in {"decide", "failed"} /\ iter'[q] = iter[q] + 1
        \/ pc[q] = "decide" /\ pc'[q] = "schedule" /\ iter'[q] = iter[q]
        \/ pc[q] = "finish" /\ pc'[q] = "recv" /\ iter'[q] = iter[q]
    BY <1>1, <2>0, InputFrame
  <2>3. iter[q] \in Int
    BY Progress
  <2>4. Taken(q)' = Taken(q) /\ Sent(q)' = Sent(q) /\ pc'[q] \notin {"hidden", "tokens"}
    BY <2>2, <2>3 DEF Taken, Sent
  <2>5. \A r \in Rank : r # q => Taken(r)' = Taken(r) /\ Sent(r)' = Sent(r)
    BY <2>1 DEF Taken, Sent
  <2> QED BY <2>1, <2>4, <2>5, HiddenQuiet
<1>2. CASE Schedule(q)
  BY <1>2, HiddenSchedule
<1>3. CASE ReceiveHidden(q)
  BY <1>3, HiddenReceive
<1>4. CASE SampleAndBroadcast(q) \/ JoinBroadcast(q) \/ NoBroadcast(q)
  <2>1. /\ plan' = plan /\ iter' = iter /\ batch' = batch /\ pipeBatch' = pipeBatch
        /\ stage' = stage /\ pc[q] = "tokens" /\ pc' = [pc EXCEPT ![q] = "finish"]
    BY <1>4 DEF SampleAndBroadcast, JoinBroadcast, NoBroadcast, counters
  <2>2. \/ q = LastRank /\ hiddenChan' = hiddenChan
        \/ q # LastRank /\ SendHidden(q)
    BY <1>4 DEF SampleAndBroadcast, JoinBroadcast, NoBroadcast
  <2>3. \A r \in Rank : r - 1 \in {q} <=> r = q + 1
    BY PAssumption DEF Rank
  <2>4. ASSUME NEW r \in Rank
        PROVE  hiddenChan'[r] = IF r # 0 /\ r - 1 \in {q} /\ batch[r - 1] # NoBatch
                                THEN Append(hiddenChan[r], stage[r - 1]) ELSE hiddenChan[r]
    <3>1. CASE r = q + 1
      <4>1. r # 0 /\ r - 1 = q /\ q # LastRank
        BY <3>1, PAssumption DEF Rank, LastRank
      <4> QED BY <2>2, <3>1, <4>1 DEF SendHidden, TypeOK
    <3>2. CASE r # q + 1
      BY <2>2, <2>3, <3>2 DEF SendHidden, TypeOK
    <3> QED BY <3>1, <3>2
  <2>5. {q} \in SUBSET Rank /\ pc'[q] = "finish" /\ \A r \in Rank : r \notin {q} => pc'[r] = pc[r]
    BY <2>1 DEF TypeOK
  <2> QED BY <2>1, <2>4, <2>5, HiddenLeave
<1> QED
  BY <1>1, <1>2, <1>3, <1>4 DEF RankStep, InputStep

\* With the types and the slots, the order of the hidden states is inductive.
LEMMA NextHidden ==
  TypeOK /\ SlotsInStep /\ SlotsInStep' /\ HiddenInOrder /\ [Next]_vars => HiddenInOrder'
<1> SUFFICES ASSUME TypeOK, SlotsInStep, SlotsInStep', HiddenInOrder, [Next]_vars
             PROVE  HiddenInOrder'
  OBVIOUS
<1>1. ASSUME NEW q \in Rank, RankStep(q) PROVE HiddenInOrder'
  BY <1>1, RankStepHidden
<1>2. CASE BroadcastTogether
  <2>1. /\ plan' = plan /\ iter' = iter /\ batch' = batch /\ pipeBatch' = pipeBatch
        /\ stage' = stage /\ \A r \in Rank : pc[r] = "tokens" /\ pc'[r] = "finish"
    BY <1>2 DEF BroadcastTogether, counters
  <2>2. \A r \in Rank : r # 0 => r - 1 \in Rank
    BY PAssumption DEF Rank
  <2>3. \A r \in Rank : hiddenChan'[r] =
          IF r # 0 /\ r - 1 \in Rank /\ batch[r - 1] # NoBatch
          THEN Append(hiddenChan[r], stage[r - 1]) ELSE hiddenChan[r]
    BY <1>2, <2>2 DEF BroadcastTogether
  <2>4. Rank \in SUBSET Rank
    OBVIOUS
  <2> QED BY <2>1, <2>3, <2>4, HiddenLeave
<1>3. CASE UNCHANGED vars
  BY <1>3, HiddenQuiet DEF vars, counters, channels, Taken, Sent
<1> QED
  BY <1>1, <1>2, <1>3 DEF Next, AllStopped

\* For every number of stages, either behaviour of the collective and every mix of
\* batches: the hidden states reach each stage in the order of its batches, none of
\* them twice or too late.
THEOREM HiddenArriveInOrder == Spec => []HiddenInOrder
BY InitHidden, NextHidden, TypeCorrect, SlotArithmetic, PTL DEF Spec, SafeSpec

\* A rank's forward pass runs on the activations of the batch it scheduled.
THEOREM ForwardOnOwnBatch == Spec => []StageMatchesBatch
<1>1. HiddenInOrder => StageMatchesBatch
  BY DEF HiddenInOrder, StageInv, StageMatchesBatch
<1> QED
  BY <1>1, HiddenArriveInOrder, PTL

-----------------------------------------------------------------------------
\* The tokens.  A prefill batch of empty prompts joins no collective and shifts every
\* later broadcast by one, so all of this is for BatchKinds without "empty".

\* Where every batch runs the model, a rank that has a pipe_batch waits for the tokens of
\* the next batch on its link, and one that has none has an iteration to pass by.
LEMMA AwaitedBatch ==
  ASSUME TypeOK, SlotsInStep, NoEmptyPrefill, NEW r \in Rank, r # LastRank,
         pc[r] \in {"hidden", "tokens"}
  PROVE  /\ pipeBatch[r] # NoBatch => /\ pipeBatch[r] = Joined(r) + 1
                                      /\ Joined(r) + 1 \in Forwarded
         /\ pipeBatch[r] = NoBatch => Joined(r) + 1 \notin Forwarded
<1>1. Joined(r) \in Int /\ Joined(r) + 1 = iter[r] - (P - 1 - r)
  <2>1. iter[r] \in Nat /\ r \in Nat /\ P \in Nat
    BY RankFacts
  <2> QED BY <2>1 DEF Joined, Sent
<1>2. pipeBatch[r] = BatchOf(Joined(r) + 1)
  <2>1. Launching(r)
    BY DEF Launching
  <2> QED BY <1>1, <2>1 DEF SlotsInStep, SlotInv
<1>3. \A i \in 1 .. Len(plan) : plan[i] # "none" => plan[i] = "forward"
  <2>1. plan \in Seq(BatchKinds)
    BY DEF TypeOK
  <2>2. \A i \in 1 .. Len(plan) : plan[i] \in BatchKinds
    BY <2>1
  <2> QED BY <2>2, KindsAssumption DEF NoEmptyPrefill
<1> QED
  BY <1>1, <1>2, <1>3 DEF BatchOf, Forwarded, NoBatch

\* The steps that leave every rank's place in the broadcasts alone.
LEMMA TokenQuiet ==
  ASSUME TokensInOrder, plan' = plan, tokenChan' = tokenChan,
         NoEmptyPrefill => ResultsFromLastStage',
         \A r \in Rank : /\ Sent(r)' = Sent(r)
                         /\ pc'[r] = "finish" =>
                              /\ pc[r] = "finish" /\ batch'[r] = batch[r]
                              /\ pipeBatch'[r] = pipeBatch[r] /\ tokens'[r] = tokens[r]
  PROVE  TokensInOrder'
<1> SUFFICES ASSUME NoEmptyPrefill, NEW r \in Rank
             PROVE  ResultsFromLastStage' /\ TokenInv(r)'
  BY PAssumption DEF TokensInOrder, NoEmptyPrefill, Rank
<1>1. TokenInv(r)
  BY DEF TokensInOrder
<1>2. ResultsFromLastStage'
  OBVIOUS
<1>3. LastRank \in Rank
  BY PAssumption DEF Rank, LastRank
<1>4. Forwarded' = Forwarded
  BY DEF Forwarded
<1>5. Joined(r)' = Joined(r) /\ Sent(LastRank)' = Sent(LastRank)
  BY <1>3 DEF Joined, LastRank
<1>6. pc'[r] = "finish" /\ Applied(r)' # NoBatch => tokens'[r] = Applied(r)'
  BY <1>1 DEF TokenInv, Applied
<1> QED
  BY <1>1, <1>2, <1>4, <1>5, <1>6 DEF TokenInv, Link, Behind

\* get_next_batch_to_run: an iteration without a batch joins no broadcast.
LEMMA TokenSchedule ==
  ASSUME TypeOK, SlotsInStep, SlotsInStep', TokensInOrder, NEW q \in Rank, Schedule(q)
  PROVE  TokensInOrder'
<1> SUFFICES ASSUME NoEmptyPrefill PROVE TokensInOrder'
  BY DEF TokensInOrder, NoEmptyPrefill
<1>0. ResultsFromLastStage /\ \A r \in Rank : TokenInv(r)
  BY DEF TokensInOrder
<1>1. PICK kind \in Choices(iter[q]) : ScheduleAs(q, kind)
  BY DEF Schedule
<1>2. kind \in BatchKinds /\ iter[q] \in Nat /\ iter[q] > 0 /\ pc[q] = "schedule"
  <2>1. pc[q] = "schedule" /\ iter[q] \in Nat /\ iter[q] > 0 /\ plan \in Seq(BatchKinds)
    BY RankFacts DEF Schedule
  <2> QED BY <2>1, KindsAssumption DEF Choices
<1>3. kind \in {"none", "forward"}
  BY <1>2, KindsAssumption DEF NoEmptyPrefill
<1>4. plan' = plan \/ plan' = Append(plan, kind)
  BY <1>1 DEF ScheduleAs
<1>5. /\ Forwarded \subseteq Forwarded' /\ Forwarded' \subseteq Nat
      /\ \A b \in Forwarded' : b \notin Forwarded => Len(plan) < b
  BY <1>2, <1>4, ForwardedGrows
<1>6. /\ iter' = iter /\ tokenChan' = tokenChan /\ done' = done
      /\ batch'[q] = (IF kind = "none" THEN NoBatch ELSE iter[q])
      /\ \A r \in Rank : r # q => /\ pc'[r] = pc[r] /\ batch'[r] = batch[r]
                                  /\ pipeBatch'[r] = pipeBatch[r] /\ tokens'[r] = tokens[r]
  BY <1>1 DEF ScheduleAs, Schedule, counters, channels, TypeOK
<1>7. pc'[q] = AfterSchedule(q, kind, pipeBatch'[q])
  BY <1>1 DEF ScheduleAs, TypeOK
<1>8. /\ pc'[q] \in {"tokens", "hidden", "finish"}
      /\ pc'[q] = "finish" => kind = "none" /\ (pipeBatch'[q] = NoBatch \/ q = LastRank)
  <2>1. CASE kind = "forward"
    BY <1>7, <2>1 DEF AfterSchedule
  <2>2. CASE kind = "none"
    BY <1>7, <2>2 DEF AfterSchedule
  <2> QED BY <1>3, <2>1, <2>2
<1>9. \A r \in Rank : /\ Joined(r) \in Int /\ Sent(r) \in Int /\ Len(plan) \in Nat
                      /\ Joined(r) <= Len(plan) /\ Sent(r) <= Len(plan)
                      /\ Joined(r)' \in Int /\ Sent(r)' \in Int
  <2>1. \A r \in Rank : /\ Joined(r) \in Int /\ Sent(r) \in Int /\ iter[r] \in Int
                        /\ Joined(r) <= Sent(r) /\ Sent(r) <= Taken(r)
                        /\ Taken(r) \in Int /\ Taken(r) <= Len(plan)
    BY Progress
  <2>2. Len(plan) \in Nat /\ P \in Int /\ \A r \in Rank : r \in Int
    BY PAssumption DEF TypeOK, Rank
  <2>3. \A r \in Rank : Sent(r)' \in Int
    BY <1>6, <2>1 DEF Sent
  <2>4. \A r \in Rank : Joined(r)' \in Int
    BY <2>2, <2>3 DEF Joined
  <2> QED BY <2>1, <2>2, <2>3, <2>4
<1>10. \A r \in Rank : r # q => Joined(r)' = Joined(r) /\ Sent(r)' = Sent(r)
  BY <1>6 DEF Joined, Sent
<1>11. \/ pc'[q] # "finish" /\ Sent(q)' = Sent(q)
       \/ pc'[q] = "finish" /\ Sent(q)' = Sent(q) + 1 /\ Sent(q)' = iter[q]
  BY <1>2, <1>6, <1>8 DEF Sent
<1>12. q = LastRank => Sent(q)' = Sent(q) \/ (Sent(q)' = Sent(q) + 1 /\ Sent(q)' \notin Forwarded')
  <2>1. ASSUME pc'[q] = "finish" PROVE iter[q] \notin Forwarded'
    <3>1. Launching(q)' /\ batch'[q] = NoBatch
      BY <1>6, <1>8, <2>1 DEF Launching
    <3>2. batch'[q] = BatchOf(iter[q])'
      BY <3>1 DEF SlotsInStep, SlotInv
    <3> QED BY <1>2, <1>6, <3>1, <3>2 DEF BatchOf, Forwarded, NoBatch
  <2> QED BY <1>11, <2>1
<1>13. q # LastRank => \/ Joined(q)' = Joined(q)
                       \/ Joined(q)' = Joined(q) + 1 /\ Joined(q)' \notin Forwarded'
  <2>0. q \in Int /\ P \in Int /\ Sent(q) \in Int
    BY <1>9, PAssumption DEF Rank
  <2>1. ASSUME pc'[q] = "finish", q # LastRank PROVE Joined(q)' \notin Forwarded'
    <3>1. Launching(q)' /\ pipeBatch'[q] = NoBatch
      BY <1>8, <2>1 DEF Launching
    <3>2. pipeBatch'[q] = BatchOf(iter[q] - (P - 1 - q))'
      BY <2>1, <3>1 DEF SlotsInStep, SlotInv
    <3>3. Joined(q)' = iter'[q] - (P - 1 - q)
      BY <2>1 DEF Joined, Sent
    <3> QED BY <3>1, <3>2, <3>3 DEF BatchOf, Forwarded, NoBatch
  <2>2. Sent(q)' = Sent(q) => Joined(q)' = Joined(q)
    BY DEF Joined
  <2>3. Sent(q)' = Sent(q) + 1 => Joined(q)' = Joined(q) + 1
    BY <2>0 DEF Joined
  <2> QED BY <1>11, <2>1, <2>2, <2>3
<1>14. LastRank \in Rank
  BY PAssumption DEF Rank, LastRank
<1>15. ASSUME NEW r \in Rank, r # LastRank
       PROVE  /\ Link(Forwarded, tokenChan[r], Joined(r), Sent(LastRank))'
              /\ Behind(Forwarded, Joined(r), Sent(LastRank))'
  <2> DEFINE F == Forwarded       G == Forwarded'
             lo == Joined(r)      loNext == Joined(r)'
             hi == Sent(LastRank) hiNext == Sent(LastRank)'
  <2>1. /\ F \subseteq G /\ G \subseteq Nat /\ lo \in Int /\ hi \in Int
        /\ loNext \in Int /\ hiNext \in Int
    BY <1>5, <1>9, <1>14 DEF LastRank
  <2>2. Link(F, tokenChan[r], lo, hi) /\ Behind(F, lo, hi)
    BY <1>0, <1>15 DEF TokenInv
  <2>3. \A b \in G : b \notin F => hi < b /\ lo < b
    <3>1. lo <= Len(plan) /\ hi <= Len(plan) /\ Len(plan) \in Int
      BY <1>9, <1>14
    <3>2. \A b \in G : b \notin F => Len(plan) < b
      BY <1>5
    <3> HIDE DEF F, G, lo, hi
    <3> QED BY <2>1, <3>1, <3>2
  <2>4. loNext = lo \/ (loNext = lo + 1 /\ loNext \notin G)
    BY <1>10, <1>13, <1>15
  <2>5. hiNext = hi \/ (hiNext = hi + 1 /\ hiNext \notin G)
    <3>1. CASE q = LastRank
      BY <1>12, <3>1 DEF LastRank
    <3>2. CASE q # LastRank
      BY <1>10, <1>14, <3>2 DEF LastRank
    <3> QED BY <3>1, <3>2
  <2>6. tokenChan'[r] = tokenChan[r]
    BY <1>6
  <2> HIDE DEF F, G, lo, loNext, hi, hiNext
  <2>7. Link(G, tokenChan[r], loNext, hiNext)
    <3>1. Passes(G, lo, loNext) /\ Passes(G, hi, hiNext)
      BY <2>4, <2>5 DEF Passes
    <3>2. \A b \in G : b \notin F => hi < b
      BY <2>3
    <3> QED BY <2>1, <2>2, <3>1, <3>2, LinkPass
  <2>8. hi <= hiNext
    BY <2>1, <2>5
  <2>9. Behind(G, loNext, hiNext)
    BY <2>1, <2>2, <2>3, <2>4, <2>8, BehindPass
  <2> QED BY <2>6, <2>7, <2>9 DEF Link, Behind, G, loNext, hiNext
<1>16. ASSUME NEW r \in Rank
       PROVE  pc'[r] = "finish" /\ Applied(r)' # NoBatch => tokens'[r] = Applied(r)'
  <2>1. CASE r = q
    BY <1>6, <1>8, <2>1 DEF Applied
  <2>2. CASE r # q
    BY <1>0, <1>6, <2>2 DEF TokenInv, Applied
  <2> QED BY <2>1, <2>2
<1>17. ASSUME NEW r \in Rank PROVE TokenInv(r)'
  <2>1. r # LastRank /\ Collective = "barrier" => tokenChan'[r] = <<>>
    BY <1>0, <1>6 DEF TokenInv
  <2> QED BY <1>15, <1>16, <2>1 DEF TokenInv, LastRank
<1>18. ResultsFromLastStage'
  BY <1>0, <1>6 DEF ResultsFromLastStage
<1> QED BY <1>17, <1>18 DEF TokensInOrder

\* When the last rank broadcasts, it broadcasts the batch of its own iteration.
LEMMA SampledBatch ==
  ASSUME TypeOK, SlotsInStep, HiddenInOrder, pc[LastRank] = "tokens"
  PROVE  /\ LastRank \in Rank /\ Sent(LastRank) \in Int
         /\ stage[LastRank] = Sent(LastRank) + 1 /\ batch[LastRank] = Sent(LastRank) + 1
         /\ Sent(LastRank) + 1 \in Forwarded
<1>1. LastRank \in Rank
  BY PAssumption DEF Rank, LastRank
<1> DEFINE r == LastRank
<1>2. r \in Rank /\ pc[r] = "tokens" /\ r = LastRank
  BY <1>1
<1> HIDE DEF r
<1>3. StageInv(r)
  BY <1>2 DEF HiddenInOrder
<1>4. batch[r] # NoBatch /\ stage[r] = batch[r] /\ iter[r] \in Forwarded
  BY <1>2, <1>3 DEF StageInv
<1>5. batch[r] = iter[r]
  BY <1>2, <1>4, LaunchedBatch DEF Launching
<1>6. iter[r] \in Int /\ Sent(r) \in Int
  BY <1>2, Progress
<1>7. iter[r] = Sent(r) + 1
  BY <1>2, <1>6 DEF Sent
<1> QED BY <1>1, <1>2, <1>4, <1>5, <1>6, <1>7

\* broadcast, on the last rank: the tokens of its batch go to every other rank.
LEMMA TokenSample ==
  ASSUME TypeOK, SlotsInStep, HiddenInOrder, TokensInOrder, NEW q \in Rank,
         SampleAndBroadcast(q)
  PROVE  TokensInOrder'
<1> SUFFICES ASSUME NoEmptyPrefill PROVE TokensInOrder'
  BY DEF TokensInOrder, NoEmptyPrefill
<1>0. ResultsFromLastStage /\ \A r \in Rank : TokenInv(r)
  BY DEF TokensInOrder
<1>1. /\ q = LastRank /\ pc[q] = "tokens" /\ pc'[q] = "finish" /\ plan' = plan /\ iter' = iter
      /\ batch' = batch /\ pipeBatch' = pipeBatch /\ done' = done /\ Collective = "buffered"
      /\ tokens'[q] = stage[q]
      /\ \A r \in Rank : r # q => /\ pc'[r] = pc[r] /\ tokens'[r] = tokens[r]
                                  /\ tokenChan'[r] = Append(tokenChan[r], stage[q])
  BY DEF SampleAndBroadcast, TypeOK, counters
<1>2. /\ Sent(q) \in Int /\ stage[q] = Sent(q) + 1 /\ batch[q] = Sent(q) + 1
      /\ Sent(q) + 1 \in Forwarded
  BY <1>1, SampledBatch
<1>3. Sent(q)' = Sent(q) + 1 /\ \A r \in Rank : r # q => Joined(r)' = Joined(r)
  <2>1. iter[q] \in Int
    BY Progress
  <2>2. Sent(q)' = iter[q] /\ Sent(q) = iter[q] - 1
    BY <1>1 DEF Sent
  <2>3. \A r \in Rank : r # q => Joined(r)' = Joined(r)
    BY <1>1 DEF Joined, Sent
  <2> QED BY <2>1, <2>2, <2>3
<1>4. Forwarded' = Forwarded /\ Forwarded \subseteq Nat
  BY <1>1, Progress DEF Forwarded
<1>5. ASSUME NEW r \in Rank, r # q
      PROVE  /\ Link(Forwarded', tokenChan'[r], Joined(r)', Sent(q)')
             /\ Behind(Forwarded', Joined(r)', Sent(q)')
  <2> DEFINE F == Forwarded
             lo == Joined(r)
             hi == Sent(q)
             c == tokenChan[r]
  <2>1. Link(F, c, lo, hi) /\ Behind(F, lo, hi)
    BY <1>0, <1>1, <1>5 DEF TokenInv
  <2>2. lo \in Int
    BY Progress
  <2>3. F \subseteq Nat /\ hi \in Int /\ hi + 1 \in F
    BY <1>2, <1>4
  <2>4. tokenChan'[r] = Append(c, hi + 1)
    BY <1>1, <1>2, <1>5
  <2> HIDE DEF F, lo, hi, c
  <2>5. lo < hi + 1
    BY <2>1, <2>2, <2>3 DEF Behind
  <2>6. Link(F, Append(c, hi + 1), lo, hi + 1)
    BY <2>1, <2>2, <2>3, <2>5, LinkSend
  <2>7. Behind(F, lo, hi + 1)
    BY <2>1, <2>2, <2>3 DEF Behind
  <2> QED BY <1>3, <1>4, <1>5, <2>4, <2>6, <2>7 DEF F, lo, hi
<1>6. ASSUME NEW r \in Rank
      PROVE  pc'[r] = "finish" /\ Applied(r)' # NoBatch => tokens'[r] = Applied(r)'
  <2>1. CASE r = q
    BY <1>1, <1>2, <2>1 DEF Applied, LastRank
  <2>2. CASE r # q
    BY <1>0, <1>1, <2>2 DEF TokenInv, Applied
  <2> QED BY <2>1, <2>2
<1>7. ASSUME NEW r \in Rank PROVE TokenInv(r)'
  <2>1. ASSUME r # LastRank
        PROVE  /\ Link(Forwarded, tokenChan[r], Joined(r), Sent(LastRank))'
               /\ Behind(Forwarded, Joined(r), Sent(LastRank))'
    BY <1>1, <1>5, <2>1 DEF LastRank, Link, Behind
  <2> QED BY <1>1, <1>6, <2>1 DEF TokenInv, LastRank
<1>8. ResultsFromLastStage'
  BY <1>0, <1>1 DEF ResultsFromLastStage
<1> QED BY <1>7, <1>8 DEF TokensInOrder

\* What is left to show when a rank other than the last has passed the collective.
LEMMA TokenLeave ==
  ASSUME TypeOK, SlotsInStep, TokensInOrder, NoEmptyPrefill, NEW q \in Rank, q # LastRank,
         pc[q] = "tokens", pc' = [pc EXCEPT ![q] = "finish"],
         plan' = plan, iter' = iter, batch' = batch, pipeBatch' = pipeBatch, done' = done,
         \A r \in Rank : r # q => tokens'[r] = tokens[r] /\ tokenChan'[r] = tokenChan[r],
         Collective = "barrier" => tokenChan'[q] = <<>>,
         Link(Forwarded, tokenChan'[q], Joined(q) + 1, Sent(LastRank)),
         Behind(Forwarded, Joined(q) + 1, Sent(LastRank)),
         pipeBatch[q] # NoBatch => tokens'[q] = pipeBatch[q]
  PROVE  TokensInOrder'
<1>0. ResultsFromLastStage /\ \A r \in Rank : TokenInv(r)
  BY DEF TokensInOrder
<1>1. pc'[q] = "finish" /\ \A r \in Rank : r # q => pc'[r] = pc[r]
  BY DEF TypeOK
<1>2. LastRank \in Rank
  BY PAssumption DEF Rank, LastRank
<1>3. Sent(LastRank)' = Sent(LastRank)
  BY <1>1, <1>2 DEF Sent, LastRank
<1>4. Joined(q)' = Joined(q) + 1
  <2>1. iter[q] \in Int /\ q \in Int /\ P \in Int
    BY Progress, PAssumption DEF Rank
  <2>2. Sent(q)' = Sent(q) + 1 /\ Sent(q) \in Int
    BY <1>1, <2>1 DEF Sent
  <2> QED BY <2>1, <2>2 DEF Joined
<1>5. \A r \in Rank : r # q => Joined(r)' = Joined(r)
  BY <1>1 DEF Joined, Sent
<1>6. Forwarded' = Forwarded
  BY DEF Forwarded
<1>7. ASSUME NEW r \in Rank PROVE TokenInv(r)'
  <2>1. CASE r = q
    BY <1>3, <1>4, <1>6, <2>1 DEF TokenInv, Applied, Link, Behind, LastRank
  <2>2. CASE r # q
    <3>1. TokenInv(r)
      BY <1>0
    <3>2. /\ tokenChan'[r] = tokenChan[r] /\ Joined(r)' = Joined(r) /\ pc'[r] = pc[r]
          /\ tokens'[r] = tokens[r]
      BY <1>1, <1>5, <2>2
    <3> QED BY <1>3, <1>6, <3>1, <3>2 DEF TokenInv, Applied, Link, Behind, LastRank
  <2> QED BY <2>1, <2>2
<1>8. ResultsFromLastStage'
  BY <1>0 DEF ResultsFromLastStage
<1> QED BY <1>7, <1>8 DEF TokensInOrder

\* broadcast, on the other ranks: what comes first are the tokens of pipe_batch.
LEMMA TokenJoin ==
  ASSUME TypeOK, SlotsInStep, TokensInOrder, NEW q \in Rank, JoinBroadcast(q)
  PROVE  TokensInOrder'
<1> SUFFICES ASSUME NoEmptyPrefill PROVE TokensInOrder'
  BY DEF TokensInOrder, NoEmptyPrefill
<1>1. /\ q # LastRank /\ pc[q] = "tokens" /\ pc' = [pc EXCEPT ![q] = "finish"]
      /\ plan' = plan /\ iter' = iter /\ Collective = "buffered"
      /\ batch' = batch /\ pipeBatch' = pipeBatch /\ done' = done
      /\ pipeBatch[q] # NoBatch /\ tokenChan[q] # <<>>
      /\ tokens'[q] = Head(tokenChan[q]) /\ tokenChan'[q] = Tail(tokenChan[q])
      /\ \A r \in Rank : r # q => tokens'[r] = tokens[r] /\ tokenChan'[r] = tokenChan[r]
  BY DEF JoinBroadcast, TypeOK, counters
<1>2. pipeBatch[q] = Joined(q) + 1 /\ Joined(q) + 1 \in Forwarded
  BY <1>1, AwaitedBatch
<1>3. LastRank \in Rank
  BY PAssumption DEF Rank, LastRank
<1>4. /\ tokens'[q] = Joined(q) + 1
      /\ Link(Forwarded, tokenChan'[q], Joined(q) + 1, Sent(LastRank))
      /\ Behind(Forwarded, Joined(q) + 1, Sent(LastRank))
  <2> DEFINE F == Forwarded
             lo == Joined(q)
             hi == Sent(LastRank)
             c == tokenChan[q]
  <2>1. Link(F, c, lo, hi) /\ Behind(F, lo, hi)
    BY <1>1 DEF TokenInv, TokensInOrder
  <2>2. F \subseteq Nat /\ lo \in Int /\ hi \in Int
    BY <1>3, Progress
  <2>3. lo + 1 \in F /\ c # <<>>
    BY <1>1, <1>2
  <2> HIDE DEF F, lo, hi, c
  <2>4. Head(c) = lo + 1 /\ lo + 1 <= hi /\ Link(F, Tail(c), lo + 1, hi)
    BY <2>1, <2>2, <2>3, LinkTake
  <2>5. Behind(F, lo + 1, hi)
    BY <2>2, <2>4 DEF Behind
  <2> QED BY <1>1, <2>4, <2>5 DEF F, lo, hi, c
<1> QED
  BY <1>1, <1>2, <1>4, TokenLeave

\* A rank without a pipe_batch joins no broadcast, and there is none for it to join.
LEMMA TokenNone ==
  ASSUME TypeOK, SlotsInStep, TokensInOrder, NEW q \in Rank, NoBroadcast(q)
  PROVE  TokensInOrder'
<1> SUFFICES ASSUME NoEmptyPrefill PROVE TokensInOrder'
  BY DEF TokensInOrder, NoEmptyPrefill
<1>1. /\ q # LastRank /\ pc[q] = "tokens" /\ pc' = [pc EXCEPT ![q] = "finish"]
      /\ plan' = plan /\ iter' = iter /\ tokens' = tokens /\ tokenChan' = tokenChan
      /\ batch' = batch /\ pipeBatch' = pipeBatch /\ done' = done /\ pipeBatch[q] = NoBatch
  BY DEF NoBroadcast, counters
<1>2. Joined(q) + 1 \notin Forwarded
  BY <1>1, AwaitedBatch
<1>3. LastRank \in Rank /\ TokenInv(q)
  BY PAssumption DEF Rank, LastRank, TokensInOrder
<1>4. /\ Link(Forwarded, tokenChan[q], Joined(q) + 1, Sent(LastRank))
      /\ Behind(Forwarded, Joined(q) + 1, Sent(LastRank))
  <2> DEFINE F == Forwarded
             lo == Joined(q)
             loNext == lo + 1
             hi == Sent(LastRank)
             c == tokenChan[q]
  <2>1. Link(F, c, lo, hi) /\ Behind(F, lo, hi)
    BY <1>1, <1>3 DEF TokenInv
  <2>2. /\ F \subseteq Nat /\ lo \in Int /\ hi \in Int /\ loNext \in Int /\ loNext = lo + 1
        /\ loNext \notin F
    BY <1>2, <1>3, Progress
  <2> HIDE DEF F, lo, loNext, hi, c
  <2>3. /\ F \subseteq F /\ (\A b \in F : b \notin F => hi < b)
        /\ Passes(F, lo, loNext) /\ Passes(F, hi, hi)
    BY <2>2 DEF Passes
  <2>4. Link(F, c, loNext, hi)
    BY <2>1, <2>2, <2>3, LinkPass
  <2>5. Behind(F, loNext, hi)
    <3> SUFFICES ASSUME NEW b \in F, b <= loNext PROVE b <= hi
      BY DEF Behind
    <3>1. b # loNext /\ b \in Int
      BY <2>2
    <3>2. b <= lo
      BY <2>2, <3>1
    <3> QED BY <2>1, <3>2 DEF Behind
  <2> QED BY <2>4, <2>5 DEF F, lo, loNext, hi, c
<1>5. Collective = "barrier" => tokenChan'[q] = <<>>
  BY <1>1, <1>3 DEF TokenInv
<1> QED
  BY <1>1, <1>4, <1>5, TokenLeave

\* A collective that nobody leaves early brings together the ranks that wait for the
\* same batch.
LEMMA TokenTogether ==
  ASSUME TypeOK, SlotsInStep, HiddenInOrder, TokensInOrder, BroadcastTogether
  PROVE  TokensInOrder'
<1> SUFFICES ASSUME NoEmptyPrefill PROVE TokensInOrder'
  BY DEF TokensInOrder, NoEmptyPrefill
<1>0. ResultsFromLastStage /\ \A r \in Rank : TokenInv(r)
  BY DEF TokensInOrder
<1>1. /\ Collective = "barrier" /\ plan' = plan /\ iter' = iter /\ tokenChan' = tokenChan
      /\ batch' = batch /\ pipeBatch' = pipeBatch /\ done' = done
      /\ \A r \in Rank : /\ pc[r] = "tokens" /\ pc'[r] = "finish"
                         /\ tokens'[r] = stage[LastRank]
                         /\ r # LastRank => pipeBatch[r] # NoBatch
  BY DEF BroadcastTogether, counters
<1>2. LastRank \in Rank
  BY PAssumption DEF Rank, LastRank
<1>3. /\ Sent(LastRank) \in Int /\ stage[LastRank] = Sent(LastRank) + 1
      /\ batch[LastRank] = Sent(LastRank) + 1 /\ Sent(LastRank) + 1 \in Forwarded
  BY <1>1, <1>2, SampledBatch
<1>4. Forwarded' = Forwarded
  BY <1>1 DEF Forwarded
<1>5. ASSUME NEW r \in Rank
      PROVE  /\ Sent(r) \in Int /\ Joined(r) \in Int
             /\ Sent(r)' = Sent(r) + 1 /\ Joined(r)' = Joined(r) + 1
  <2>1. iter[r] \in Int /\ Sent(r) \in Int /\ Joined(r) \in Int /\ r \in Int /\ P \in Int
    BY Progress, PAssumption DEF Rank
  <2>2. Sent(r)' = Sent(r) + 1
    BY <1>1, <2>1 DEF Sent
  <2> QED BY <2>1, <2>2 DEF Joined
<1>6. ASSUME NEW r \in Rank, r # LastRank
      PROVE  /\ Joined(r) = Sent(LastRank) /\ pipeBatch[r] = Sent(LastRank) + 1
             /\ tokenChan[r] = <<>>
  <2>1. pipeBatch[r] = Joined(r) + 1 /\ Joined(r) + 1 \in Forwarded
    BY <1>1, <1>6, AwaitedBatch
  <2>2. /\ Link(Forwarded, tokenChan[r], Joined(r), Sent(LastRank))
        /\ Behind(Forwarded, Joined(r), Sent(LastRank)) /\ tokenChan[r] = <<>>
    BY <1>0, <1>1, <1>6 DEF TokenInv
  <2> DEFINE F == Forwarded
             lo == Joined(r)
             hi == Sent(LastRank)
  <2>3. /\ lo + 1 \in F /\ hi + 1 \in F /\ lo \in Int /\ hi \in Int
        /\ Link(F, <<>>, lo, hi) /\ Behind(F, lo, hi)
    BY <1>3, <1>5, <2>1, <2>2
  <2> HIDE DEF F, lo, hi
  <2>4. DOMAIN <<>> = {}
    OBVIOUS
  <2>5. ~(lo + 1 <= hi)
    <3>1. \A b \in F : ~(lo < b /\ b <= hi)
      BY <2>3, <2>4 DEF Link
    <3> QED BY <2>3, <3>1
  <2>6. ~(hi + 1 <= lo)
    BY <2>3 DEF Behind
  <2>7. lo = hi
    BY <2>3, <2>5, <2>6
  <2> QED BY <2>1, <2>2, <2>7 DEF lo, hi
<1>7. ASSUME NEW r \in Rank, r # LastRank
      PROVE  /\ Link(Forwarded', tokenChan'[r], Joined(r)', Sent(LastRank)')
             /\ Behind(Forwarded', Joined(r)', Sent(LastRank)')
  <2>1. Joined(r)' = Sent(LastRank) + 1 /\ Sent(LastRank)' = Sent(LastRank) + 1
    BY <1>2, <1>5, <1>6, <1>7 DEF LastRank
  <2>2. tokenChan'[r] = <<>>
    BY <1>1, <1>6, <1>7
  <2> DEFINE n == Sent(LastRank) + 1
             F == Forwarded
  <2>3. n \in Int /\ F \subseteq Nat
    BY <1>2, <1>3, Progress
  <2> HIDE DEF n, F
  <2>4. <<>> \in Seq(Nat) /\ DOMAIN <<>> = {}
    OBVIOUS
  <2>5. Link(F, <<>>, n, n) /\ Behind(F, n, n)
    BY <2>3, <2>4 DEF Link, Behind
  <2> QED BY <1>4, <2>1, <2>2, <2>5 DEF n, F
<1>8. ASSUME NEW r \in Rank
      PROVE  pc'[r] = "finish" /\ Applied(r)' # NoBatch => tokens'[r] = Applied(r)'
  BY <1>1, <1>2, <1>3, <1>6 DEF Applied, LastRank
<1>9. ASSUME NEW r \in Rank PROVE TokenInv(r)'
  <2>1. ASSUME r # LastRank
        PROVE  /\ Link(Forwarded, tokenChan[r], Joined(r), Sent(LastRank))'
               /\ Behind(Forwarded, Joined(r), Sent(LastRank))'
    BY <1>7, <2>1 DEF LastRank, Link, Behind
  <2> QED BY <1>1, <1>6, <1>8, <2>1 DEF TokenInv, LastRank
<1>10. ResultsFromLastStage'
  BY <1>0, <1>1 DEF ResultsFromLastStage
<1> QED BY <1>9, <1>10 DEF TokensInOrder

\* process_batch_result: what is applied are the tokens run_batch has left for the batch.
LEMMA TokenFinish ==
  ASSUME TypeOK, SlotsInStep, TokensInOrder, NEW q \in Rank, Finish(q)
  PROVE  TokensInOrder'
<1>1. /\ pc[q] = "finish" /\ pc' = [pc EXCEPT ![q] = "recv"] /\ plan' = plan /\ iter' = iter
      /\ batch' = batch /\ pipeBatch' = pipeBatch /\ tokens' = tokens
      /\ tokenChan' = tokenChan
      /\ done' = IF Applied(q) = NoBatch THEN done
                 ELSE [done EXCEPT ![q] = Append(@, Result(Applied(q), tokens[q]))]
  BY DEF Finish, counters, channels
<1>2. \A r \in Rank : Sent(r)' = Sent(r)
  BY <1>1 DEF Sent, TypeOK
<1>3. \A r \in Rank : pc'[r] = "finish" => pc[r] = "finish"
  BY <1>1 DEF TypeOK
<1>4. ASSUME NoEmptyPrefill PROVE ResultsFromLastStage'
  <2>1. ResultsFromLastStage /\ TokenInv(q)
    BY <1>4 DEF TokensInOrder
  <2>2. CASE Applied(q) = NoBatch
    BY <1>1, <2>1, <2>2 DEF ResultsFromLastStage
  <2>3. CASE Applied(q) # NoBatch
    <3> DEFINE x == Result(Applied(q), tokens[q])
               B == [batch : Nat, tokens : Nat]
    <3>1. x \in B /\ x.tokens = x.batch
      <4>1. tokens[q] = Applied(q)
        BY <1>1, <2>1, <2>3 DEF TokenInv
      <4>2. tokens[q] \in Nat
        BY DEF TypeOK
      <4> QED BY <4>1, <4>2 DEF Result
    <3>2. done[q] \in Seq(B)
      BY DEF TypeOK
    <3>3. done'[q] = Append(done[q], x) /\ \A r \in Rank : r # q => done'[r] = done[r]
      BY <1>1, <2>3 DEF TypeOK
    <3> HIDE DEF x, B
    <3>4. \A i \in DOMAIN done'[q] : done'[q][i] = x \/ (i \in DOMAIN done[q] /\ done'[q][i] = done[q][i])
      BY <3>1, <3>2, <3>3
    <3> QED BY <2>1, <3>1, <3>3, <3>4 DEF ResultsFromLastStage
  <2> QED BY <2>2, <2>3
<1> QED
  BY <1>1, <1>2, <1>3, <1>4, TokenQuiet

\* Before the first iteration nothing is decided, broadcast or applied.
LEMMA InitTokens == Init => TokensInOrder
<1> SUFFICES ASSUME Init, NEW r \in Rank PROVE TokenInv(r)
  <2>1. Init => ResultsFromLastStage
    <3>1. DOMAIN <<>> = {}
      OBVIOUS
    <3> QED BY <3>1 DEF Init, ResultsFromLastStage
  <2> QED BY <2>1 DEF TokensInOrder
<1>1. plan = <<>> /\ tokenChan[r] = <<>> /\ pc[r] = "recv"
  BY DEF Init
<1>2. Len(plan) = 0
  BY <1>1
<1>3. Forwarded = {}
  BY <1>2 DEF Forwarded
<1>4. <<>> \in Seq(Nat) /\ DOMAIN <<>> = {}
  OBVIOUS
<1> QED
  BY <1>1, <1>3, <1>4 DEF TokenInv, Link, Behind

\* Each step of an iteration of one rank keeps the broadcasts in order.
LEMMA RankStepTokens ==
  ASSUME TypeOK, SlotsInStep, SlotsInStep', HiddenInOrder, TokensInOrder,
         NEW q \in Rank, RankStep(q)
  PROVE  TokensInOrder'
<1>1. CASE InputStep(q) \/ ReceiveHidden(q)
  <2>0. ASSUME ReceiveHidden(q)
        PROVE  /\ plan' = plan /\ tokenChan' = tokenChan /\ batch' = batch /\ done' = done
               /\ pipeBatch' = pipeBatch /\ tokens' = tokens /\ iter' = iter
               /\ \A r \in Rank : r # q => pc'[r] = pc[r]
               /\ pc[q] = "hidden" /\ pc'[q] = "tokens"
    BY <2>0 DEF ReceiveHidden, TypeOK, counters
  <2>1. /\ plan' = plan /\ tokenChan' = tokenChan /\ batch' = batch /\ done' = done
        /\ pipeBatch' = pipeBatch /\ tokens' = tokens
        /\ \A r \in Rank : r # q => pc'[r] = pc[r] /\ iter'[r] = iter[r]
    BY <1>1, <2>0, InputFrame
  <2>2. \/ pc[q] = "recv" /\ pc'[q] \in {"decide", "failed"} /\ iter'[q] = iter[q] + 1
        \/ pc[q] = "decide" /\ pc'[q] = "schedule" /\ iter'[q] = iter[q]
        \/ pc[q] = "hidden" /\ pc'[q] = "tokens" /\ iter'[q] = iter[q]
    BY <1>1, <2>0, InputFrame
  <2>3. iter[q] \in Int
    BY Progress
  <2>4. Sent(q)' = Sent(q) /\ pc'[q] # "finish"
    BY <2>2, <2>3 DEF Sent
  <2>5. \A r \in Rank : r # q => Sent(r)' = Sent(r)
    BY <2>1 DEF Sent
  <2>6. NoEmptyPrefill => ResultsFromLastStage'
    BY <2>1 DEF TokensInOrder, ResultsFromLastStage
  <2> QED BY <2>1, <2>4, <2>5, <2>6, TokenQuiet
<1>2. CASE Schedule(q)
  BY <1>2, TokenSchedule
<1>3. CASE SampleAndBroadcast(q)
  BY <1>3, TokenSample
<1>4. CASE JoinBroadcast(q)
  BY <1>4, TokenJoin
<1>5. CASE NoBroadcast(q)
  BY <1>5, TokenNone
<1>6. CASE Finish(q)
  BY <1>6, TokenFinish
<1> QED
  BY <1>1, <1>2, <1>3, <1>4, <1>5, <1>6 DEF RankStep, InputStep

\* With the types, the slots and the hidden states, the order of the broadcasts is
\* inductive.
LEMMA NextTokens ==
  TypeOK /\ SlotsInStep /\ SlotsInStep' /\ HiddenInOrder /\ TokensInOrder /\ [Next]_vars
    => TokensInOrder'
<1> SUFFICES ASSUME TypeOK, SlotsInStep, SlotsInStep', HiddenInOrder, TokensInOrder, [Next]_vars
             PROVE  TokensInOrder'
  OBVIOUS
<1>1. ASSUME NEW q \in Rank, RankStep(q) PROVE TokensInOrder'
  BY <1>1, RankStepTokens
<1>2. CASE BroadcastTogether
  BY <1>2, TokenTogether
<1>3. CASE UNCHANGED vars
  <2>1. /\ plan' = plan /\ tokenChan' = tokenChan /\ done' = done /\ pc' = pc
        /\ batch' = batch /\ pipeBatch' = pipeBatch /\ tokens' = tokens /\ iter' = iter
    BY <1>3 DEF vars, counters, channels
  <2>2. \A r \in Rank : Sent(r)' = Sent(r)
    BY <2>1 DEF Sent
  <2>3. NoEmptyPrefill => ResultsFromLastStage'
    BY <2>1 DEF TokensInOrder, ResultsFromLastStage
  <2> QED BY <2>1, <2>2, <2>3, TokenQuiet
<1> QED
  BY <1>1, <1>2, <1>3 DEF Next, AllStopped

\* For every number of stages and either behaviour of the collective: as long as every
\* batch runs the model, each rank joins each broadcast once, for the batch it waits for.
THEOREM TokensArriveInOrder == Spec => []TokensInOrder
BY InitTokens, NextTokens, TypeCorrect, SlotArithmetic, HiddenArriveInOrder, PTL
   DEF Spec, SafeSpec

\* What every rank applies to a batch are the tokens the last stage sampled from it.
THEOREM OwnTokensApplied == Spec => [](NoEmptyPrefill => ResultsFromLastStage)
<1>1. TokensInOrder => (NoEmptyPrefill => ResultsFromLastStage)
  BY DEF TokensInOrder
<1> QED
  BY <1>1, TokensArriveInOrder, PTL

\* While work is in flight the first stage is never P or more iterations ahead of a rank
\* whose result it still waits for.
THEOREM LeadIsBounded == Spec => [](NoEmptyPrefill => BoundedLead)
<1>1. TypeOK /\ SlotsInStep /\ HiddenInOrder /\ TokensInOrder => (NoEmptyPrefill => BoundedLead)
  <2> SUFFICES ASSUME TypeOK, SlotsInStep, HiddenInOrder, TokensInOrder, NoEmptyPrefill,
                      NEW r \in Rank, iter[0] - iter[r] >= P,
                      NEW b \in BatchId, b \in iter[r] + 1 .. iter[0] - P
               PROVE  plan[b] = "none"
    BY DEF BoundedLead
  <2>1. 0 \in Rank /\ LastRank \in Rank
    BY PAssumption DEF Rank, LastRank
  <2>2. P \in Nat /\ P > 0 /\ b \in Int /\ iter[0] \in Int /\ iter[r] \in Int
    BY <2>1, PAssumption, MaxIterAssumption, Progress DEF BatchId
  <2>3. Joined(0) >= b
    BY <2>2 DEF Joined, Sent
  <2>4. \A q \in Rank : /\ Taken(q) \in Int /\ Sent(q) \in Int /\ Joined(q) \in Int
                        /\ Sent(q) <= Taken(q) /\ Joined(q) <= Sent(q) /\ Taken(q) <= Len(plan)
    BY Progress
  <2>5. b \in 1 .. Len(plan) /\ plan \in Seq(BatchKinds)
    <3>1. Len(plan) \in Nat /\ plan \in Seq(BatchKinds)
      BY DEF TypeOK
    <3> QED BY <2>1, <2>2, <2>3, <2>4, <3>1 DEF BatchId
  <2>6. ASSUME b \in Forwarded PROVE FALSE
    <3>1. b <= Sent(LastRank)
      <4>1. CASE LastRank = 0
        BY <2>1, <2>2, <2>3, <2>4, <4>1
      <4>2. CASE LastRank # 0
        <5>1. Behind(Forwarded, Joined(0), Sent(LastRank))
          BY <2>1, <4>2 DEF TokensInOrder, TokenInv
        <5> QED BY <2>1, <2>2, <2>3, <2>4, <2>6, <5>1 DEF Behind
      <4> QED BY <4>1, <4>2
    <3>2. b <= Sent(r)
      <4>1. CASE r = LastRank
        BY <3>1, <4>1
      <4>2. CASE r # LastRank
        <5>1. r < LastRank
          BY <4>2, PAssumption DEF Rank, LastRank
        <5>2. Behind(Forwarded, Taken(LastRank), Sent(r))
          BY <2>1, <5>1 DEF HiddenInOrder, HiddenInv
        <5>3. b <= Taken(LastRank)
          BY <2>1, <2>2, <2>4, <3>1
        <5> QED BY <2>6, <5>2, <5>3 DEF Behind
      <4> QED BY <4>1, <4>2
    <3>3. Sent(r) <= iter[r]
      BY <2>2 DEF Sent
    <3> QED BY <2>2, <2>4, <3>2, <3>3
  <2>7. plan[b] \in BatchKinds /\ plan[b] # "forward"
    BY <2>5, <2>6 DEF Forwarded
  <2> QED BY <2>7, KindsAssumption DEF NoEmptyPrefill
<1> QED
  BY <1>1, TypeCorrect, SlotArithmetic, HiddenArriveInOrder, TokensArriveInOrder, PTL

-----------------------------------------------------------------------------
\* What has been applied, whatever the batches are.

\* process_batch_result sees every launched batch at most once and in launch order.  That
\* it sees each that is due is part of SlotsInStep.
AppliedInOrder(r) ==
  /\ \A i, j \in DOMAIN done[r] : i < j => done[r][i].batch < done[r][j].batch
  /\ \A i \in DOMAIN done[r] : /\ done[r][i].batch \in 1 .. Len(plan)
                               /\ plan[done[r][i].batch] # "none"
                               /\ done[r][i].batch <= AppliedUpTo(r)

EachOnceInOrder == \A r \in Rank : AppliedInOrder(r)

\* A step that applies nothing.
LEMMA AppliedFrame ==
  ASSUME TypeOK, EachOnceInOrder, NEW kind \in BatchKinds,
         plan' = plan \/ plan' = Append(plan, kind),
         NEW r \in Rank, done'[r] = done[r], AppliedUpTo(r)' = AppliedUpTo(r)
  PROVE  AppliedInOrder(r)'
<1>1. /\ Len(plan) \in Nat /\ Len(plan') \in Nat /\ Len(plan) <= Len(plan')
      /\ \A i \in 1 .. Len(plan) : plan'[i] = plan[i]
  BY PlanGrows
<1>2. AppliedInOrder(r)
  BY DEF EachOnceInOrder
<1>3. ASSUME NEW i \in DOMAIN done[r]
      PROVE  /\ done[r][i].batch \in 1 .. Len(plan') /\ plan'[done[r][i].batch] # "none"
             /\ done[r][i].batch <= AppliedUpTo(r)
  <2>1. /\ done[r][i].batch \in 1 .. Len(plan) /\ plan[done[r][i].batch] # "none"
        /\ done[r][i].batch <= AppliedUpTo(r)
    BY <1>2 DEF AppliedInOrder
  <2> QED BY <1>1, <2>1
<1> QED
  BY <1>2, <1>3 DEF AppliedInOrder

\* process_batch_result appends the batch that is next in launch order.
LEMMA AppliedFinish ==
  ASSUME TypeOK, SlotsInStep, EachOnceInOrder, NEW r \in Rank, Finish(r)
  PROVE  AppliedInOrder(r)'
<1> DEFINE B == [batch : Nat, tokens : Nat]
           x == Result(Applied(r), tokens[r])
<1>1. AppliedInOrder(r) /\ SlotInv(r)
  BY DEF EachOnceInOrder, SlotsInStep
<1>2. /\ r \in Nat /\ r <= P - 1 /\ P \in Nat /\ iter[r] \in Nat /\ Len(plan) \in Nat
      /\ pc[r] = "finish" /\ pc'[r] = "recv" /\ iter' = iter /\ plan' = plan
  <2>1. pc[r] = "finish" /\ pc'[r] = "recv" /\ iter' = iter /\ plan' = plan
    BY DEF Finish, TypeOK, counters
  <2> QED BY <2>1, RankFacts
<1>3. AppliedUpTo(r) \in Int /\ AppliedUpTo(r)' = AppliedUpTo(r) + 1
      /\ AppliedUpTo(r) + 1 = iter[r] - (P - 1 - r)
  BY <1>2 DEF AppliedUpTo
<1>4. Applied(r) = BatchOf(AppliedUpTo(r) + 1)
  <2>1. /\ batch[r] = BatchOf(iter[r])
        /\ r # LastRank => pipeBatch[r] = BatchOf(iter[r] - (P - 1 - r))
    BY <1>1, <1>2 DEF SlotInv, Launching
  <2>2. CASE r = LastRank
    <3>1. iter[r] - (P - 1 - r) = iter[r]
      BY <1>2, <2>2 DEF LastRank
    <3> QED BY <1>3, <2>1, <2>2, <3>1 DEF Applied
  <2>3. CASE r # LastRank
    BY <1>3, <2>1, <2>3 DEF Applied
  <2> QED BY <2>2, <2>3
<1>5. CASE Applied(r) = NoBatch
  <2>1. done'[r] = done[r]
    BY <1>5 DEF Finish
  <2> QED BY <1>1, <1>2, <1>3, <2>1 DEF AppliedInOrder
<1>6. CASE Applied(r) # NoBatch
  <2>1. /\ Applied(r) = AppliedUpTo(r) + 1 /\ Applied(r) \in 1 .. Len(plan)
        /\ plan[Applied(r)] # "none"
    BY <1>4, <1>6 DEF BatchOf
  <2>2. x \in B /\ x.batch = Applied(r)
    <3>1. Applied(r) \in Nat /\ tokens[r] \in Nat
      BY DEF TypeOK, Applied
    <3> QED BY <3>1 DEF Result
  <2>3. done[r] \in Seq(B) /\ done'[r] = Append(done[r], x)
    BY <1>6 DEF Finish, TypeOK
  <2> DEFINE d == done[r]
             e == done'[r]
             a == AppliedUpTo(r)
  <2> HIDE DEF x, B, d, e, a
  <2>4. d \in Seq(B) /\ e = Append(d, x) /\ x \in B
    BY <2>2, <2>3 DEF d, e
  <2>5. \A i \in DOMAIN d : d[i].batch \in 1 .. Len(plan) /\ plan[d[i].batch] # "none" /\ d[i].batch <= a
    BY <1>1 DEF AppliedInOrder, d, a
  <2>6. /\ DOMAIN e = 1 .. Len(d) + 1 /\ DOMAIN d = 1 .. Len(d) /\ Len(d) \in Nat
        /\ e[Len(d) + 1] = x /\ \A i \in 1 .. Len(d) : e[i] = d[i]
    BY <2>4
  <2>7. \A i \in DOMAIN e : i = Len(d) + 1 \/ i \in DOMAIN d
    BY <2>6
  <2>8. ASSUME NEW i \in DOMAIN e
        PROVE  e[i].batch \in 1 .. Len(plan) /\ plan[e[i].batch] # "none" /\ e[i].batch <= a + 1
    <3>1. CASE i = Len(d) + 1
      BY <1>2, <1>3, <2>1, <2>2, <2>6, <3>1 DEF a
    <3>2. CASE i \in DOMAIN d
      <4>1. e[i] = d[i] /\ a \in Int
        BY <1>3, <2>6, <3>2 DEF a
      <4>2. d[i].batch \in 1 .. Len(plan) /\ plan[d[i].batch] # "none" /\ d[i].batch <= a
        BY <2>5, <3>2
      <4> QED BY <1>2, <4>1, <4>2
    <3> QED BY <2>7, <3>1, <3>2
  <2>9. ASSUME NEW i \in DOMAIN e, NEW j \in DOMAIN e, i < j
        PROVE  e[i].batch < e[j].batch
    <3>1. i \in DOMAIN d /\ e[i] = d[i]
      BY <2>6, <2>9
    <3>2. CASE j = Len(d) + 1
      <4>1. e[j].batch = a + 1
        BY <2>1, <2>2, <2>6, <3>2 DEF a
      <4>2. d[i].batch \in 1 .. Len(plan) /\ d[i].batch <= a /\ a \in Int
        BY <1>3, <2>5, <3>1 DEF a
      <4> QED BY <1>2, <3>1, <4>1, <4>2
    <3>3. CASE j \in DOMAIN d
      <4>1. e[j] = d[j]
        BY <2>6, <3>3
      <4>2. d[i].batch < d[j].batch
        BY <1>1, <2>9, <3>1, <3>3 DEF AppliedInOrder, d
      <4> QED BY <3>1, <4>1, <4>2
    <3> QED BY <2>7, <3>2, <3>3
  <2> QED BY <1>2, <1>3, <2>8, <2>9 DEF AppliedInOrder, e, a
<1> QED BY <1>5, <1>6

\* With the types and the slots, the order of the results is inductive.
LEMMA NextApplied ==
  TypeOK /\ SlotsInStep /\ EachOnceInOrder /\ [Next]_vars => EachOnceInOrder'
<1> SUFFICES ASSUME TypeOK, SlotsInStep, EachOnceInOrder, [Next]_vars PROVE EachOnceInOrder'
  OBVIOUS
<1>1. PICK none \in BatchKinds : TRUE
  BY KindsAssumption
<1>2. ASSUME NEW q \in Rank, RankStep(q) PROVE EachOnceInOrder'
  <2>1. iter[q] \in Int
    BY Progress
  <2>2. CASE Finish(q)
    <3>1. /\ plan' = plan /\ iter' = iter
          /\ \A r \in Rank : r # q => pc'[r] = pc[r] /\ done'[r] = done[r]
      BY <2>2 DEF Finish, TypeOK, counters
    <3>2. ASSUME NEW r \in Rank, r # q PROVE AppliedInOrder(r)'
      <4>1. AppliedUpTo(r)' = AppliedUpTo(r)
        BY <3>1, <3>2 DEF AppliedUpTo
      <4> QED BY <1>1, <3>1, <3>2, <4>1, AppliedFrame
    <3> QED BY <2>2, <3>2, AppliedFinish DEF EachOnceInOrder
  <2>3. CASE Schedule(q)
    <3>1. PICK kind \in Choices(iter[q]) : ScheduleAs(q, kind)
      BY <2>3 DEF Schedule
    <3>2. kind \in BatchKinds
      <4>1. iter[q] \in Nat /\ iter[q] > 0 /\ plan \in Seq(BatchKinds)
        BY <2>3, RankFacts DEF Schedule
      <4> QED BY <3>1, <4>1, KindsAssumption DEF Choices
    <3>3. /\ plan' = plan \/ plan' = Append(plan, kind)
          /\ iter' = iter /\ done' = done
      BY <2>3, <3>1 DEF ScheduleAs, Schedule, counters
    <3>4. pc'[q] # "recv"
      <4>1. kind \in {"none", "forward", "empty"}
        BY <3>2, KindsAssumption
      <4>2. pc'[q] = AfterSchedule(q, kind, lastBatch[q][PipeSlot(q)])
        BY <3>1 DEF ScheduleAs, TypeOK
      <4>3. CASE kind = "forward"
        BY <4>2, <4>3 DEF AfterSchedule
      <4>4. CASE kind = "empty"
        BY <4>2, <4>4 DEF AfterSchedule
      <4>5. CASE kind = "none"
        BY <4>2, <4>5 DEF AfterSchedule
      <4> QED BY <4>1, <4>3, <4>4, <4>5
    <3>5. pc[q] = "schedule" /\ \A r \in Rank : r # q => pc'[r] = pc[r]
      BY <2>3, <3>1 DEF ScheduleAs, Schedule, TypeOK
    <3>6. \A r \in Rank : AppliedUpTo(r)' = AppliedUpTo(r)
      BY <3>3, <3>4, <3>5 DEF AppliedUpTo
    <3> QED BY <3>2, <3>3, <3>6, AppliedFrame DEF EachOnceInOrder
  <2>4. CASE InputStep(q)
    <3>1. /\ plan' = plan /\ done' = done
          /\ \A r \in Rank : r # q => pc'[r] = pc[r] /\ iter'[r] = iter[r]
      BY <2>4, InputFrame
    <3>2. \/ pc[q] = "recv" /\ pc'[q] # "recv" /\ iter'[q] = iter[q] + 1
          \/ pc[q] # "recv" /\ pc'[q] # "recv" /\ iter'[q] = iter[q]
      BY <2>4, InputFrame
    <3>3. AppliedUpTo(q)' = AppliedUpTo(q)
      BY <2>1, <3>2 DEF AppliedUpTo
    <3>4. \A r \in Rank : AppliedUpTo(r)' = AppliedUpTo(r)
      BY <3>1, <3>3 DEF AppliedUpTo
    <3> QED BY <1>1, <3>1, <3>4, AppliedFrame DEF EachOnceInOrder
  <2>5. CASE \/ ReceiveHidden(q) \/ SampleAndBroadcast(q) \/ JoinBroadcast(q) \/ NoBroadcast(q)
    <3>1. /\ plan' = plan /\ done' = done /\ iter' = iter
          /\ pc[q] # "recv"
          /\ pc' = [pc EXCEPT ![q] = "tokens"] \/ pc' = [pc EXCEPT ![q] = "finish"]
      BY <2>5 DEF ReceiveHidden, SampleAndBroadcast, JoinBroadcast, NoBroadcast, counters
    <3>2. \A r \in Rank : pc'[r] = "recv" <=> pc[r] = "recv"
      BY <3>1 DEF TypeOK
    <3>3. \A r \in Rank : AppliedUpTo(r)' = AppliedUpTo(r)
      BY <3>1, <3>2 DEF AppliedUpTo
    <3> QED BY <1>1, <3>1, <3>3, AppliedFrame DEF EachOnceInOrder
  <2> QED BY <1>2, <2>2, <2>3, <2>4, <2>5 DEF RankStep, InputStep
<1>3. CASE BroadcastTogether \/ UNCHANGED vars
  <2>1. plan' = plan /\ done' = done /\ iter' = iter /\ \A r \in Rank : pc'[r] = "recv" <=> pc[r] = "recv"
    BY <1>3 DEF BroadcastTogether, vars, counters
  <2>2. \A r \in Rank : AppliedUpTo(r)' = AppliedUpTo(r)
    BY <2>1 DEF AppliedUpTo
  <2> QED BY <1>1, <2>1, <2>2, AppliedFrame DEF EachOnceInOrder
<1> QED
  BY <1>2, <1>3 DEF Next, AllStopped

\* Every rank applies the result of a launched batch once, in launch order, and no result
\* of anything else; with SlotArithmetic, none that is due is missing.
THEOREM ResultsAppliedInOrder == Spec => []EachOnceInOrder
<1>1. Init => EachOnceInOrder
  <2>1. DOMAIN <<>> = {}
    OBVIOUS
  <2> QED BY <2>1 DEF Init, EachOnceInOrder, AppliedInOrder
<1> QED
  BY <1>1, NextApplied, TypeCorrect, SlotArithmetic, PTL DEF Spec, SafeSpec

-----------------------------------------------------------------------------
(* The request channel: the two kinds of messages that share it, and the     *)
(* step counts by which every rank tells which of them comes next.           *)

\* The order of the messages: an iteration's list of requests, then its chunk size.
Key(m) == IF m.kind = "reqs" THEN 2 * m.iter ELSE 2 * m.iter + 1

Keys(c) == [i \in 1 .. Len(c) |-> Key(c[i])]

Due(n) == Strategy # "off" /\ n % SyncPeriod = 0

\* A history of the loop says, for every iteration, the step count with which each rank
\* decides the chunk size, "cnt", and the chunk size with which each schedules, "sz".
\* The messages of the first n iterations, of which "Heard" is the last a rank is past.
Expected(cnt, n) ==
  {k \in Nat : \E i \in 1 .. n : k = 2 * i \/ (k = 2 * i + 1 /\ Due(cnt[i]))}

Heard(r) == IF pc[r] = "decide" THEN 2 * iter[r] ELSE 2 * iter[r] + 1

\* post_step: the count an iteration leaves behind.
After(cnt, i) == IF BatchOf(i) = NoBatch THEN cnt[i] ELSE cnt[i] + 1

\* The state of a rank, and what a message announces, agree with the history.
Follows(cnt, sz, r) ==
  /\ pc[r] # "failed" /\ iter[r] <= iter[0] /\ chunk[r] \in Chunks
  /\ stepCount[r] = IF pc[r] = "recv" THEN After(cnt, iter[r]) ELSE cnt[iter[r]]
  /\ ~(pc[r] = "decide" /\ Due(cnt[iter[r]])) => chunk[r] = sz[iter[r]]

Announces(cnt, sz, m) ==
  /\ m.iter \in 1 .. iter[0]
  /\ m.kind = "chunk" => sz[m.iter] = m.size
  /\ m.kind = "reqs" =>
       /\ cnt[m.iter] = IF m.flush THEN 0 ELSE After(cnt, m.iter - 1)
       /\ ~Due(cnt[m.iter]) =>
            sz[m.iter] = IF m.flush THEN OrigChunk ELSE sz[m.iter - 1]

Pending(r) == {reqChan[r][i] : i \in DOMAIN reqChan[r]}

Delivers(cnt, sz, r) ==
  r # 0 => /\ Link(Expected(cnt, iter[0]), Keys(reqChan[r]), Heard(r), Heard(0))
           /\ Behind(Expected(cnt, iter[0]), Heard(r), Heard(0))
           /\ \A m \in Pending(r) : Announces(cnt, sz, m)

Synced(cnt, sz) ==
  /\ cnt \in [Nat -> Nat] /\ sz \in [Nat -> Chunks]
  /\ \A r \in Rank : Follows(cnt, sz, r) /\ Delivers(cnt, sz, r)

\* All ranks share one history: flush_cache and post_step give every rank the step count
\* rank 0 had in the same iteration, so that all expect the same messages.
InSync == \E cnt, sz : Synced(cnt, sz)

-----------------------------------------------------------------------------
\* Messages and their places in the channel.

\* The keys of a channel's messages are a sequence of numbers.
LEMMA KeysType ==
  ASSUME NEW c \in Seq(Message)
  PROVE  /\ Keys(c) \in Seq(Nat) /\ Len(Keys(c)) = Len(c) /\ Len(c) \in Nat
         /\ \A i \in 1 .. Len(c) : Keys(c)[i] = Key(c[i]) /\ c[i] \in Message
<1>1. \A m \in Message : Key(m) \in Nat
  <2> SUFFICES ASSUME NEW m \in Message PROVE Key(m) \in Nat
    OBVIOUS
  <2>1. m.iter \in Nat
    BY DEF Message
  <2> QED BY <2>1 DEF Key
<1>2. Len(c) \in Nat /\ \A i \in 1 .. Len(c) : c[i] \in Message
  OBVIOUS
<1>3. \A i \in 1 .. Len(c) : Key(c[i]) \in Nat
  BY <1>1, <1>2
<1> QED
  BY <1>2, <1>3 DEF Keys

\* Publishing a message puts its key last.
LEMMA KeysAppend ==
  ASSUME NEW c \in Seq(Message), NEW m \in Message
  PROVE  Keys(Append(c, m)) = Append(Keys(c), Key(m))
<1> DEFINE d == Append(c, m)
           k == Append(Keys(c), Key(m))
<1>1. d \in Seq(Message) /\ Len(d) = Len(c) + 1 /\ Len(c) \in Nat
      /\ d[Len(c) + 1] = m /\ \A i \in 1 .. Len(c) : d[i] = c[i]
  OBVIOUS
<1>2. Keys(c) \in Seq(Nat) /\ Len(Keys(c)) = Len(c) /\ \A i \in 1 .. Len(c) : Keys(c)[i] = Key(c[i])
  BY KeysType
<1>3. Key(m) \in Nat
  <2>1. m.iter \in Nat
    BY DEF Message
  <2> QED BY <2>1 DEF Key
<1>4. k \in Seq(Nat) /\ Len(k) = Len(c) + 1 /\ k[Len(c) + 1] = Key(m)
      /\ \A i \in 1 .. Len(c) : k[i] = Key(c[i])
  BY <1>1, <1>2, <1>3
<1>5. Keys(d) \in Seq(Nat) /\ Len(Keys(d)) = Len(d) /\ \A i \in 1 .. Len(d) : Keys(d)[i] = Key(d[i])
  BY <1>1, KeysType
<1> HIDE DEF d, k
<1>6. \A i \in 1 .. Len(c) + 1 : Keys(d)[i] = k[i]
  <2> SUFFICES ASSUME NEW i \in 1 .. Len(c) + 1 PROVE Keys(d)[i] = k[i]
    OBVIOUS
  <2>1. CASE i = Len(c) + 1
    BY <1>1, <1>4, <1>5, <2>1
  <2>2. CASE i # Len(c) + 1
    <3>1. i \in 1 .. Len(c)
      BY <1>1, <2>2
    <3> QED BY <1>1, <1>4, <1>5, <3>1
  <2> QED BY <2>1, <2>2
<1>7. Keys(d) = k
  BY <1>1, <1>4, <1>5, <1>6
<1> QED BY <1>7 DEF d, k

\* Receiving one takes the first.
LEMMA KeysTail ==
  ASSUME NEW c \in Seq(Message), c # <<>>
  PROVE  /\ Keys(c) # <<>> /\ Head(Keys(c)) = Key(Head(c)) /\ Head(c) \in Message
         /\ Keys(Tail(c)) = Tail(Keys(c)) /\ Head(c) = c[1] /\ 1 \in DOMAIN c
         /\ \A i \in DOMAIN Tail(c) : i + 1 \in DOMAIN c /\ Tail(c)[i] = c[i + 1]
<1> DEFINE d == Tail(c)
           k == Tail(Keys(c))
<1>1. d \in Seq(Message) /\ Len(d) = Len(c) - 1 /\ Len(c) \in Nat /\ Len(c) > 0
      /\ Head(c) = c[1] /\ Head(c) \in Message
      /\ \A i \in 1 .. Len(c) - 1 : d[i] = c[i + 1]
  OBVIOUS
<1>2. Keys(c) \in Seq(Nat) /\ Len(Keys(c)) = Len(c) /\ \A i \in 1 .. Len(c) : Keys(c)[i] = Key(c[i])
  BY KeysType
<1>3. Keys(c) # <<>> /\ Head(Keys(c)) = Keys(c)[1]
  BY <1>1, <1>2
<1>4. k \in Seq(Nat) /\ Len(k) = Len(c) - 1 /\ \A i \in 1 .. Len(c) - 1 : k[i] = Keys(c)[i + 1]
  BY <1>1, <1>2, <1>3
<1>5. Keys(d) \in Seq(Nat) /\ Len(Keys(d)) = Len(d) /\ \A i \in 1 .. Len(d) : Keys(d)[i] = Key(d[i])
  BY <1>1, KeysType
<1>6. DOMAIN d = 1 .. Len(c) - 1 /\ DOMAIN c = 1 .. Len(c)
  BY <1>1
<1> HIDE DEF d, k
<1>7. \A i \in 1 .. Len(c) - 1 : i + 1 \in 1 .. Len(c) /\ Keys(d)[i] = k[i]
  <2> SUFFICES ASSUME NEW i \in 1 .. Len(c) - 1 PROVE i + 1 \in 1 .. Len(c) /\ Keys(d)[i] = k[i]
    OBVIOUS
  <2>1. i + 1 \in 1 .. Len(c)
    BY <1>1
  <2>2. Keys(d)[i] = Key(c[i + 1])
    BY <1>1, <1>5
  <2>3. k[i] = Key(c[i + 1])
    BY <1>2, <1>4, <2>1
  <2> QED BY <2>1, <2>2, <2>3
<1>8. Keys(d) = k
  <2>1. Len(Keys(d)) = Len(k) /\ Len(k) = Len(c) - 1
    BY <1>1, <1>4, <1>5
  <2>2. \A i \in 1 .. Len(k) : Keys(d)[i] = k[i]
    BY <1>7, <2>1
  <2>3. /\ Keys(d) = [i \in 1 .. Len(Keys(d)) |-> Keys(d)[i]]
        /\ k = [i \in 1 .. Len(k) |-> k[i]]
    BY <1>4, <1>5
  <2> QED BY <2>1, <2>2, <2>3
<1>9. 1 \in 1 .. Len(c)
  BY <1>1
<1> QED
  BY <1>1, <1>2, <1>3, <1>6, <1>7, <1>8, <1>9 DEF d, k

-----------------------------------------------------------------------------
\* The messages of the first n iterations.

\* Requests come in every iteration, a chunk size in those whose step count asks for one.
LEMMA ExpectedKeys ==
  ASSUME NEW cnt, NEW n \in Nat
  PROVE  /\ Expected(cnt, n) \subseteq Nat
         /\ \A k \in Expected(cnt, n) : 2 <= k /\ k <= 2 * n + 1
         /\ \A i \in 1 .. n : /\ 2 * i \in Expected(cnt, n)
                              /\ 2 * i + 1 \in Expected(cnt, n) <=> Due(cnt[i])
<1>1. Expected(cnt, n) \subseteq Nat
  BY DEF Expected
<1>2. ASSUME NEW k \in Expected(cnt, n) PROVE 2 <= k /\ k <= 2 * n + 1
  <2>1. PICK i \in 1 .. n : k = 2 * i \/ k = 2 * i + 1
    BY DEF Expected
  <2> QED BY <2>1
<1>3. ASSUME NEW i \in 1 .. n PROVE 2 * i \in Expected(cnt, n)
  <2>1. 2 * i \in Nat
    OBVIOUS
  <2> QED BY <2>1 DEF Expected
<1>4. ASSUME NEW i \in 1 .. n, Due(cnt[i]) PROVE 2 * i + 1 \in Expected(cnt, n)
  <2>1. 2 * i + 1 \in Nat
    OBVIOUS
  <2> QED BY <1>4, <2>1 DEF Expected
<1>5. ASSUME NEW i \in 1 .. n, 2 * i + 1 \in Expected(cnt, n) PROVE Due(cnt[i])
  <2>1. PICK j \in 1 .. n : 2 * i + 1 = 2 * j \/ (2 * i + 1 = 2 * j + 1 /\ Due(cnt[j]))
    BY <1>5 DEF Expected
  <2>2. i = j
    BY <2>1
  <2> QED BY <2>1, <2>2
<1> QED BY <1>1, <1>2, <1>3, <1>4, <1>5

\* A history that is extended by iteration n + 1 expects the same of the first n, and
\* nothing new that could have been heard already.
LEMMA ExpectedGrows ==
  ASSUME NEW cnt, NEW cnt2, NEW n \in Nat, \A i \in 1 .. n : cnt2[i] = cnt[i]
  PROVE  /\ Expected(cnt, n) \subseteq Expected(cnt2, n + 1)
         /\ \A k \in Expected(cnt2, n + 1) : k \notin Expected(cnt, n) => 2 * n + 1 < k
         /\ Expected(cnt2, n) = Expected(cnt, n)
<1>1. ASSUME NEW k \in Expected(cnt, n) PROVE k \in Expected(cnt2, n + 1)
  <2>1. PICK i \in 1 .. n : k = 2 * i \/ (k = 2 * i + 1 /\ Due(cnt[i]))
    BY DEF Expected
  <2>2. i \in 1 .. n + 1 /\ cnt2[i] = cnt[i] /\ k \in Nat
    BY DEF Expected
  <2> QED BY <2>1, <2>2 DEF Expected
<1>2. ASSUME NEW k \in Expected(cnt2, n + 1), k \notin Expected(cnt, n) PROVE 2 * n + 1 < k
  <2>1. PICK i \in 1 .. n + 1 : k = 2 * i \/ (k = 2 * i + 1 /\ Due(cnt2[i]))
    BY DEF Expected
  <2>2. CASE i = n + 1
    BY <2>1, <2>2
  <2>3. CASE i # n + 1
    <3>1. i \in 1 .. n /\ cnt2[i] = cnt[i] /\ k \in Nat
      BY <2>3 DEF Expected
    <3> QED BY <1>2, <2>1, <3>1 DEF Expected
  <2> QED BY <2>2, <2>3
<1>3. Expected(cnt2, n) = Expected(cnt, n)
  BY DEF Expected
<1> QED BY <1>1, <1>2, <1>3

-----------------------------------------------------------------------------
\* What the steps leave alone.

\* No rank is ahead of rank 0, which is at most one iteration ahead of its decisions.
LEMMA SyncFacts ==
  ASSUME TypeOK, SlotsInStep, NEW cnt, NEW sz, Synced(cnt, sz), NEW r \in Rank
  PROVE  /\ 0 \in Rank /\ iter[r] \in Nat /\ iter[0] \in Nat /\ iter[r] <= iter[0]
         /\ Len(plan) \in Nat /\ iter[0] <= Len(plan) + 1
         /\ pc[r] = "recv" => iter[r] <= Len(plan)
         /\ pc[r] # "recv" => iter[r] > 0
         /\ Heard(r) \in Nat
         /\ reqChan[r] \in Seq(Message)
<1>1. 0 \in Rank
  BY PAssumption DEF Rank
<1>2. /\ iter[r] \in Nat /\ iter[0] \in Nat /\ Len(plan) \in Nat /\ reqChan[r] \in Seq(Message)
      /\ pc[r] # "recv" => iter[r] > 0
  <2>1. reqChan[r] \in Seq(Message)
    BY DEF TypeOK
  <2>2. /\ iter[r] \in Nat /\ Len(plan) \in Nat /\ (pc[r] # "recv" => iter[r] > 0)
        /\ iter[0] \in Nat
    BY <1>1, RankFacts
  <2> QED BY <2>1, <2>2
<1>3. \A q \in Rank : iter[q] <= (IF pc[q] = "recv" \/ Launching(q) THEN Len(plan) ELSE Len(plan) + 1)
  BY DEF SlotsInStep, SlotInv
<1>4. iter[0] <= Len(plan) + 1 /\ (pc[r] = "recv" => iter[r] <= Len(plan))
  <2>1. iter[0] <= (IF pc[0] = "recv" \/ Launching(0) THEN Len(plan) ELSE Len(plan) + 1)
    BY <1>1, <1>3
  <2> QED BY <1>2, <1>3, <2>1
<1>5. iter[r] <= iter[0]
  BY DEF Synced, Follows
<1>6. Heard(r) \in Nat
  BY <1>2 DEF Heard
<1> QED BY <1>1, <1>2, <1>4, <1>5, <1>6

\* A rank that keeps its step count and chunk size still follows the history, also when a
\* later iteration is added to it.
LEMMA FollowsFrame ==
  ASSUME TypeOK, SlotsInStep, NEW cnt, NEW sz, Synced(cnt, sz), NEW cnt2, NEW sz2,
         NEW kind \in BatchKinds, plan' = plan \/ plan' = Append(plan, kind),
         NEW r \in Rank, iter'[r] = iter[r], iter[0] <= iter'[0], iter'[0] \in Nat,
         stepCount'[r] = stepCount[r], chunk'[r] = chunk[r], pc'[r] # "failed",
         pc'[r] = "recv" <=> pc[r] = "recv", pc'[r] = "decide" <=> pc[r] = "decide",
         cnt2[iter[r]] = cnt[iter[r]],
         sz2[iter[r]] = sz[iter[r]] \/ (pc[r] = "decide" /\ Due(cnt[iter[r]]))
  PROVE  Follows(cnt2, sz2, r)'
<1>1. Follows(cnt, sz, r)
  BY DEF Synced
<1>2. iter[r] \in Nat /\ iter[0] \in Nat /\ (pc[r] = "recv" => iter[r] <= Len(plan))
  BY SyncFacts
<1>3. pc[r] = "recv" => After(cnt2, iter[r])' = After(cnt, iter[r])
  <2>1. pc[r] = "recv" => BatchOf(iter[r])' = BatchOf(iter[r])
    <3>1. \A i \in Int : i <= Len(plan) => BatchOf(i)' = BatchOf(i)
      BY PlanGrows
    <3> QED BY <1>2, <3>1 DEF BatchOf
  <2> QED BY <2>1 DEF After
<1>4. iter'[r] <= iter'[0]
  BY <1>1, <1>2 DEF Follows
<1>5. stepCount'[r] = IF pc'[r] = "recv" THEN After(cnt2, iter[r])' ELSE cnt2[iter'[r]]
  BY <1>1, <1>3 DEF Follows
<1>6. ~(pc'[r] = "decide" /\ Due(cnt2[iter'[r]])) => chunk'[r] = sz2[iter'[r]]
  BY <1>1 DEF Follows
<1>7. chunk'[r] \in Chunks
  BY <1>1 DEF Follows
<1> QED BY <1>4, <1>5, <1>6, <1>7 DEF Follows

\* A message on its way stays true of the history.
LEMMA AnnouncesFrame ==
  ASSUME TypeOK, SlotsInStep, NEW cnt, NEW sz, Synced(cnt, sz), NEW cnt2, NEW sz2,
         NEW kind \in BatchKinds, plan' = plan \/ plan' = Append(plan, kind),
         iter[0] <= iter'[0], iter'[0] \in Nat,
         NEW m \in Message, Announces(cnt, sz, m),
         \A i \in 0 .. iter[0] : cnt2[i] = cnt[i],
         \A i \in 0 .. iter[0] - 1 : sz2[i] = sz[i],
         sz2[m.iter] = sz[m.iter] \/ (m.kind = "reqs" /\ Due(cnt[m.iter]))
  PROVE  Announces(cnt2, sz2, m)'
<1>1. 0 \in Rank
  BY PAssumption DEF Rank
<1>2. iter[0] \in Nat /\ Len(plan) \in Nat /\ iter[0] <= Len(plan) + 1
  BY <1>1, SyncFacts
<1>3. m.iter \in 1 .. iter[0]
  BY DEF Announces
<1>4. /\ m.iter - 1 \in 0 .. iter[0] - 1 /\ m.iter - 1 \in 0 .. iter[0]
      /\ m.iter \in 0 .. iter[0] /\ m.iter \in 1 .. iter'[0] /\ m.iter - 1 \in Int
      /\ m.iter - 1 <= Len(plan)
  BY <1>2, <1>3
<1>5. /\ cnt2[m.iter] = cnt[m.iter] /\ cnt2[m.iter - 1] = cnt[m.iter - 1]
      /\ sz2[m.iter - 1] = sz[m.iter - 1]
  BY <1>4
<1>6. After(cnt2, m.iter - 1)' = After(cnt, m.iter - 1)
  <2>1. BatchOf(m.iter - 1)' = BatchOf(m.iter - 1)
    BY <1>4, PlanGrows
  <2> QED BY <1>5, <2>1 DEF After
<1>7. m.kind = "chunk" => sz2[m.iter] = m.size
  BY DEF Announces, Message
<1>8. m.kind = "reqs" =>
        /\ cnt2[m.iter] = IF m.flush THEN 0 ELSE After(cnt, m.iter - 1)
        /\ ~Due(cnt2[m.iter]) => sz2[m.iter] = IF m.flush THEN OrigChunk ELSE sz2[m.iter - 1]
  BY <1>5 DEF Announces
<1> QED BY <1>4, <1>6, <1>7, <1>8 DEF Announces

-----------------------------------------------------------------------------
\* The steps of the loop.

\* A link whose messages stay, while its ends pass iterations that have no message.
LEMMA DeliversPass ==
  ASSUME TypeOK, SlotsInStep, NEW cnt, NEW sz, Synced(cnt, sz),
         NEW kind \in BatchKinds, plan' = plan \/ plan' = Append(plan, kind),
         NEW r \in Rank, r # 0, iter'[0] = iter[0], reqChan'[r] = reqChan[r],
         Heard(r)' \in Nat, Heard(0)' \in Nat,
         Passes(Expected(cnt, iter[0]), Heard(r), Heard(r)'),
         Passes(Expected(cnt, iter[0]), Heard(0), Heard(0)')
  PROVE  Delivers(cnt, sz, r)'
<1>1. 0 \in Rank
  BY PAssumption DEF Rank
<1>2. iter[0] \in Nat /\ Heard(r) \in Nat /\ Heard(0) \in Nat /\ reqChan[r] \in Seq(Message)
  BY <1>1, SyncFacts
<1>3. /\ Link(Expected(cnt, iter[0]), Keys(reqChan[r]), Heard(r), Heard(0))
      /\ Behind(Expected(cnt, iter[0]), Heard(r), Heard(0))
      /\ \A m \in Pending(r) : Announces(cnt, sz, m)
  BY DEF Synced, Delivers
<1>4. /\ Link(Expected(cnt, iter[0]), Keys(reqChan[r]), Heard(r), Heard(0))'
      /\ Behind(Expected(cnt, iter[0]), Heard(r), Heard(0))'
  <2> DEFINE F == Expected(cnt, iter[0])
             lo == Heard(r)   loNext == Heard(r)'
             hi == Heard(0)   hiNext == Heard(0)'
             c == Keys(reqChan[r])
  <2>1. /\ Link(F, c, lo, hi) /\ Behind(F, lo, hi)
        /\ Passes(F, lo, loNext) /\ Passes(F, hi, hiNext)
        /\ lo \in Int /\ hi \in Int /\ loNext \in Int /\ hiNext \in Int
    BY <1>2, <1>3
  <2>2. F \subseteq Nat
    BY <1>2, ExpectedKeys
  <2>3. Expected(cnt, iter[0])' = F /\ Keys(reqChan[r])' = c
    BY DEF Expected, Keys
  <2> HIDE DEF F, lo, loNext, hi, hiNext, c
  <2>4. F \subseteq F /\ (\A b \in F : b \notin F => hi < b)
    OBVIOUS
  <2>5. Link(F, c, loNext, hiNext)
    BY <2>1, <2>2, <2>4, LinkPass
  <2>6. Behind(F, loNext, hiNext)
    <3> SUFFICES ASSUME NEW b \in F, b <= loNext PROVE b <= hiNext
      BY DEF Behind
    <3>1. b \in Int /\ b <= lo
      BY <2>1, <2>2 DEF Passes
    <3>2. b <= hi
      BY <2>1, <3>1 DEF Behind
    <3> QED BY <2>1, <3>1, <3>2 DEF Passes
  <2> QED BY <2>3, <2>5, <2>6 DEF loNext, hiNext, Link, Behind
<1>5. Pending(r)' = Pending(r) /\ Pending(r) \subseteq Message
  BY <1>2 DEF Pending
<1>6. ASSUME NEW m \in Pending(r) PROVE Announces(cnt, sz, m)'
  BY <1>2, <1>3, <1>5, AnnouncesFrame
<1> QED BY <1>4, <1>5, <1>6 DEF Delivers

\* The steps that neither begin nor end an iteration nor settle its chunk size.
LEMMA SyncQuiet ==
  ASSUME TypeOK, SlotsInStep, NEW cnt, NEW sz, Synced(cnt, sz),
         NEW kind \in BatchKinds, plan' = plan \/ plan' = Append(plan, kind),
         UNCHANGED <<iter, stepCount, chunk, reqChan>>,
         \A r \in Rank : /\ pc'[r] # "failed" /\ (pc'[r] = "recv" <=> pc[r] = "recv")
                         /\ pc'[r] = "decide" <=> pc[r] = "decide"
  PROVE  Synced(cnt, sz)'
<1>1. 0 \in Rank
  BY PAssumption DEF Rank
<1>2. cnt \in [Nat -> Nat] /\ sz \in [Nat -> Chunks]
  BY DEF Synced
<1>3. iter[0] \in Nat
  BY <1>1, SyncFacts
<1>4. ASSUME NEW r \in Rank PROVE Follows(cnt, sz, r)'
  BY <1>3, FollowsFrame
<1>5. \A r \in Rank : Heard(r)' = Heard(r) /\ Heard(r) \in Nat
  <2>1. \A r \in Rank : Heard(r) \in Nat
    BY SyncFacts
  <2> QED BY <2>1 DEF Heard
<1>6. ASSUME NEW r \in Rank, r # 0 PROVE Delivers(cnt, sz, r)'
  <2>1. /\ Passes(Expected(cnt, iter[0]), Heard(r), Heard(r)')
        /\ Passes(Expected(cnt, iter[0]), Heard(0), Heard(0)')
    BY <1>1, <1>5 DEF Passes
  <2> QED BY <1>1, <1>5, <1>6, <2>1, DeliversPass
<1> QED
  BY <1>2, <1>4, <1>6 DEF Synced, Delivers

\* post_step: a rank's step count grows as the history says, for it ran the batch all ran.
LEMMA SyncFinish ==
  ASSUME TypeOK, SlotsInStep, NEW cnt, NEW sz, Synced(cnt, sz), NEW q \in Rank, Finish(q)
  PROVE  Synced(cnt, sz)'
<1>1. 0 \in Rank /\ cnt \in [Nat -> Nat] /\ sz \in [Nat -> Chunks]
  BY PAssumption DEF Rank, Synced
<1>2. PICK none \in BatchKinds : TRUE
  BY KindsAssumption
<1>3. /\ pc[q] = "finish" /\ pc'[q] = "recv" /\ plan' = plan /\ iter' = iter
      /\ chunk' = chunk /\ reqChan' = reqChan
      /\ stepCount'[q] = IF batch[q] = NoBatch THEN stepCount[q] ELSE stepCount[q] + 1
      /\ \A r \in Rank : r # q => pc'[r] = pc[r] /\ stepCount'[r] = stepCount[r]
  BY DEF Finish, PostStep, TypeOK, counters, channels
<1>4. \A r \in Rank : Heard(r)' = Heard(r) /\ Heard(r) \in Nat
  <2>1. \A r \in Rank : Heard(r) \in Nat
    BY SyncFacts
  <2> QED BY <1>3, <2>1 DEF Heard
<1>5. iter[0] \in Nat /\ \A r \in Rank : Follows(cnt, sz, r)
  BY <1>1, SyncFacts DEF Synced
<1>6. ASSUME NEW r \in Rank PROVE Follows(cnt, sz, r)'
  <2>1. CASE r = q
    <3>1. batch[q] = BatchOf(iter[q])
      BY <1>3 DEF SlotsInStep, SlotInv, Launching
    <3>2. stepCount'[q] = After(cnt, iter[q])
      BY <1>3, <1>5, <3>1 DEF Follows, After
    <3>3. After(cnt, iter[q])' = After(cnt, iter[q])
      BY <1>3 DEF After, BatchOf
    <3> QED BY <1>3, <1>5, <2>1, <3>2, <3>3 DEF Follows
  <2>2. CASE r # q
    <3>1. pc[r] # "failed"
      BY <1>5 DEF Follows
    <3> QED BY <1>2, <1>3, <1>5, <2>2, <3>1, FollowsFrame
  <2> QED BY <2>1, <2>2
<1>7. ASSUME NEW r \in Rank, r # 0 PROVE Delivers(cnt, sz, r)'
  <2>1. /\ Passes(Expected(cnt, iter[0]), Heard(r), Heard(r)')
        /\ Passes(Expected(cnt, iter[0]), Heard(0), Heard(0)')
    BY <1>1, <1>4 DEF Passes
  <2> QED BY <1>1, <1>2, <1>3, <1>4, <1>7, <2>1, DeliversPass
<1> QED
  BY <1>1, <1>6, <1>7 DEF Synced, Delivers

\* Without a chunk size to agree on, the rank schedules with the one it has.
LEMMA SyncSkip ==
  ASSUME TypeOK, SlotsInStep, NEW cnt, NEW sz, Synced(cnt, sz), NEW q \in Rank,
         SkipChunkSync(q)
  PROVE  Synced(cnt, sz)'
<1>1. 0 \in Rank /\ cnt \in [Nat -> Nat] /\ sz \in [Nat -> Chunks]
  BY PAssumption DEF Rank, Synced
<1>2. PICK none \in BatchKinds : TRUE
  BY KindsAssumption
<1>3. /\ pc[q] = "decide" /\ pc'[q] = "schedule" /\ plan' = plan /\ iter' = iter
      /\ chunk' = chunk /\ reqChan' = reqChan /\ stepCount' = stepCount /\ ~Due(stepCount[q])
      /\ \A r \in Rank : r # q => pc'[r] = pc[r]
  BY DEF SkipChunkSync, SyncDue, Due, TypeOK, counters, control, channels
<1>4. \A r \in Rank : Follows(cnt, sz, r) /\ Heard(r) \in Nat
  BY SyncFacts DEF Synced
<1>5. iter[0] \in Nat /\ iter[q] \in Nat /\ iter[q] > 0 /\ iter[q] <= iter[0]
  BY <1>1, <1>3, SyncFacts
<1>6. stepCount[q] = cnt[iter[q]] /\ ~Due(cnt[iter[q]])
  BY <1>3, <1>4 DEF Follows
<1>7. ASSUME NEW r \in Rank PROVE Follows(cnt, sz, r)'
  <2>1. CASE r = q
    BY <1>3, <1>4, <1>6, <2>1 DEF Follows
  <2>2. CASE r # q
    <3>1. pc[r] # "failed"
      BY <1>4 DEF Follows
    <3> QED BY <1>2, <1>3, <1>5, <2>2, <3>1, FollowsFrame
  <2> QED BY <2>1, <2>2
<1>8. ASSUME NEW r \in Rank
      PROVE  Heard(r)' \in Nat /\ Passes(Expected(cnt, iter[0]), Heard(r), Heard(r)')
  <2>1. CASE r = q
    <3>1. Heard(q) = 2 * iter[q] /\ Heard(q)' = 2 * iter[q] + 1
      BY <1>3 DEF Heard
    <3>2. 2 * iter[q] + 1 \notin Expected(cnt, iter[0])
      <4>1. iter[q] \in 1 .. iter[0]
        BY <1>5
      <4> QED BY <1>5, <1>6, <4>1, ExpectedKeys
    <3> QED BY <1>5, <2>1, <3>1, <3>2 DEF Passes
  <2>2. CASE r # q
    BY <1>3, <1>4, <2>2 DEF Heard, Passes
  <2> QED BY <2>1, <2>2
<1>9. ASSUME NEW r \in Rank, r # 0 PROVE Delivers(cnt, sz, r)'
  <2>1. /\ Heard(r)' \in Nat /\ Passes(Expected(cnt, iter[0]), Heard(r), Heard(r)')
        /\ Heard(0)' \in Nat /\ Passes(Expected(cnt, iter[0]), Heard(0), Heard(0)')
    BY <1>1, <1>8
  <2> QED BY <1>2, <1>3, <1>9, <2>1, DeliversPass
<1> QED
  BY <1>1, <1>7, <1>9 DEF Synced, Delivers

\* The blocking receive: whichever kind of message is due is the one that comes.
LEMMA FirstMessage ==
  ASSUME TypeOK, SlotsInStep, NEW cnt, NEW sz, Synced(cnt, sz), NEW q \in Rank, q # 0,
         reqChan[q] # <<>>,
         pc[q] = "recv" \/ (pc[q] = "decide" /\ Due(cnt[iter[q]]))
  PROVE  LET m == Head(reqChan[q]) IN
         /\ m \in Message /\ Key(m) = Heard(q) + 1 /\ Announces(cnt, sz, m)
         /\ IF pc[q] = "recv" THEN m.kind = "reqs" /\ m.iter = iter[q] + 1
                              ELSE m.kind = "chunk" /\ m.iter = iter[q]
         /\ iter[q] + (IF pc[q] = "recv" THEN 1 ELSE 0) <= iter[0]
         /\ Link(Expected(cnt, iter[0]), Keys(Tail(reqChan[q])), Heard(q) + 1, Heard(0))
         /\ Behind(Expected(cnt, iter[0]), Heard(q) + 1, Heard(0))
<1>1. 0 \in Rank
  BY PAssumption DEF Rank
<1>2. /\ iter[0] \in Nat /\ iter[q] \in Nat /\ Heard(q) \in Nat /\ Heard(0) \in Nat
      /\ iter[q] <= iter[0] /\ reqChan[q] \in Seq(Message) /\ (pc[q] # "recv" => iter[q] > 0)
  BY <1>1, SyncFacts
<1>3. /\ Link(Expected(cnt, iter[0]), Keys(reqChan[q]), Heard(q), Heard(0))
      /\ Behind(Expected(cnt, iter[0]), Heard(q), Heard(0))
      /\ \A m \in Pending(q) : Announces(cnt, sz, m)
  BY DEF Synced, Delivers
<1>4. /\ Keys(reqChan[q]) # <<>> /\ Head(Keys(reqChan[q])) = Key(Head(reqChan[q]))
      /\ Keys(Tail(reqChan[q])) = Tail(Keys(reqChan[q]))
      /\ Head(reqChan[q]) \in Message /\ Head(reqChan[q]) \in Pending(q)
  BY <1>2, KeysTail DEF Pending
<1>5. Expected(cnt, iter[0]) \subseteq Nat
      /\ \A k \in Expected(cnt, iter[0]) : 2 <= k /\ k <= 2 * iter[0] + 1
  BY <1>2, ExpectedKeys
<1>6. Heard(q) + 1 \in Expected(cnt, iter[0])
      /\ iter[q] + (IF pc[q] = "recv" THEN 1 ELSE 0) <= iter[0]
  <2>1. CASE pc[q] = "recv"
    <3>1. Heard(q) = 2 * iter[q] + 1
      BY <2>1 DEF Heard
    <3>2. /\ Keys(reqChan[q])[1] \in Expected(cnt, iter[0])
          /\ Heard(q) < Keys(reqChan[q])[1]
      <4>1. 1 \in DOMAIN Keys(reqChan[q])
        <5>1. Keys(reqChan[q]) \in Seq(Nat)
          BY <1>3 DEF Link
        <5> QED BY <1>4, <5>1
      <4> QED BY <1>3, <4>1 DEF Link
    <3>3. iter[q] + 1 <= iter[0]
      <4> DEFINE k == Keys(reqChan[q])[1]
      <4>1. k \in Int /\ k <= 2 * iter[0] + 1 /\ 2 * iter[q] + 1 < k
        BY <1>5, <3>1, <3>2
      <4> HIDE DEF k
      <4> QED BY <1>2, <4>1
    <3>4. iter[q] + 1 \in 1 .. iter[0] /\ Heard(q) + 1 = 2 * (iter[q] + 1)
      <4> DEFINE n == iter[q]   n0 == iter[0]   h == Heard(q)
      <4>1. n \in Nat /\ n0 \in Nat /\ h = 2 * n + 1 /\ n + 1 <= n0
        BY <1>2, <3>1, <3>3
      <4> HIDE DEF n, n0, h
      <4>2. n + 1 \in 1 .. n0 /\ h + 1 = 2 * (n + 1)
        BY <4>1
      <4> QED BY <4>2 DEF n, n0, h
    <3> QED BY <1>2, <2>1, <3>3, <3>4, ExpectedKeys
  <2>2. CASE pc[q] # "recv"
    <3>1. Heard(q) + 1 = 2 * iter[q] + 1 /\ iter[q] \in 1 .. iter[0] /\ Due(cnt[iter[q]])
      BY <1>2, <2>2 DEF Heard
    <3> QED BY <1>2, <2>2, <3>1, ExpectedKeys
  <2> QED BY <2>1, <2>2
<1>7. /\ Key(Head(reqChan[q])) = Heard(q) + 1 /\ Heard(q) + 1 <= Heard(0)
      /\ Link(Expected(cnt, iter[0]), Keys(Tail(reqChan[q])), Heard(q) + 1, Heard(0))
  <2> DEFINE F == Expected(cnt, iter[0])
             lo == Heard(q)
             hi == Heard(0)
             c == Keys(reqChan[q])
  <2>1. /\ F \subseteq Nat /\ lo \in Int /\ hi \in Int /\ Link(F, c, lo, hi)
        /\ lo + 1 \in F /\ c # <<>>
    BY <1>2, <1>3, <1>4, <1>5, <1>6
  <2> HIDE DEF F, lo, hi, c
  <2>2. Head(c) = lo + 1 /\ lo + 1 <= hi /\ Link(F, Tail(c), lo + 1, hi)
    BY <2>1, LinkTake
  <2> QED BY <1>4, <2>2 DEF F, lo, hi, c
<1>8. Behind(Expected(cnt, iter[0]), Heard(q) + 1, Heard(0))
  BY <1>2, <1>5, <1>7 DEF Behind
<1>9. LET m == Head(reqChan[q]) IN
      IF pc[q] = "recv" THEN m.kind = "reqs" /\ m.iter = iter[q] + 1
                        ELSE m.kind = "chunk" /\ m.iter = iter[q]
  <2>1. PICK m \in Message : m = Head(reqChan[q])
    BY <1>4
  <2>2. m.kind \in {"reqs", "chunk"} /\ m.iter \in Nat
    BY DEF Message
  <2>3. Key(m) = Heard(q) + 1
    BY <1>7, <2>1
  <2>4. CASE pc[q] = "recv"
    <3>1. Heard(q) + 1 = 2 * iter[q] + 2
      BY <1>2, <2>4 DEF Heard
    <3> DEFINE i == m.iter
               j == iter[q]
    <3>2. i \in Nat /\ j \in Nat /\ Heard(q) + 1 = 2 * j + 2
      BY <1>2, <2>2, <3>1
    <3>3. Key(m) = IF m.kind = "reqs" THEN 2 * i ELSE 2 * i + 1
      BY DEF Key
    <3> HIDE DEF i, j
    <3>4. m.kind = "reqs" /\ i = j + 1
      BY <2>3, <3>2, <3>3
    <3> QED BY <2>1, <2>4, <3>4 DEF i, j
  <2>5. CASE pc[q] # "recv"
    <3>1. Heard(q) + 1 = 2 * iter[q] + 1
      BY <1>2, <2>5 DEF Heard
    <3> DEFINE i == m.iter
               j == iter[q]
    <3>2. i \in Nat /\ j \in Nat /\ Heard(q) + 1 = 2 * j + 1
      BY <1>2, <2>2, <3>1
    <3>3. Key(m) = IF m.kind = "reqs" THEN 2 * i ELSE 2 * i + 1
      BY DEF Key
    <3> HIDE DEF i, j
    <3>4. m.kind # "reqs" /\ i = j
      BY <2>3, <3>2, <3>3
    <3> QED BY <2>1, <2>2, <2>5, <3>4 DEF i, j
  <2> QED BY <2>4, <2>5
<1> QED
  BY <1>3, <1>4, <1>6, <1>7, <1>8, <1>9

\* What taking the first message leaves of a rank's channel.
LEMMA DeliversTake ==
  ASSUME TypeOK, SlotsInStep, NEW cnt, NEW sz, Synced(cnt, sz), NEW q \in Rank, q # 0,
         reqChan[q] # <<>>, reqChan'[q] = Tail(reqChan[q]),
         plan' = plan, iter'[0] = iter[0],
         Heard(q)' = Heard(q) + 1, Heard(0)' = Heard(0),
         Link(Expected(cnt, iter[0]), Keys(Tail(reqChan[q])), Heard(q) + 1, Heard(0)),
         Behind(Expected(cnt, iter[0]), Heard(q) + 1, Heard(0))
  PROVE  Delivers(cnt, sz, q)'
<1>1. 0 \in Rank
  BY PAssumption DEF Rank
<1>2. PICK none \in BatchKinds : TRUE
  BY KindsAssumption
<1>3. iter[0] \in Nat /\ reqChan[q] \in Seq(Message)
  BY <1>1, SyncFacts
<1>4. /\ Link(Expected(cnt, iter[0]), Keys(reqChan[q]), Heard(q), Heard(0))'
      /\ Behind(Expected(cnt, iter[0]), Heard(q), Heard(0))'
  <2>1. Expected(cnt, iter[0])' = Expected(cnt, iter[0])
        /\ Keys(reqChan[q])' = Keys(Tail(reqChan[q]))
    BY DEF Expected, Keys
  <2> QED BY <2>1 DEF Link, Behind
<1>5. Pending(q)' \subseteq Pending(q) /\ Pending(q) \subseteq Message
  <2>1. \A i \in DOMAIN Tail(reqChan[q]) : i + 1 \in DOMAIN reqChan[q] /\ Tail(reqChan[q])[i] = reqChan[q][i + 1]
    BY <1>3, KeysTail
  <2>2. Pending(q) \subseteq Message
    BY <1>3 DEF Pending
  <2> QED BY <2>1, <2>2 DEF Pending
<1>6. ASSUME NEW m \in Message, m \in Pending(q) PROVE Announces(cnt, sz, m)'
  <2>1. Announces(cnt, sz, m)
    BY <1>6 DEF Synced, Delivers
  <2> QED BY <1>2, <1>3, <2>1, AnnouncesFrame
<1> QED BY <1>4, <1>5, <1>6 DEF Delivers

\* recv_requests on the other ranks, with the flush_cache the list may contain.
LEMMA SyncReceiveRequests ==
  ASSUME TypeOK, SlotsInStep, NEW cnt, NEW sz, Synced(cnt, sz), NEW q \in Rank,
         ReceiveRequests(q)
  PROVE  Synced(cnt, sz)'
<1>1. 0 \in Rank /\ cnt \in [Nat -> Nat] /\ sz \in [Nat -> Chunks]
  BY PAssumption DEF Rank, Synced
<1>2. PICK none \in BatchKinds : TRUE
  BY KindsAssumption
<1>3. /\ q # 0 /\ pc[q] = "recv" /\ reqChan[q] # <<>> /\ plan' = plan
      /\ iter' = [iter EXCEPT ![q] = @ + 1] /\ reqChan' = [reqChan EXCEPT ![q] = Tail(@)]
  BY DEF ReceiveRequests, NextSlot
<1>4. PICK m \in Message : m = Head(reqChan[q])
  BY <1>1, <1>3, FirstMessage
<1>5. /\ m.kind = "reqs" /\ m.iter = iter[q] + 1 /\ Announces(cnt, sz, m)
      /\ iter[q] + 1 <= iter[0]
      /\ Link(Expected(cnt, iter[0]), Keys(Tail(reqChan[q])), Heard(q) + 1, Heard(0))
      /\ Behind(Expected(cnt, iter[0]), Heard(q) + 1, Heard(0))
  BY <1>3, <1>4, FirstMessage
<1>6. FlushCache(q, m.flush) /\ pc' = [pc EXCEPT ![q] = "decide"]
  BY <1>4, <1>5 DEF ReceiveRequests
<1>7. \A r \in Rank : /\ Follows(cnt, sz, r) /\ Heard(r) \in Nat /\ iter[r] \in Nat
                      /\ iter[r] <= iter[0] /\ iter[0] \in Nat
  BY SyncFacts DEF Synced
<1>8. /\ pc'[q] = "decide" /\ iter'[q] = iter[q] + 1 /\ reqChan'[q] = Tail(reqChan[q])
      /\ \A r \in Rank : r # q => /\ pc'[r] = pc[r] /\ iter'[r] = iter[r]
                                  /\ reqChan'[r] = reqChan[r]
                                  /\ stepCount'[r] = stepCount[r] /\ chunk'[r] = chunk[r]
      /\ stepCount'[q] = IF m.flush THEN 0 ELSE stepCount[q]
      /\ chunk'[q] = IF m.flush THEN OrigChunk ELSE chunk[q]
  <2>1. m.flush \in BOOLEAN
    BY <1>5 DEF Message
  <2> QED BY <1>3, <1>6, <2>1 DEF FlushCache, TypeOK
<1>9. Follows(cnt, sz, q)'
  <2>1. stepCount[q] = After(cnt, iter[q]) /\ chunk[q] = sz[iter[q]]
    BY <1>3, <1>7 DEF Follows
  <2>2. m.iter - 1 = iter[q]
    BY <1>5, <1>7
  <2>3. stepCount'[q] = cnt[iter'[q]]
    BY <1>5, <1>8, <2>1, <2>2 DEF Announces
  <2>4. ~Due(cnt[iter'[q]]) => chunk'[q] = sz[iter'[q]]
    BY <1>5, <1>8, <2>1, <2>2 DEF Announces
  <2>5. chunk'[q] \in Chunks
    BY <1>7, <1>8, ChunksAssumption DEF Follows
  <2> QED BY <1>1, <1>3, <1>5, <1>8, <2>3, <2>4, <2>5 DEF Follows
<1>10. ASSUME NEW r \in Rank, r # q PROVE Follows(cnt, sz, r)'
  <2>1. pc[r] # "failed" /\ iter'[0] = iter[0]
    BY <1>1, <1>3, <1>7, <1>8 DEF Follows
  <2> QED BY <1>2, <1>3, <1>7, <1>8, <1>10, <2>1, FollowsFrame
<1>11. Heard(q)' = Heard(q) + 1 /\ \A r \in Rank : r # q => Heard(r)' = Heard(r)
  <2>1. Heard(q) = 2 * iter[q] + 1 /\ Heard(q)' = 2 * (iter[q] + 1)
    BY <1>3, <1>8 DEF Heard
  <2>2. \A r \in Rank : r # q => Heard(r)' = Heard(r)
    BY <1>8 DEF Heard
  <2> QED BY <1>7, <2>1, <2>2
<1>12. iter'[0] = iter[0] /\ Heard(0)' = Heard(0)
  BY <1>1, <1>3, <1>8, <1>11
<1>13. Delivers(cnt, sz, q)'
  BY <1>3, <1>5, <1>8, <1>11, <1>12, DeliversTake
<1>14. ASSUME NEW r \in Rank, r # 0, r # q PROVE Delivers(cnt, sz, r)'
  <2>1. /\ Heard(r)' \in Nat /\ Passes(Expected(cnt, iter[0]), Heard(r), Heard(r)')
        /\ Heard(0)' \in Nat /\ Passes(Expected(cnt, iter[0]), Heard(0), Heard(0)')
    BY <1>1, <1>7, <1>11, <1>12, <1>14 DEF Passes
  <2>2. reqChan'[r] = reqChan[r]
    BY <1>8, <1>14
  <2> QED BY <1>2, <1>3, <1>12, <1>14, <2>1, <2>2, DeliversPass
<1> QED
  BY <1>1, <1>9, <1>10, <1>13, <1>14 DEF Synced, Delivers

\* sync_chunk_size on the other ranks: they take rank 0's chunk size of their iteration.
LEMMA SyncReceiveChunk ==
  ASSUME TypeOK, SlotsInStep, NEW cnt, NEW sz, Synced(cnt, sz), NEW q \in Rank,
         ReceiveChunk(q)
  PROVE  Synced(cnt, sz)'
<1>1. 0 \in Rank /\ cnt \in [Nat -> Nat] /\ sz \in [Nat -> Chunks]
  BY PAssumption DEF Rank, Synced
<1>2. PICK none \in BatchKinds : TRUE
  BY KindsAssumption
<1>3. /\ q # 0 /\ pc[q] = "decide" /\ reqChan[q] # <<>> /\ plan' = plan
      /\ iter' = iter /\ stepCount' = stepCount /\ Due(stepCount[q])
      /\ pc'[q] = "schedule" /\ reqChan'[q] = Tail(reqChan[q])
      /\ \A r \in Rank : r # q => /\ pc'[r] = pc[r] /\ reqChan'[r] = reqChan[r]
                                  /\ chunk'[r] = chunk[r]
  BY DEF ReceiveChunk, SyncDue, Due, TypeOK, counters
<1>4. \A r \in Rank : /\ Follows(cnt, sz, r) /\ Heard(r) \in Nat /\ iter[r] \in Nat
                      /\ iter[r] <= iter[0] /\ iter[0] \in Nat
  BY SyncFacts DEF Synced
<1>5. stepCount[q] = cnt[iter[q]] /\ Due(cnt[iter[q]])
  BY <1>3, <1>4 DEF Follows
<1>6. PICK m \in Message : m = Head(reqChan[q])
  BY <1>1, <1>3, <1>5, FirstMessage
<1>7. /\ m.kind = "chunk" /\ m.iter = iter[q] /\ Announces(cnt, sz, m)
      /\ Link(Expected(cnt, iter[0]), Keys(Tail(reqChan[q])), Heard(q) + 1, Heard(0))
      /\ Behind(Expected(cnt, iter[0]), Heard(q) + 1, Heard(0))
  BY <1>3, <1>5, <1>6, FirstMessage
<1>8. chunk'[q] = sz[iter[q]]
  <2>1. chunk'[q] = m.size
    BY <1>6, <1>7 DEF ReceiveChunk, TypeOK
  <2> QED BY <1>7, <2>1 DEF Announces
<1>9. Follows(cnt, sz, q)'
  <2>1. iter[q] \in Nat /\ chunk'[q] \in Chunks
    BY <1>1, <1>4, <1>8
  <2> QED BY <1>1, <1>3, <1>4, <1>5, <1>8, <2>1 DEF Follows
<1>10. ASSUME NEW r \in Rank, r # q PROVE Follows(cnt, sz, r)'
  <2>1. pc[r] # "failed" /\ iter'[0] = iter[0]
    BY <1>3, <1>4 DEF Follows
  <2> QED BY <1>2, <1>3, <1>4, <1>10, <2>1, FollowsFrame
<1>11. Heard(q)' = Heard(q) + 1 /\ \A r \in Rank : r # q => Heard(r)' = Heard(r)
  BY <1>3, <1>4 DEF Heard
<1>12. Heard(0)' = Heard(0)
  BY <1>1, <1>3, <1>11
<1>13. Delivers(cnt, sz, q)'
  BY <1>3, <1>7, <1>11, <1>12, DeliversTake
<1>14. ASSUME NEW r \in Rank, r # 0, r # q PROVE Delivers(cnt, sz, r)'
  <2>1. /\ Heard(r)' \in Nat /\ Passes(Expected(cnt, iter[0]), Heard(r), Heard(r)')
        /\ Heard(0)' \in Nat /\ Passes(Expected(cnt, iter[0]), Heard(0), Heard(0)')
    BY <1>1, <1>4, <1>11, <1>12, <1>14 DEF Passes
  <2>2. reqChan'[r] = reqChan[r] /\ iter'[0] = iter[0]
    BY <1>3, <1>14
  <2> QED BY <1>2, <1>3, <1>14, <2>1, <2>2, DeliversPass
<1> QED
  BY <1>1, <1>9, <1>10, <1>13, <1>14 DEF Synced, Delivers

\* What rank 0 publishes goes last into every other rank's channel.
LEMMA DeliversPublish ==
  ASSUME TypeOK, SlotsInStep, NEW cnt, NEW sz, Synced(cnt, sz), NEW cnt2, NEW sz2,
         NEW m \in Message, NEW r \in Rank, r # 0, iter'[0] \in Nat,
         reqChan'[r] = Append(reqChan[r], m),
         Heard(r)' = Heard(r), Heard(r) <= Heard(0), Heard(0)' = Heard(0) + 1,
         Key(m) = Heard(0) + 1, Heard(0) + 1 \in Expected(cnt2, iter'[0]),
         Expected(cnt, iter[0]) \subseteq Expected(cnt2, iter'[0]),
         \A b \in Expected(cnt2, iter'[0]) : b \notin Expected(cnt, iter[0]) => Heard(0) < b,
         Announces(cnt2, sz2, m)',
         \A x \in Message : x \in Pending(r) => Announces(cnt2, sz2, x)'
  PROVE  Delivers(cnt2, sz2, r)'
<1>1. 0 \in Rank
  BY PAssumption DEF Rank
<1>2. /\ iter[0] \in Nat /\ Heard(r) \in Nat /\ Heard(0) \in Nat
      /\ reqChan[r] \in Seq(Message)
  BY <1>1, SyncFacts
<1>3. /\ Link(Expected(cnt, iter[0]), Keys(reqChan[r]), Heard(r), Heard(0))
      /\ Behind(Expected(cnt, iter[0]), Heard(r), Heard(0))
  BY DEF Synced, Delivers
<1>4. /\ Link(Expected(cnt2, iter[0]), Keys(reqChan[r]), Heard(r), Heard(0))'
      /\ Behind(Expected(cnt2, iter[0]), Heard(r), Heard(0))'
  <2> DEFINE F == Expected(cnt, iter[0])
             G == Expected(cnt2, iter'[0])
             lo == Heard(r)
             hi == Heard(0)
             c == Keys(reqChan[r])
  <2>1. /\ Link(F, c, lo, hi) /\ Behind(F, lo, hi) /\ lo \in Int /\ hi \in Int /\ lo <= hi
        /\ F \subseteq G /\ (\A b \in G : b \notin F => hi < b) /\ hi + 1 \in G
    BY <1>2, <1>3
  <2>2. G \subseteq Nat
    BY ExpectedKeys
  <2>3. Keys(reqChan[r])' = Append(c, hi + 1)
    <3>1. Keys(Append(reqChan[r], m)) = Append(c, hi + 1)
      BY <1>2, KeysAppend
    <3> QED BY <3>1 DEF Keys
  <2>4. Expected(cnt2, iter[0])' = G
    BY DEF Expected
  <2> HIDE DEF F, G, lo, hi, c
  <2>5. Passes(G, lo, lo) /\ Passes(G, hi, hi)
    BY DEF Passes
  <2>6. Link(G, c, lo, hi)
    BY <2>1, <2>2, <2>5, LinkPass
  <2>7. lo < hi + 1
    BY <2>1
  <2>8. Link(G, Append(c, hi + 1), lo, hi + 1)
    BY <2>1, <2>2, <2>6, <2>7, LinkSend
  <2>9. Behind(G, lo, hi + 1)
    BY <2>1, <2>2 DEF Behind
  <2> QED BY <2>3, <2>4, <2>8, <2>9 DEF lo, hi, Link, Behind
<1>5. \A x \in Pending(r)' : x = m \/ (x \in Pending(r) /\ x \in Message)
  <2>1. /\ \A x \in Pending(r) : x \in Message
    BY <1>2 DEF Pending
  <2> DEFINE c == reqChan[r]
             d == Append(c, m)
  <2>2. c \in Seq(Message)
    BY <1>2
  <2> HIDE DEF c
  <2>3. \A i \in DOMAIN d : d[i] = m \/ (i \in DOMAIN c /\ d[i] = c[i])
    BY <2>2
  <2> QED BY <2>1, <2>3 DEF Pending, c
<1> QED BY <1>4, <1>5 DEF Delivers

\* recv_requests on rank 0: the history gains an iteration.
LEMMA SyncPublishRequests ==
  ASSUME TypeOK, SlotsInStep, NEW cnt, NEW sz, Synced(cnt, sz), PublishRequests
  PROVE  \E cnt2, sz2 : Synced(cnt2, sz2)'
<1>1. 0 \in Rank /\ cnt \in [Nat -> Nat] /\ sz \in [Nat -> Chunks]
  BY PAssumption DEF Rank, Synced
<1>2. PICK none \in BatchKinds : TRUE
  BY KindsAssumption
<1>3. PICK n \in Nat : n = iter[0]
  BY <1>1 DEF TypeOK
<1>4. PICK flush \in BOOLEAN : Publish(ReqsMsg(n + 1, flush)) /\ FlushCache(0, flush)
  BY <1>3, FlushAssumption DEF PublishRequests
<1>5. PICK m \in Message : m = ReqsMsg(n + 1, flush)
  <2>1. n + 1 \in Nat
    BY <1>3
  <2> QED BY <2>1 DEF ReqsMsg, Message
<1>6. m.kind = "reqs" /\ m.iter = n + 1 /\ m.flush = flush
  BY <1>5 DEF ReqsMsg
<1>7. PICK cnt2 : cnt2 = [cnt EXCEPT ![n + 1] = IF flush THEN 0 ELSE After(cnt, n)]
  OBVIOUS
<1>8. PICK sz2 : sz2 = [sz EXCEPT ![n + 1] = IF flush THEN OrigChunk ELSE sz[n]]
  OBVIOUS
<1>9. /\ cnt2 \in [Nat -> Nat] /\ sz2 \in [Nat -> Chunks]
      /\ cnt2[n + 1] = (IF flush THEN 0 ELSE After(cnt, n))
      /\ sz2[n + 1] = (IF flush THEN OrigChunk ELSE sz[n])
      /\ \A i \in 0 .. n : cnt2[i] = cnt[i] /\ sz2[i] = sz[i]
  <2>1. After(cnt, n) \in Nat
    BY <1>1, <1>3 DEF After
  <2>2. sz[n] \in Chunks /\ OrigChunk \in Chunks
    BY <1>1, ChunksAssumption
  <2>3. n + 1 \in Nat /\ \A i \in 0 .. n : i \in Nat /\ i # n + 1
    OBVIOUS
  <2> QED BY <1>1, <1>7, <1>8, <2>1, <2>2, <2>3
<1>10. /\ pc[0] = "recv" /\ pc'[0] = "decide" /\ plan' = plan /\ iter'[0] = n + 1
       /\ \A r \in Rank : r # 0 => /\ pc'[r] = pc[r] /\ iter'[r] = iter[r]
                                   /\ stepCount'[r] = stepCount[r] /\ chunk'[r] = chunk[r]
                                   /\ reqChan'[r] = Append(reqChan[r], m)
       /\ stepCount'[0] = (IF flush THEN 0 ELSE stepCount[0])
       /\ chunk'[0] = (IF flush THEN OrigChunk ELSE chunk[0])
  BY <1>1, <1>3, <1>4, <1>5 DEF PublishRequests, NextSlot, FlushCache, Publish, TypeOK
<1>11. \A r \in Rank : /\ Follows(cnt, sz, r) /\ Heard(r) \in Nat /\ iter[r] \in Nat
                       /\ iter[r] <= n
  BY <1>3, SyncFacts DEF Synced
<1>12. After(cnt2, n)' = After(cnt, n)
  <2>1. BatchOf(n)' = BatchOf(n)
    BY <1>10 DEF BatchOf
  <2>2. cnt2[n] = cnt[n]
    BY <1>9
  <2> QED BY <2>1, <2>2 DEF After
<1>13. Announces(cnt2, sz2, m)'
  <2>1. n + 1 - 1 = n /\ n + 1 \in 1 .. n + 1 /\ sz2[n] = sz[n]
    BY <1>9
  <2> QED BY <1>6, <1>9, <1>10, <1>12, <2>1 DEF Announces
<1>14. Follows(cnt2, sz2, 0)'
  <2>1. stepCount[0] = After(cnt, n) /\ chunk[0] = sz[n]
    BY <1>1, <1>3, <1>10, <1>11 DEF Follows
  <2>2. chunk'[0] \in Chunks
    BY <1>1, <1>10, <1>11, ChunksAssumption DEF Follows
  <2> QED BY <1>9, <1>10, <2>1, <2>2 DEF Follows
<1>15. ASSUME NEW r \in Rank, r # 0 PROVE Follows(cnt2, sz2, r)'
  <2>1. pc[r] # "failed"
    BY <1>11 DEF Follows
  <2>2. iter[r] \in 0 .. n
    BY <1>11
  <2>3. cnt2[iter[r]] = cnt[iter[r]] /\ sz2[iter[r]] = sz[iter[r]]
    BY <1>9, <2>2
  <2> QED BY <1>2, <1>3, <1>10, <1>15, <2>1, <2>3, FollowsFrame
<1>16. ASSUME NEW r \in Rank, r # 0 PROVE Delivers(cnt2, sz2, r)'
  <2>1. Heard(0) = 2 * n + 1 /\ Heard(0)' = 2 * n + 2 /\ Heard(r) <= 2 * n + 1
    <3>1. Heard(0) = 2 * n + 1
      BY <1>3, <1>10 DEF Heard
    <3>2. Heard(0)' = 2 * (n + 1)
      BY <1>10 DEF Heard
    <3>3. PICK j \in Nat : j = iter[r]
      BY <1>11
    <3>4. j <= n
      BY <1>11, <3>3
    <3>5. Heard(r) = 2 * j \/ Heard(r) = 2 * j + 1
      BY <3>3 DEF Heard
    <3>6. 2 * j <= 2 * n + 1 /\ 2 * j + 1 <= 2 * n + 1 /\ 2 * (n + 1) = 2 * n + 2
      BY <3>4
    <3> QED BY <3>1, <3>2, <3>5, <3>6
  <2>2. Heard(r)' = Heard(r)
    BY <1>10, <1>16 DEF Heard
  <2>3. Key(m) = 2 * n + 2
    BY <1>6 DEF Key
  <2>4. 2 * n + 2 \in Expected(cnt2, n + 1)
    <3>1. n + 1 \in 1 .. n + 1 /\ n + 1 \in Nat /\ 2 * (n + 1) = 2 * n + 2
      OBVIOUS
    <3> QED BY <3>1, ExpectedKeys
  <2>5. /\ Expected(cnt, n) \subseteq Expected(cnt2, n + 1)
        /\ \A k \in Expected(cnt2, n + 1) : k \notin Expected(cnt, n) => 2 * n + 1 < k
    <3>1. \A i \in 1 .. n : cnt2[i] = cnt[i]
      BY <1>9
    <3> QED BY <3>1, ExpectedGrows
  <2>6. ASSUME NEW x \in Message, x \in Pending(r) PROVE Announces(cnt2, sz2, x)'
    <3>1. Announces(cnt, sz, x)
      BY <1>16, <2>6 DEF Synced, Delivers
    <3>2. x.iter \in 0 .. n
      BY <1>3, <3>1 DEF Announces
    <3>3. \A i \in 0 .. n - 1 : i \in 0 .. n
      BY <1>3
    <3>4. sz2[x.iter] = sz[x.iter] /\ \A i \in 0 .. n - 1 : sz2[i] = sz[i]
      BY <1>9, <3>2, <3>3
    <3>5. iter[0] <= iter'[0] /\ iter'[0] \in Nat /\ plan' = plan
      BY <1>3, <1>10
    <3>6. \A i \in 0 .. iter[0] : cnt2[i] = cnt[i]
      BY <1>3, <1>9
    <3>7. \A i \in 0 .. iter[0] - 1 : sz2[i] = sz[i]
      BY <1>3, <3>4
    <3> QED BY <1>2, <3>1, <3>4, <3>5, <3>6, <3>7, AnnouncesFrame
  <2>7. n + 1 \in Nat /\ 2 * n + 1 + 1 = 2 * n + 2
    OBVIOUS
  <2>8. reqChan'[r] = Append(reqChan[r], m)
    BY <1>10, <1>16
  <2> QED
    BY <1>3, <1>10, <1>13, <1>16, <2>1, <2>2, <2>3, <2>4, <2>5, <2>6, <2>7, <2>8, DeliversPublish
<1>17. Synced(cnt2, sz2)'
  BY <1>9, <1>14, <1>15, <1>16 DEF Synced, Delivers
<1> QED BY <1>17

\* sync_chunk_size on rank 0: the history learns the chunk size of the iteration, which
\* no rank has scheduled with before.
LEMMA SyncPublishChunk ==
  ASSUME TypeOK, SlotsInStep, NEW cnt, NEW sz, Synced(cnt, sz), PublishChunk
  PROVE  \E cnt2, sz2 : Synced(cnt2, sz2)'
<1>1. 0 \in Rank /\ cnt \in [Nat -> Nat] /\ sz \in [Nat -> Chunks]
  BY PAssumption DEF Rank, Synced
<1>2. PICK none \in BatchKinds : TRUE
  BY KindsAssumption
<1>3. PICK n \in Nat : n = iter[0]
  BY <1>1 DEF TypeOK
<1>4. PICK size \in Chunks : /\ chunk' = [chunk EXCEPT ![0] = size]
                             /\ Publish(ChunkMsg(n, size))
  BY <1>3 DEF PublishChunk
<1>5. PICK m \in Message : m = ChunkMsg(n, size)
  BY DEF ChunkMsg, Message
<1>6. m.kind = "chunk" /\ m.iter = n /\ m.size = size
  BY <1>5 DEF ChunkMsg
<1>7. PICK sz2 : sz2 = [sz EXCEPT ![n] = size]
  OBVIOUS
<1>8. /\ sz2 \in [Nat -> Chunks] /\ sz2[n] = size
      /\ \A i \in Nat : i # n => sz2[i] = sz[i]
  BY <1>1, <1>7
<1>9. /\ pc[0] = "decide" /\ pc'[0] = "schedule" /\ plan' = plan /\ iter' = iter
      /\ stepCount' = stepCount /\ chunk'[0] = size /\ Due(stepCount[0]) /\ n > 0
      /\ \A r \in Rank : r # 0 => /\ pc'[r] = pc[r] /\ chunk'[r] = chunk[r]
                                  /\ reqChan'[r] = Append(reqChan[r], m)
  BY <1>1, <1>3, <1>4, <1>5 DEF PublishChunk, SyncDue, Due, Publish, TypeOK, counters
<1>10. \A r \in Rank : /\ Follows(cnt, sz, r) /\ Heard(r) \in Nat /\ iter[r] \in Nat
                       /\ iter[r] <= n
  BY <1>3, SyncFacts DEF Synced
<1>11. Due(cnt[n]) /\ stepCount[0] = cnt[n]
  BY <1>1, <1>3, <1>9, <1>10 DEF Follows
<1>12. 2 * n + 1 \in Expected(cnt, n) /\ Expected(cnt, n) \subseteq Nat
  <2>1. n \in 1 .. n
    BY <1>9
  <2> QED BY <1>11, <2>1, ExpectedKeys
<1>13. Heard(0) = 2 * n /\ Heard(0)' = 2 * n + 1
  BY <1>3, <1>9 DEF Heard
<1>14. ASSUME NEW r \in Rank, r # 0
       PROVE  Heard(r) <= 2 * n /\ (iter[r] = n => pc[r] = "decide")
  <2>1. Behind(Expected(cnt, n), Heard(r), 2 * n)
    BY <1>3, <1>13, <1>14 DEF Synced, Delivers
  <2>2. Heard(r) \in Nat /\ iter[r] \in Nat /\ iter[r] <= n
    BY <1>10
  <2>3. ~(2 * n + 1 <= Heard(r))
    BY <1>12, <2>1 DEF Behind
  <2>4. iter[r] = n => pc[r] = "decide"
    BY <2>2, <2>3 DEF Heard
  <2> QED BY <2>2, <2>3, <2>4
<1>15. Announces(cnt, sz2, m)'
  <2>1. n \in 1 .. n
    BY <1>9
  <2> QED BY <1>3, <1>6, <1>8, <1>9, <2>1 DEF Announces
<1>16. Follows(cnt, sz2, 0)'
  BY <1>3, <1>8, <1>9, <1>11 DEF Follows
<1>17. ASSUME NEW r \in Rank, r # 0 PROVE Follows(cnt, sz2, r)'
  <2>1. pc[r] # "failed" /\ iter[r] \in Nat
    BY <1>10 DEF Follows
  <2>2. sz2[iter[r]] = sz[iter[r]] \/ (pc[r] = "decide" /\ Due(cnt[iter[r]]))
    BY <1>8, <1>11, <1>14, <1>17, <2>1
  <2> QED BY <1>2, <1>3, <1>9, <1>17, <2>1, <2>2, FollowsFrame
<1>18. ASSUME NEW r \in Rank, r # 0 PROVE Delivers(cnt, sz2, r)'
  <2>1. Heard(r) <= Heard(0) /\ Heard(0)' = Heard(0) + 1
    BY <1>13, <1>14, <1>18
  <2>2. Heard(r)' = Heard(r)
    BY <1>9, <1>18 DEF Heard
  <2>3. Key(m) = Heard(0) + 1 /\ Heard(0) + 1 \in Expected(cnt, n)
    BY <1>6, <1>12, <1>13 DEF Key
  <2>4. ASSUME NEW x \in Message, x \in Pending(r) PROVE Announces(cnt, sz2, x)'
    <3>1. Announces(cnt, sz, x)
      BY <1>18, <2>4 DEF Synced, Delivers
    <3>2. x.iter \in 1 .. n
      BY <1>3, <3>1 DEF Announces
    <3>3. x.iter = n => x.kind = "reqs"
      <4>1. PICK i \in DOMAIN reqChan[r] : x = reqChan[r][i]
        BY <2>4 DEF Pending
      <4>2. /\ i \in 1 .. Len(reqChan[r]) /\ Keys(reqChan[r])[i] = Key(x)
            /\ i \in DOMAIN Keys(reqChan[r])
        <5>1. reqChan[r] \in Seq(Message)
          BY SyncFacts
        <5>2. i \in 1 .. Len(reqChan[r])
          BY <4>1, <5>1
        <5> QED BY <4>1, <5>1, <5>2, KeysType
      <4>3. Key(x) <= 2 * n
        BY <1>3, <1>13, <1>18, <4>2 DEF Synced, Delivers, Link
      <4>4. x.iter = n /\ x.kind # "reqs" => Key(x) = 2 * n + 1
        BY DEF Key
      <4>5. ~(2 * n + 1 <= 2 * n)
        OBVIOUS
      <4> QED BY <4>3, <4>4, <4>5
    <3>4. sz2[x.iter] = sz[x.iter] \/ (x.kind = "reqs" /\ Due(cnt[x.iter]))
      BY <1>8, <1>11, <3>2, <3>3
    <3>5. \A i \in 0 .. n - 1 : sz2[i] = sz[i]
      BY <1>8
    <3> QED BY <1>2, <1>3, <1>9, <3>1, <3>4, <3>5, AnnouncesFrame
  <2>5. reqChan'[r] = Append(reqChan[r], m) /\ iter'[0] = n
    BY <1>3, <1>9, <1>18
  <2> QED BY <1>3, <1>15, <1>18, <2>1, <2>2, <2>3, <2>4, <2>5, DeliversPublish
<1>19. Synced(cnt, sz2)'
  BY <1>1, <1>8, <1>16, <1>17, <1>18 DEF Synced, Delivers
<1> QED BY <1>19

\* Before the first message no rank has a step count or a chunk size of its own.
LEMMA InitSynced == Init => InSync
<1> SUFFICES ASSUME Init PROVE InSync
  OBVIOUS
<1>1. PICK cnt : cnt = [i \in Nat |-> 0]
  OBVIOUS
<1>2. PICK sz : sz = [i \in Nat |-> OrigChunk]
  OBVIOUS
<1>3. /\ cnt \in [Nat -> Nat] /\ sz \in [Nat -> Chunks] /\ cnt[0] = 0 /\ sz[0] = OrigChunk
      /\ OrigChunk \in Chunks
  BY <1>1, <1>2, ChunksAssumption
<1>4. 0 \in Rank
  BY PAssumption DEF Rank
<1>5. /\ \A r \in Rank : /\ pc[r] = "recv" /\ iter[r] = 0 /\ stepCount[r] = 0
                        /\ chunk[r] = OrigChunk /\ reqChan[r] = <<>>
      /\ plan = <<>>
  BY DEF Init
<1>6. After(cnt, 0) = 0
  <2>1. Len(plan) = 0
    BY <1>5
  <2>2. BatchOf(0) = NoBatch
    BY <2>1 DEF BatchOf
  <2> QED BY <1>3, <2>2 DEF After
<1>7. ASSUME NEW r \in Rank PROVE Follows(cnt, sz, r)
  BY <1>3, <1>4, <1>5, <1>6 DEF Follows
<1>8. ASSUME NEW r \in Rank PROVE Delivers(cnt, sz, r)
  <2>1. Expected(cnt, 0) = {}
    BY DEF Expected
  <2>2. Heard(r) = 1 /\ Heard(0) = 1
    BY <1>4, <1>5 DEF Heard
  <2>3. Keys(<<>>) = <<>> /\ Pending(r) = {}
    <3>1. <<>> \in Seq(Message)
      OBVIOUS
    <3>2. Keys(<<>>) \in Seq(Nat) /\ Len(Keys(<<>>)) = Len(<<>>)
      BY <3>1, KeysType
    <3>3. Len(<<>>) = 0 /\ DOMAIN <<>> = {}
      OBVIOUS
    <3> QED BY <1>5, <3>2, <3>3 DEF Pending
  <2>4. Link({}, <<>>, 1, 1) /\ Behind({}, 1, 1)
    <3>1. <<>> \in Seq(Nat) /\ Len(<<>>) = 0 /\ DOMAIN <<>> = {}
      OBVIOUS
    <3> QED BY <3>1 DEF Link, Behind
  <2> QED BY <1>4, <1>5, <2>1, <2>2, <2>3, <2>4 DEF Delivers
<1> QED BY <1>3, <1>7, <1>8 DEF Synced, InSync

\* What the scheduler may choose is a kind of batch.
LEMMA ScheduledKind ==
  ASSUME TypeOK, NEW q \in Rank, pc[q] # "recv"
  PROVE  Choices(iter[q]) \subseteq BatchKinds
<1>1. iter[q] \in Nat /\ iter[q] > 0 /\ plan \in Seq(BatchKinds)
  BY RankFacts
<1> QED BY <1>1, KindsAssumption DEF Choices

\* Whatever the scheduler chose, the iteration goes on.
LEMMA AfterScheduleStep ==
  ASSUME NEW q, NEW kind \in BatchKinds, NEW pipe
  PROVE  AfterSchedule(q, kind, pipe) \in {"tokens", "hidden", "finish"}
<1>1. kind \in {"none", "forward", "empty"}
  BY KindsAssumption
<1>2. CASE kind = "forward"
  BY <1>2 DEF AfterSchedule
<1>3. CASE kind = "empty"
  BY <1>3 DEF AfterSchedule
<1>4. CASE kind = "none"
  BY <1>4 DEF AfterSchedule
<1> QED BY <1>1, <1>2, <1>3, <1>4

\* Every step keeps the ranks on one history.
LEMMA NextInSync ==
  TypeOK /\ SlotsInStep /\ InSync /\ [Next]_vars => InSync'
<1> SUFFICES ASSUME TypeOK, SlotsInStep, InSync, [Next]_vars PROVE InSync'
  OBVIOUS
<1>1. PICK cnt, sz : Synced(cnt, sz)
  BY DEF InSync
<1>2. PICK none \in BatchKinds : TRUE
  BY KindsAssumption
<1>3. \A r \in Rank : pc[r] # "failed"
  BY <1>1 DEF Synced, Follows
<1>4. ASSUME Synced(cnt, sz)' PROVE InSync'
  BY <1>4 DEF InSync
<1>5. CASE UNCHANGED vars
  <2>1. /\ UNCHANGED <<iter, stepCount, chunk, reqChan>> /\ plan' = plan /\ pc' = pc
    BY <1>5 DEF vars, counters, control, channels
  <2> QED BY <1>1, <1>2, <1>3, <1>4, <2>1, SyncQuiet
<1>6. CASE BroadcastTogether
  <2>1. /\ UNCHANGED <<iter, stepCount, chunk, reqChan>> /\ plan' = plan
        /\ \A r \in Rank : pc[r] = "tokens" /\ pc'[r] = "finish"
    BY <1>6 DEF BroadcastTogether, counters, control
  <2> QED BY <1>1, <1>2, <1>4, <2>1, SyncQuiet
<1>7. ASSUME NEW q \in Rank, RankStep(q) PROVE InSync'
  <2>1. CASE q = 0 /\ PublishRequests
    BY <1>1, <2>1, SyncPublishRequests DEF InSync
  <2>2. CASE ReceiveRequests(q)
    BY <1>1, <1>4, <2>2, SyncReceiveRequests
  <2>3. CASE SkipChunkSync(q)
    BY <1>1, <1>4, <2>3, SyncSkip
  <2>4. CASE q = 0 /\ PublishChunk
    BY <1>1, <2>4, SyncPublishChunk DEF InSync
  <2>5. CASE ReceiveChunk(q)
    BY <1>1, <1>4, <2>5, SyncReceiveChunk
  <2>6. CASE Schedule(q)
    <3>1. PICK kind \in BatchKinds : ScheduleAs(q, kind)
      BY <2>6, ScheduledKind DEF Schedule
    <3>2. /\ UNCHANGED <<iter, stepCount, chunk, reqChan>> /\ pc[q] = "schedule"
      BY <2>6 DEF Schedule, counters, control, channels
    <3>3. plan' = plan \/ plan' = Append(plan, kind)
      BY <3>1 DEF ScheduleAs
    <3>4. /\ pc'[q] \in {"tokens", "hidden", "finish"}
          /\ \A r \in Rank : r # q => pc'[r] = pc[r]
      BY <3>1, AfterScheduleStep DEF ScheduleAs, TypeOK
    <3> QED BY <1>1, <1>3, <1>4, <3>2, <3>3, <3>4, SyncQuiet
  <2>7. CASE ReceiveHidden(q) \/ SampleAndBroadcast(q) \/ JoinBroadcast(q) \/ NoBroadcast(q)
    <3>1. /\ UNCHANGED <<iter, stepCount, chunk, reqChan>> /\ plan' = plan
          /\ pc[q] \in {"hidden", "tokens"} /\ pc'[q] \in {"tokens", "finish"}
          /\ \A r \in Rank : r # q => pc'[r] = pc[r]
      BY <2>7 DEF ReceiveHidden, SampleAndBroadcast, JoinBroadcast, NoBroadcast, TypeOK,
         counters, control
    <3> QED BY <1>1, <1>2, <1>3, <1>4, <3>1, SyncQuiet
  <2>8. CASE Finish(q)
    BY <1>1, <1>4, <2>8, SyncFinish
  <2> QED
    BY <1>7, <2>1, <2>2, <2>3, <2>4, <2>5, <2>6, <2>7, <2>8 DEF RankStep
<1> QED
  BY <1>5, <1>6, <1>7 DEF Next, AllStopped

-----------------------------------------------------------------------------
\* In every behaviour the ranks share one history of step counts and chunk sizes: the
\* periods of sync_chunk_size, which every rank counts by itself, never drift apart.
THEOREM RanksInSync == Spec => []InSync
<1> DEFINE Inv == TypeOK /\ SlotsInStep /\ InSync
<1>1. Spec => [](TypeOK /\ SlotsInStep)
  BY TypeCorrect, SlotArithmetic, PTL
<1>2. Init => InSync
  BY InitSynced
<1>3. TypeOK /\ SlotsInStep /\ InSync /\ [Next]_vars => InSync'
  BY NextInSync
<1> QED BY <1>1, <1>2, <1>3, PTL DEF Spec, SafeSpec

\* No rank ever takes a chunk message for the request list, which would end its process,
\* or the list for a chunk size: ".pop()" and the unpacking find what they expect.
THEOREM ChannelStaysInStep == Spec => []ChannelInStep
<1>1. InSync => ChannelInStep
  BY ChunksAssumption DEF InSync, Synced, Follows, ChannelInStep, NotAChunk
<1> QED BY <1>1, RanksInSync, PTL

\* The ranks cut the prefill of an iteration with one chunk size.
THEOREM ChunkSizesAgree == Spec => []ChunkAgreement
<1>1. InSync => ChunkAgreement
  BY DEF InSync, Synced, Follows, ChunkAgreement
<1> QED BY <1>1, RanksInSync, PTL

=============================================================================
