--------------------------- MODULE OverlapLoopProofs ---------------------------
(***************************************************************************)
(* Proofs about OverlapLoop, for any requests, prompts and limits, with    *)
(* and without mixed chunks: the KV slots a request holds are those of its *)
(* tokens, computed or in flight, although a batch is launched before the  *)
(* results of the one before are known; only a retraction makes the        *)
(* process exit where start-up profiling lets the loop get beyond its      *)
(* first iteration; and results that come late keep what the scheduler     *)
(* promises.                                                               *)
(***************************************************************************)
EXTENDS OverlapLoop, CollectionLemmas

-----------------------------------------------------------------------------
IsBatch(b) ==
  /\ DOMAIN b = {"mode", "reqs", "decoding", "id"} /\ b.mode \in {"none", "extend", "decode"}
  /\ b.reqs \in Seq(Req) /\ b.decoding \subseteq ToSet(b.reqs)
  /\ b.mode = "none" => b.reqs = <<>>
  /\ b.decoding # {} => b.mode = "extend" /\ isMixedChunk

LoopType ==
  /\ phase \in {"recv", "prefill", "decode", "result"}
  /\ waitingQueue \in Seq(Req) /\ IsInjective(waitingQueue)
  /\ runningBatch \in Seq(Req) /\ IsBatch(lastBatch) /\ IsBatch(batch)
  /\ beingChunked \in Req \cup {NoReq} /\ arrived \subseteq Req
  /\ seqLen \in [Req -> Int] /\ kvHeld \in [Req -> Int] /\ fill \in [Req -> Int]
  /\ isBeingChunked \in [Req -> Int]
  /\ DOMAIN outputs = Req /\ \A r \in Req : outputs[r] \in Seq(ToSet(outputs[r]))
  /\ phase # "result" => batch = NoBatch

Waiting == ToSet(waitingQueue)
Running == ToSet(runningBatch)

\* The requests of the batch whose result is next, and of the one launched after it.
Before == ToSet(lastBatch.reqs)
Now == ToSet(batch.reqs)

\* Who gets a prefill in a batch; the batch launched last.
Prefilled(b) == IF b.mode = "extend" THEN ToSet(b.reqs) \ b.decoding ELSE {}
Newest == IF phase = "result" THEN batch ELSE lastBatch

\* Of is_being_chunked, what the batch of this iteration has added, and what the one before
\* has, whose result takes it away.
Started == [r \in Req |-> IF phase = "result" /\ batch.mode = "extend" /\ r = beingChunked THEN 1 ELSE 0]
Part == [r \in Req |-> isBeingChunked[r] - Started[r]]

\* The results to come are those of the two batches.
Pending(b) == IF b.mode = "none" THEN <<>> ELSE <<b>>
QueueRight == resultQueue = Pending(lastBatch) \o Pending(batch)

\* A request that waits is nowhere else, but a retracted one may await a result; the one that
\* is being chunked runs in no batch; what has ended is in no new batch.
Apart ==
  /\ Waiting \cup Running \cup Before \cup Now \cup finished \subseteq arrived
  /\ beingChunked # NoReq => beingChunked \in arrived \ finished
  /\ Waiting \cap (Running \cup Now \cup finished \cup {beingChunked}) = {}
  /\ beingChunked \notin Running
  /\ Now \cap finished = {}
  /\ phase # "result" => Waiting \cap Before = {}

\* is_being_chunked says which requests of the next result have only a part of their prompt
\* in that batch: the one that is being chunked, and those that got the rest since.
ChunkRight ==
  /\ beingChunked # NoReq =>
       IF Newest.mode = "extend" THEN beingChunked \in Prefilled(Newest)
       ELSE beingChunked \notin ToSet(Newest.reqs)
  /\ \A r \in Req : Part[r] \in 0 .. 1
  /\ \A r \in Req : Part[r] = 1 =>
       /\ r \in Prefilled(lastBatch)
       /\ r = beingChunked \/ (phase = "result" /\ r \in Prefilled(batch))
  /\ beingChunked \in Before => Part[beingChunked] = 1
  /\ \A r \in Prefilled(batch) \cap Before : Part[r] = 1

\* The tokens of a request that are in flight.
Awaited == [r \in Req |-> (IF r \in Before /\ Part[r] = 0 THEN 1 ELSE 0)
                            + (IF r \in Now THEN 1 ELSE 0)]

KVRight ==
  /\ \A r \in Req : r \in Waiting \/ r \notin arrived => kvHeld[r] = 0 /\ fill[r] = 0
  /\ \A r \in finished : kvHeld[r] = IF r \in Before THEN 1 ELSE 0
  /\ \A r \in finished \cap Before : lastBatch.mode = "decode" \/ isMixedChunk
  /\ \A r \in arrived \ finished : r \notin Waiting =>
       /\ kvHeld[r] = seqLen[r]
       /\ r = beingChunked => fill[r] = seqLen[r] /\ fill[r] < FullLen(r)
       /\ r # beingChunked => /\ fill[r] >= Prompt[r]
                              /\ seqLen[r] = Prompt[r] + Len(outputs[r]) - 1 + Awaited[r]

Good == LoopType /\ QueueRight /\ Apart /\ ChunkRight /\ KVRight
LoopInv == phase # "exited" => Good

-----------------------------------------------------------------------------
(* Sequences and batches as sets.                                            *)

LEMMA ContainsIs ==
  ASSUME NEW E, NEW s \in Seq(E), NEW e
  PROVE  Contains(s, e) <=> e \in ToSet(s)
<1>1. DOMAIN s = 1 .. Len(s) OBVIOUS
<1>2. QED BY <1>1 DEF Contains, ToSet

LEMMA EmptyIs ==
  ASSUME NEW E, NEW s \in Seq(E)
  PROVE  s = <<>> <=> ToSet(s) = {}
<1>1. PICK n \in Nat : n = Len(s) /\ DOMAIN s = 1 .. n OBVIOUS
<1>2. s = <<>> <=> n = 0 BY <1>1
<1>3. ToSet(s) = {s[i] : i \in 1 .. n} BY <1>1 DEF ToSet
<1>4. n # 0 => 1 \in 1 .. n OBVIOUS
<1>5. n # 0 => s[1] \in ToSet(s) BY <1>3, <1>4
<1>6. n = 0 => ToSet(s) = {} BY <1>3
<1>7. QED BY <1>2, <1>5, <1>6

\* What is left of a queue when its first k elements are taken.
LEMMA QueueCut ==
  ASSUME NEW E, NEW s \in Seq(E), NEW k \in 0 .. Len(s), IsInjective(s)
  PROVE  LET head == SubSeq(s, 1, k)  tail == SubSeq(s, k + 1, Len(s)) IN
         /\ head \in Seq(E) /\ tail \in Seq(E) /\ IsInjective(tail)
         /\ ToSet(head) \cap ToSet(tail) = {} /\ ToSet(head) \cup ToSet(tail) = ToSet(s)
<1> DEFINE u == SubSeq(s, 1, k)
           v == SubSeq(s, k + 1, Len(s))
<1>1. PICK n \in Nat : n = Len(s) /\ DOMAIN s = 1 .. n /\ k \in 0 .. n /\ k \in Nat OBVIOUS
<1>2. u \in Seq(E) /\ DOMAIN u = 1 .. k /\ \A i \in 1 .. k : u[i] = s[i] BY <1>1
<1>3. v \in Seq(E) /\ DOMAIN v = 1 .. n - k /\ \A i \in 1 .. n - k : v[i] = s[i + k]
  <2>1. v = [i \in 1 .. n - k |-> s[i + k]] BY <1>1
  <2>2. \A i \in 1 .. n - k : i + k \in 1 .. n BY <1>1
  <2>3. \A i \in 1 .. n - k : s[i + k] \in E BY <1>1, <2>2
  <2>4. n - k \in Nat BY <1>1
  <2> DEFINE m == n - k
  <2>5. [i \in 1 .. m |-> s[i + k]] \in Seq(E) BY <2>3, <2>4
  <2>6. QED BY <2>1, <2>5
<1> HIDE DEF u, v
<1>4. IsInjective(v)
  <2>1. ASSUME NEW x \in 1 .. n - k, NEW y \in 1 .. n - k, v[x] = v[y] PROVE x = y
    <3>1. x + k \in 1 .. n /\ y + k \in 1 .. n /\ s[x + k] = s[y + k] BY <1>1, <1>3, <2>1
    <3>2. x + k = y + k BY <1>1, <3>1 DEF IsInjective
    <3>3. QED BY <1>1, <3>2
  <2>2. QED BY <1>3, <2>1 DEF IsInjective
<1>5. ToSet(u) \cap ToSet(v) = {}
  <2>1. ASSUME NEW x \in 1 .. k, NEW y \in 1 .. n - k PROVE u[x] # v[y]
    <3>1. x \in 1 .. n /\ y + k \in 1 .. n /\ x # y + k BY <1>1
    <3>2. s[x] # s[y + k] BY <1>1, <3>1 DEF IsInjective
    <3>3. QED BY <1>2, <1>3, <3>2
  <2>2. QED BY <1>2, <1>3, <2>1 DEF ToSet
<1>6. ToSet(u) \cup ToSet(v) = ToSet(s)
  <2>1. ASSUME NEW x \in 1 .. k PROVE u[x] \in ToSet(s) BY <1>1, <1>2 DEF ToSet
  <2>2. ASSUME NEW y \in 1 .. n - k PROVE v[y] \in ToSet(s)
    <3>1. y + k \in 1 .. n BY <1>1
    <3>2. QED BY <1>1, <1>3, <3>1 DEF ToSet
  <2>3. ASSUME NEW i \in 1 .. n PROVE s[i] \in ToSet(u) \cup ToSet(v)
    <3>1. CASE i <= k
      <4>1. i \in 1 .. k BY <1>1, <3>1
      <4>2. QED BY <1>2, <4>1 DEF ToSet
    <3>2. CASE i > k
      <4>1. i - k \in 1 .. n - k /\ (i - k) + k = i BY <1>1, <3>2
      <4>2. v[i - k] = s[i] BY <1>3, <4>1
      <4>3. QED BY <1>3, <4>1, <4>2 DEF ToSet
    <3>3. QED BY <1>1, <3>1, <3>2
  <2>4. /\ ToSet(u) = {u[x] : x \in 1 .. k} /\ ToSet(v) = {v[y] : y \in 1 .. n - k}
        /\ ToSet(s) = {s[i] : i \in 1 .. n}
    BY <1>1, <1>2, <1>3 DEF ToSet
  <2>5. ToSet(u) \subseteq ToSet(s) BY <2>1, <2>4
  <2>6. ToSet(v) \subseteq ToSet(s) BY <2>2, <2>4
  <2>7. ToSet(s) \subseteq ToSet(u) \cup ToSet(v) BY <2>3, <2>4
  <2>8. QED BY <2>5, <2>6, <2>7
<1>7. QED BY <1>2, <1>3, <1>4, <1>5, <1>6 DEF u, v

\* The sequence of a finite set.
LEMMA SequenceOf ==
  ASSUME NEW A, IsFiniteSet(A)
  PROVE  SetToSeq(A) \in Seq(A) /\ IsInjective(SetToSeq(A)) /\ ToSet(SetToSeq(A)) = A
<1> DEFINE s == SetToSeq(A)
<1>1. PICK n \in Nat : ExistsBijection(1 .. n, A) BY FS_NatBijection
<1>2. Cardinality(A) = n BY <1>1, FS_CountingElements
<1>3. PICK g \in Bijection(1 .. n, A) : TRUE BY <1>1 DEF ExistsBijection
<1>4. g \in [1 .. n -> A] /\ IsInjective(g) BY <1>3 DEF Bijection, Injection
<1>5. s \in [1 .. n -> A] /\ IsInjective(s) BY <1>2, <1>4 DEF SetToSeq
<1> HIDE DEF s
<1>6. s \in Injection(1 .. n, A) BY <1>5 DEF Injection, IsInjective
<1>7. DOMAIN s = 1 .. n /\ s \in Seq(A) BY <1>5
<1>8. IsFiniteSet(1 .. n) /\ Cardinality(1 .. n) = n BY FS_Interval
<1>9. s \in Surjection(1 .. n, A) BY <1>2, <1>6, <1>8, FS_Injection
<1>10. ToSet(s) = A BY <1>5, <1>7, <1>9 DEF Surjection, ToSet
<1>11. QED BY <1>5, <1>7, <1>10 DEF s

-----------------------------------------------------------------------------
(* What the views are made of.                                               *)

LEMMA NoBatchIs == /\ IsBatch(NoBatch) /\ NoBatch.reqs = <<>> /\ ToSet(NoBatch.reqs) = {}
                   /\ NoBatch.mode = "none" /\ NoBatch.decoding = {} /\ Prefilled(NoBatch) = {}
<1>1. <<>> \in Seq(Req) /\ ToSet(<<>>) = {} BY DEF ToSet
<1>2. NoBatch.reqs = <<>> /\ NoBatch.mode = "none" /\ NoBatch.decoding = {} BY DEF NoBatch
<1>3. IsBatch(NoBatch) BY <1>1 DEF NoBatch, IsBatch
<1>4. QED BY <1>1, <1>2, <1>3 DEF Prefilled

LEMMA ModeNone ==
  ASSUME NEW b, IsBatch(b), b.mode = "none"
  PROVE  ToSet(b.reqs) = {} /\ Prefilled(b) = {}
BY DEF IsBatch, ToSet, Prefilled

LEMMA PrefilledIn ==
  ASSUME NEW b
  PROVE  Prefilled(b) \subseteq ToSet(b.reqs)
BY DEF Prefilled

LEMMA Elements ==
  ASSUME NEW E, NEW s \in Seq(E)
  PROVE  ToSet(s) \subseteq E
<1>1. PICK n \in Nat : n = Len(s) /\ DOMAIN s = 1 .. n OBVIOUS
<1>2. \A i \in 1 .. n : s[i] \in E BY <1>1
<1>3. QED BY <1>1, <1>2 DEF ToSet

LEMMA Views ==
  ASSUME LoopType
  PROVE  /\ Waiting \subseteq Req /\ Running \subseteq Req /\ Before \subseteq Req /\ Now \subseteq Req
         /\ phase # "result" => /\ Now = {} /\ Prefilled(batch) = {} /\ batch.mode = "none"
                                /\ Started = [r \in Req |-> 0]
         /\ Part \in [Req -> Int] /\ Awaited \in [Req -> Int] /\ Started \in [Req -> Int]
<1>1. /\ waitingQueue \in Seq(Req) /\ runningBatch \in Seq(Req) /\ lastBatch.reqs \in Seq(Req)
      /\ batch.reqs \in Seq(Req)
  BY DEF LoopType, IsBatch
<1>2. /\ Waiting \subseteq Req /\ Running \subseteq Req /\ Before \subseteq Req /\ Now \subseteq Req
  BY <1>1, Elements DEF Waiting, Running, Before, Now
<1>3. phase # "result" => Now = {} /\ Prefilled(batch) = {} /\ batch.mode = "none"
  BY NoBatchIs DEF LoopType, Now
<1>4. Started \in [Req -> Int] BY DEF Started
<1>5. isBeingChunked \in [Req -> Int] BY DEF LoopType
<1>6. Part \in [Req -> Int] BY <1>4, <1>5 DEF Part
<1>7. Awaited \in [Req -> Int] BY DEF Awaited
<1>8. phase # "result" => Started = [r \in Req |-> 0] BY DEF Started
<1>9. QED BY <1>2, <1>3, <1>4, <1>6, <1>7, <1>8

LEMMA UnfinishedIs ==
  ASSUME runningBatch \in Seq(Req)
  PROVE  /\ Unfinished(runningBatch) \in Seq(Req)
         /\ ToSet(Unfinished(runningBatch)) = Running \ finished
BY WithoutElements DEF Unfinished, Running

LEMMA FullLenIs ==
  ASSUME LoopType, NEW r \in Req
  PROVE  /\ Prompt[r] \in Nat \ {0} /\ Len(outputs[r]) \in Nat
         /\ FullLen(r) = Prompt[r] + Len(outputs[r]) /\ FullLen(r) \in Nat /\ r # NoReq
<1>1. Prompt[r] \in Nat \ {0} /\ r # NoReq BY OverlapAssumption
<1>2. outputs[r] \in Seq(ToSet(outputs[r])) BY DEF LoopType
<1>3. Len(outputs[r]) \in Nat BY <1>2
<1>4. QED BY <1>1, <1>3 DEF FullLen

\* Steps that leave the batches, the requests and the queue alone.
Kept ==
  UNCHANGED <<waitingQueue, lastBatch, batch, beingChunked, resultQueue, seqLen, outputs, finished,
              isBeingChunked, fill, kvHeld, arrived, isMixedChunk>>

LEMMA KeptViews ==
  ASSUME Kept
  PROVE  /\ Waiting' = Waiting /\ Before' = Before /\ Now' = Now
         /\ Prefilled(lastBatch)' = Prefilled(lastBatch) /\ Prefilled(batch)' = Prefilled(batch)
         /\ Pending(lastBatch)' = Pending(lastBatch) /\ Pending(batch)' = Pending(batch)
BY DEF Kept, Waiting, Before, Now, Prefilled, Pending

LEMMA StaysRight ==
  ASSUME Good, Kept, phase # "result", phase' \in {"prefill", "decode", "result"},
         runningBatch' \in Seq(Req), Running' \subseteq Running \cup (Before \ {beingChunked})
  PROVE  Good'
<1> USE DEF Good
<1>1. LoopType'
  <2>1. IsBatch(lastBatch)' BY DEF Kept, LoopType, IsBatch
  <2>2. IsBatch(batch)' BY DEF Kept, LoopType, IsBatch
  <2>3. batch' = NoBatch' BY DEF Kept, LoopType, NoBatch
  <2>4. QED BY <2>1, <2>2, <2>3 DEF Kept, LoopType
<1>2. QueueRight' BY KeptViews DEF QueueRight, Kept
<1>3. Apart' BY KeptViews DEF Apart, Kept
<1>4. Started' = Started /\ Part' = Part
  <2>1. batch.mode # "extend" BY Views
  <2>2. batch'.mode # "extend" BY <2>1 DEF Kept
  <2>3. Started' = [r \in Req |-> 0] /\ Started = [r \in Req |-> 0] BY <2>1, <2>2 DEF Started
  <2>4. QED BY <2>3 DEF Part, Kept
<1>5. ChunkRight'
  <2>1. Newest' \in {lastBatch, batch} /\ Newest = lastBatch BY DEF Newest, Kept
  <2>2. lastBatch' = lastBatch /\ beingChunked' = beingChunked BY DEF Kept
  <2>3. (beingChunked # NoReq =>
          IF Newest.mode = "extend" THEN beingChunked \in Prefilled(Newest)
          ELSE beingChunked \notin ToSet(Newest.reqs))'
    <3>1. batch.mode # "extend" /\ ToSet(batch.reqs) = {} BY Views DEF Now
    <3>2. QED BY <2>1, <2>2, <3>1 DEF ChunkRight, Prefilled
  <2>4. (\A r \in Req : Part[r] = 1 =>
          /\ r \in Prefilled(lastBatch)
          /\ r = beingChunked \/ (phase = "result" /\ r \in Prefilled(batch)))'
    BY <1>4, <2>2, KeptViews DEF ChunkRight
  <2>5. QED BY <1>4, <2>2, <2>3, <2>4, KeptViews DEF ChunkRight
<1>6. KVRight'
  <2>1. Awaited' = Awaited BY <1>4, KeptViews DEF Awaited
  <2>2. QED BY <2>1, KeptViews DEF KVRight, Kept, FullLen
<1>7. QED BY <1>1, <1>2, <1>3, <1>5, <1>6

LEMMA MergeRight ==
  ASSUME Good, MergeLastBatch
  PROVE  Good'
<1>1. /\ phase = "recv" /\ phase' = "prefill" /\ Kept
  BY DEF MergeLastBatch, Kept, requests, tensors, env
<1>2. /\ runningBatch \in Seq(Req) /\ lastBatch.reqs \in Seq(Req) /\ NoReq \notin Req
  BY OverlapAssumption DEF Good, LoopType, IsBatch
<1> DEFINE chunked == lastBatch.mode = "extend" /\ beingChunked # NoReq
           S == finished \cup {beingChunked}
           kept == IF chunked THEN Without(lastBatch.reqs, S) ELSE lastBatch.reqs
<1>3. runningBatch' = IF lastBatch.mode = "extend" THEN runningBatch \o kept ELSE runningBatch
  BY DEF MergeLastBatch
<1>4. kept \in Seq(Req) /\ (lastBatch.mode = "extend" => ToSet(kept) \subseteq Before \ {beingChunked})
  <2>1. CASE chunked
    <3> HIDE DEF S
    <3>1. /\ Without(lastBatch.reqs, S) \in Seq(Req)
          /\ ToSet(Without(lastBatch.reqs, S)) = ToSet(lastBatch.reqs) \ S
      BY <1>2, WithoutElements
    <3>2. QED BY <2>1, <3>1 DEF Before, S
  <2>2. CASE ~chunked
    <3>1. lastBatch.mode = "extend" => beingChunked = NoReq BY <2>2
    <3>2. Before \subseteq Req BY Views DEF Good
    <3>3. QED BY <1>2, <2>2, <3>1, <3>2 DEF Before
  <2>3. QED BY <2>1, <2>2
<1> HIDE DEF kept
<1>5. runningBatch' \in Seq(Req) /\ Running' \subseteq Running \cup (Before \ {beingChunked})
  <2>1. /\ runningBatch \o kept \in Seq(Req)
        /\ ToSet(runningBatch \o kept) = ToSet(runningBatch) \cup ToSet(kept)
    BY <1>2, <1>4, JoinedElements
  <2>2. CASE lastBatch.mode = "extend"
    <3>1. Running' = ToSet(runningBatch') BY DEF Running
    <3>2. QED BY <1>3, <1>4, <2>1, <2>2, <3>1 DEF Running
  <2>3. CASE lastBatch.mode # "extend" BY <1>2, <1>3, <2>3 DEF Running
  <2>4. QED BY <2>2, <2>3
<1>6. QED BY <1>1, <1>5, StaysRight

LEMMA SkipRight ==
  ASSUME Good, SkipPrefill \/ NothingAdmitted
  PROVE  Good'
<1>1. phase = "prefill" /\ phase' = "decode" /\ Kept /\ runningBatch' = runningBatch
  BY DEF SkipPrefill, NothingAdmitted, Kept, requests, tensors, env
<1>2. runningBatch \in Seq(Req) BY DEF Good, LoopType
<1>3. runningBatch' \in Seq(Req) /\ Running' = Running BY <1>1, <1>2 DEF Running
<1>4. QED BY <1>1, <1>3, StaysRight

\* The forward thread, and steps of nobody.
LEMMA ThreadRight ==
  ASSUME Good, ForwardThread \/ UNCHANGED vars
  PROVE  Good'
<1>1. Kept /\ UNCHANGED <<phase, runningBatch>>
  BY DEF ForwardThread, TakeJob, Forward, Sample, vars, Kept, requests, tensors, env
<1> USE DEF Good
<1>2. LoopType'
  <2>1. IsBatch(lastBatch)' BY <1>1 DEF Kept, LoopType, IsBatch
  <2>2. IsBatch(batch)' BY <1>1 DEF Kept, LoopType, IsBatch
  <2>3. (phase # "result" => batch = NoBatch)' BY <1>1 DEF Kept, LoopType, NoBatch
  <2>4. QED BY <1>1, <2>1, <2>2, <2>3 DEF Kept, LoopType
<1>3. QueueRight' BY <1>1, KeptViews DEF QueueRight, Kept
<1>4. Apart' BY <1>1, KeptViews DEF Apart, Kept, Running
<1>5. Started' = Started /\ Part' = Part BY <1>1 DEF Part, Started, Kept
<1>6. ChunkRight'
  <2>1. Newest' = Newest /\ beingChunked' = beingChunked /\ phase' = phase BY <1>1 DEF Newest, Kept
  <2>2. (beingChunked # NoReq =>
          IF Newest.mode = "extend" THEN beingChunked \in Prefilled(Newest)
          ELSE beingChunked \notin ToSet(Newest.reqs))'
    BY <2>1 DEF ChunkRight, Prefilled
  <2>3. QED BY <1>1, <1>5, <2>1, <2>2, KeptViews DEF ChunkRight
<1>7. KVRight'
  <2>1. Awaited' = Awaited BY <1>1, <1>5, KeptViews DEF Awaited
  <2>2. QED BY <1>1, <2>1, KeptViews DEF KVRight, Kept, FullLen
<1>8. QED BY <1>2, <1>3, <1>4, <1>6, <1>7

\* Steps that launch nothing.
LEMMA NothingRight ==
  ASSUME Good, NothingToRun
  PROVE  Good'
<1>1. phase = "decode" /\ phase' = "result" /\ runningBatch' = <<>> /\ batch = NoBatch
  BY DEF NothingToRun, Good, LoopType
<1>2. Kept BY <1>1 DEF NothingToRun, Kept, requests, tensors, env
<1>3. runningBatch' \in Seq(Req) /\ Running' = {}
  <2>1. <<>> \in Seq(Req) /\ ToSet(<<>>) = {} BY DEF ToSet
  <2>2. QED BY <1>1, <2>1 DEF Running
<1>4. QED BY <1>1, <1>2, <1>3, StaysRight

LEMMA ReceiveRight ==
  ASSUME Good, NEW q \in Req, Receive(q)
  PROVE  Good'
<1>1. /\ phase = "recv" /\ q \notin arrived /\ arrived' = arrived \cup {q}
      /\ waitingQueue' = Append(waitingQueue, q)
      /\ UNCHANGED <<phase, runningBatch, lastBatch, batch, beingChunked, resultQueue, isMixedChunk,
                     requests, tensors>>
  BY DEF Receive
<1> USE DEF Good
<1>2. Waiting \subseteq arrived /\ q \notin Waiting BY <1>1 DEF Apart
<1>3. waitingQueue' \in Seq(Req) /\ IsInjective(waitingQueue') /\ Waiting' = Waiting \cup {q}
  <2>1. waitingQueue \in Seq(Req) /\ IsInjective(waitingQueue) BY DEF LoopType
  <2> DEFINE e == q
  <2> HIDE DEF e
  <2>2. /\ Append(waitingQueue, e) \in Seq(Req)
        /\ ToSet(Append(waitingQueue, e)) = ToSet(waitingQueue) \cup {e}
        /\ IsInjective(waitingQueue) /\ e \notin ToSet(waitingQueue)
             => IsInjective(Append(waitingQueue, e))
    <3>1. e \in Req BY DEF e
    <3>2. QED BY <2>1, <3>1, AppendedElement
  <2>3. QED BY <1>1, <1>2, <2>1, <2>2 DEF e, Waiting
<1>4. LoopType'
  <2>1. IsBatch(lastBatch)' BY <1>1 DEF LoopType, IsBatch
  <2>2. IsBatch(batch)' BY <1>1 DEF LoopType, IsBatch
  <2>3. (phase # "result" => batch = NoBatch)' BY <1>1 DEF LoopType, NoBatch
  <2>4. QED BY <1>1, <1>3, <2>1, <2>2, <2>3 DEF LoopType, requests, tensors
<1>5. QueueRight' BY <1>1 DEF QueueRight, Pending
<1>6. Running' = Running /\ Before' = Before /\ Now' = Now /\ Started' = Started /\ Part' = Part
  BY <1>1 DEF Running, Before, Now, Started, Part, requests
<1>7. q \notin Running \cup Before \cup Now \cup finished \cup {beingChunked}
  <2>1. q # NoReq BY OverlapAssumption
  <2>2. QED BY <1>1, <2>1 DEF Apart
<1>8. Apart' BY <1>1, <1>3, <1>6, <1>7 DEF Apart, requests
<1>9. ChunkRight'
  <2>1. Newest' = Newest BY <1>1 DEF Newest
  <2>2. QED BY <1>1, <1>6, <2>1 DEF ChunkRight, Prefilled
<1>10. KVRight'
  <2>1. Awaited' = Awaited BY <1>6 DEF Awaited
  <2>2. kvHeld[q] = 0 /\ fill[q] = 0 BY <1>1 DEF KVRight
  <2>3. /\ UNCHANGED <<outputs, finished, kvHeld, fill, seqLen, beingChunked, lastBatch, isMixedChunk>>
    BY <1>1 DEF requests, tensors
  <2>4. (\A r \in Req : r \in Waiting \/ r \notin arrived => kvHeld[r] = 0 /\ fill[r] = 0)'
    BY <1>1, <1>3, <2>2, <2>3 DEF KVRight
  <2>5. (\A r \in arrived \ finished : r \notin Waiting =>
          /\ kvHeld[r] = seqLen[r]
          /\ r = beingChunked => fill[r] = seqLen[r] /\ fill[r] < FullLen(r)
          /\ r # beingChunked => /\ fill[r] >= Prompt[r]
                                 /\ seqLen[r] = Prompt[r] + Len(outputs[r]) - 1 + Awaited[r])'
    BY <1>1, <1>3, <2>1, <2>3 DEF KVRight, FullLen
  <2>6. QED BY <1>6, <2>3, <2>4, <2>5 DEF KVRight
<1>11. QED BY <1>4, <1>5, <1>8, <1>9, <1>10

-----------------------------------------------------------------------------
(* The launch of a prefill.                                                  *)

\* The batch has prefills for new, n tokens of its prompt for part and all for the others,
\* and decode steps for mixed.
PrefillOf(new, mixed, part, n) ==
  LET upTo(r) == IF r = part THEN fill[r] + n ELSE FullLen(r) IN
  /\ phase = "prefill" /\ phase' = "result"
  /\ new \subseteq Req /\ new \subseteq Waiting \cup {beingChunked}
  /\ beingChunked # NoReq => beingChunked \in new
  /\ mixed \subseteq Running \ finished /\ (mixed # {} => isMixedChunk)
  /\ part \in new \cup {NoReq} /\ n \in Int
  /\ part # NoReq => fill[part] + n < FullLen(part)
  /\ waitingQueue' \in Seq(Req) /\ IsInjective(waitingQueue') /\ Waiting' = Waiting \ new
  /\ runningBatch' \in Seq(Req) /\ Running' \subseteq Running
  /\ DOMAIN batch' = {"mode", "reqs", "decoding", "id"} /\ batch'.mode = "extend"
  /\ batch'.reqs \in Seq(Req) /\ Now' = new \cup mixed /\ batch'.decoding = mixed
  /\ beingChunked' = part
  /\ isBeingChunked' = [r \in Req |-> isBeingChunked[r] + (IF r = part THEN 1 ELSE 0)]
  /\ kvHeld' = [r \in Req |-> IF r \in new THEN kvHeld[r] + upTo(r) - fill[r]
                              ELSE IF r \in mixed THEN kvHeld[r] + 1 ELSE kvHeld[r]]
  /\ fill' = [r \in Req |-> IF r \in new THEN upTo(r) ELSE fill[r]]
  /\ seqLen' = [r \in Req |-> IF r \in new THEN upTo(r)
                              ELSE IF r \in mixed THEN seqLen[r] + 1 ELSE seqLen[r]]
  /\ resultQueue' = Append(resultQueue, batch')
  /\ UNCHANGED <<lastBatch, outputs, finished, arrived, isMixedChunk>>

LEMMA PrefillIs ==
  ASSUME Good, LaunchPrefill
  PROVE  \E new, mixed, part, n : PrefillOf(new, mixed, part, n)
<1> USE DEF Good
<1>1. /\ waitingQueue \in Seq(Req) /\ IsInjective(waitingQueue) /\ runningBatch \in Seq(Req)
      /\ beingChunked \in Req \cup {NoReq} /\ fill \in [Req -> Int] /\ NoReq \notin Req
      /\ Len(waitingQueue) \in Nat
  BY OverlapAssumption DEF LoopType
<1> DEFINE first == IF beingChunked = NoReq THEN <<>> ELSE <<beingChunked>>
           mixed == IF isMixedChunk THEN Unfinished(runningBatch) ELSE <<>>
           run(j) == first \o SubSeq(waitingQueue, 1, j)
           rest(j) == SubSeq(waitingQueue, j + 1, Len(waitingQueue))
           part(j, n) == IF n = 0 THEN NoReq ELSE Last(run(j))
           upTo(j, n, r) == IF r = part(j, n) THEN fill[r] + n ELSE FullLen(r)
           the(j) == [mode |-> "extend", reqs |-> run(j) \o mixed, decoding |-> ToSet(mixed),
                      id |-> 1 - lastBatch.id]
<1>2. PICK j \in 0 .. Len(waitingQueue), n \in 0 .. MaxLen :
        /\ run(j) # <<>>
        /\ n < FullLen(Last(run(j))) - fill[Last(run(j))]
        /\ waitingQueue' = rest(j)
        /\ beingChunked' = part(j, n)
        /\ isBeingChunked' = [r \in Req |-> isBeingChunked[r] + (IF r = part(j, n) THEN 1 ELSE 0)]
        /\ kvHeld' = [r \in Req |-> IF r \in ToSet(run(j)) THEN kvHeld[r] + upTo(j, n, r) - fill[r]
                                    ELSE IF Contains(mixed, r) THEN kvHeld[r] + 1 ELSE kvHeld[r]]
        /\ fill' = [r \in Req |-> IF r \in ToSet(run(j)) THEN upTo(j, n, r) ELSE fill[r]]
        /\ seqLen' = [r \in Req |-> IF r \in ToSet(run(j)) THEN upTo(j, n, r)
                                    ELSE IF Contains(mixed, r) THEN seqLen[r] + 1 ELSE seqLen[r]]
        /\ runningBatch' = IF isMixedChunk THEN <<>> ELSE runningBatch
        /\ batch' = the(j) /\ resultQueue' = Append(resultQueue, the(j)) /\ phase' = "result"
  <2>1. PICK j \in 0 .. Len(waitingQueue), full \in BOOLEAN, n \in 0 .. MaxLen : Prefill(j, full, n)
    BY DEF LaunchPrefill
  <2>2. QED BY <2>1, Zenon DEF Prefill, Launch, LeftWaiting
<1>3. phase = "prefill" /\ UNCHANGED <<lastBatch, outputs, finished, arrived, isMixedChunk>>
  BY DEF LaunchPrefill, env
<1> DEFINE head == SubSeq(waitingQueue, 1, j)
           tail == rest(j)
<1>4. /\ head \in Seq(Req) /\ tail \in Seq(Req) /\ IsInjective(tail)
      /\ ToSet(head) \cap ToSet(tail) = {} /\ ToSet(head) \cup ToSet(tail) = Waiting
  <2> DEFINE k == j
  <2> HIDE DEF k
  <2>1. k \in 0 .. Len(waitingQueue) BY DEF k
  <2>2. LET u == SubSeq(waitingQueue, 1, k)  v == SubSeq(waitingQueue, k + 1, Len(waitingQueue)) IN
        /\ u \in Seq(Req) /\ v \in Seq(Req) /\ IsInjective(v)
        /\ ToSet(u) \cap ToSet(v) = {} /\ ToSet(u) \cup ToSet(v) = ToSet(waitingQueue)
    BY <1>1, <2>1, QueueCut
  <2>3. QED BY <2>2 DEF k, Waiting
<1>5. first \in Seq(Req) /\ ToSet(first) = {beingChunked} \ {NoReq}
  <2>1. CASE beingChunked = NoReq
    <3>1. <<>> \in Seq(Req) /\ ToSet(<<>>) = {} BY DEF ToSet
    <3>2. QED BY <2>1, <3>1
  <2>2. CASE beingChunked # NoReq
    <3>1. <<beingChunked>> \in Seq(Req) /\ ToSet(<<beingChunked>>) = {beingChunked}
      BY <1>1, <2>2 DEF ToSet
    <3>2. QED BY <2>2, <3>1
  <2>3. QED BY <2>1, <2>2
<1> HIDE DEF first, head
<1> DEFINE u == run(j)
           new == ToSet(u)
<1>6. u = first \o head BY DEF head
<1>7. u \in Seq(Req) /\ new = ToSet(first) \cup ToSet(head)
  <2>1. first \o head \in Seq(Req) /\ ToSet(first \o head) = ToSet(first) \cup ToSet(head)
    BY <1>4, <1>5, JoinedElements
  <2>2. QED BY <1>6, <2>1
<1>8. mixed \in Seq(Req) /\ ToSet(mixed) = IF isMixedChunk THEN Running \ finished ELSE {}
  <2>1. <<>> \in Seq(Req) /\ ToSet(<<>>) = {} BY DEF ToSet
  <2>2. /\ Unfinished(runningBatch) \in Seq(Req)
        /\ ToSet(Unfinished(runningBatch)) = Running \ finished
    BY <1>1, UnfinishedIs
  <2>3. QED BY <2>1, <2>2
<1> DEFINE M == ToSet(mixed)
<1>9. \A r : Contains(mixed, r) <=> r \in M BY <1>8, ContainsIs
<1> DEFINE p == part(j, n)
<1>10. p \in new \cup {NoReq} /\ n \in Int /\ (p # NoReq => fill[p] + n < FullLen(p))
  <2>1. n \in Int OBVIOUS
  <2>2. PICK m \in Nat \ {0} : m = Len(u) /\ m \in DOMAIN u BY <1>2, <1>7
  <2>3. Last(u) \in new /\ Last(u) \in Req
    <3>1. Last(u) = u[m] BY <2>2 DEF Last
    <3> HIDE DEF u
    <3>2. QED BY <1>7, <2>2, <3>1 DEF ToSet
  <2>4. n < FullLen(Last(u)) - fill[Last(u)] BY <1>2
  <2>5. fill[Last(u)] \in Int /\ FullLen(Last(u)) \in Int BY <1>1, <2>3, FullLenIs
  <2> HIDE DEF u
  <2>6. p = IF n = 0 THEN NoReq ELSE Last(u) BY DEF u
  <2> HIDE DEF p
  <2>7. QED BY <2>1, <2>3, <2>4, <2>5, <2>6
<1>11. /\ DOMAIN batch' = {"mode", "reqs", "decoding", "id"} /\ batch'.mode = "extend"
       /\ batch'.reqs = u \o mixed /\ batch'.decoding = M
  BY <1>2
<1>12. batch'.reqs \in Seq(Req) /\ Now' = new \cup M
  <2>1. u \o mixed \in Seq(Req) /\ ToSet(u \o mixed) = new \cup M
    <3> HIDE DEF u, mixed
    <3>1. QED BY <1>7, <1>8, JoinedElements
  <2>2. QED BY <1>11, <2>1 DEF Now
<1>13. waitingQueue' \in Seq(Req) /\ IsInjective(waitingQueue') /\ Waiting' = Waiting \ new
  <2>1. waitingQueue' = tail BY <1>2
  <2>2. beingChunked \notin Waiting BY DEF Apart
  <2> HIDE DEF tail
  <2>3. QED BY <1>4, <1>5, <1>7, <2>1, <2>2 DEF Waiting
<1>14. runningBatch' \in Seq(Req) /\ Running' \subseteq Running
  <2>1. <<>> \in Seq(Req) /\ ToSet(<<>>) = {} BY DEF ToSet
  <2>2. QED BY <1>1, <1>2, <2>1 DEF Running
<1>15. /\ new \subseteq Req /\ new \subseteq Waiting \cup {beingChunked}
       /\ beingChunked # NoReq => beingChunked \in new
       /\ M \subseteq Running \ finished /\ (M # {} => isMixedChunk)
  <2>1. new \subseteq Req BY <1>7, Elements
  <2>2. new = ({beingChunked} \ {NoReq}) \cup ToSet(head) BY <1>5, <1>7
  <2> HIDE DEF new
  <2>3. QED BY <1>4, <1>8, <2>1, <2>2
<1>16. /\ kvHeld' = [r \in Req |-> IF r \in new THEN kvHeld[r] + upTo(j, n, r) - fill[r]
                                   ELSE IF r \in M THEN kvHeld[r] + 1 ELSE kvHeld[r]]
       /\ fill' = [r \in Req |-> IF r \in new THEN upTo(j, n, r) ELSE fill[r]]
       /\ seqLen' = [r \in Req |-> IF r \in new THEN upTo(j, n, r)
                                   ELSE IF r \in M THEN seqLen[r] + 1 ELSE seqLen[r]]
  BY <1>2, <1>9
<1>17. /\ resultQueue' = Append(resultQueue, batch') /\ phase' = "result" /\ beingChunked' = p
       /\ isBeingChunked' = [r \in Req |-> isBeingChunked[r] + (IF r = p THEN 1 ELSE 0)]
  BY <1>2
<1>18. \A r : upTo(j, n, r) = IF r = p THEN fill[r] + n ELSE FullLen(r) OBVIOUS
<1> HIDE DEF p, new, M, upTo
<1>19. PrefillOf(new, M, p, n)
  BY <1>3, <1>10, <1>11, <1>12, <1>13, <1>14, <1>15, <1>16, <1>17, <1>18 DEF PrefillOf
<1>20. QED BY <1>19

\* The last batch, which a launch leaves alone.
LEMMA LastStays ==
  ASSUME UNCHANGED lastBatch
  PROVE  /\ Before' = Before /\ Prefilled(lastBatch)' = Prefilled(lastBatch)
         /\ Pending(lastBatch)' = Pending(lastBatch)
BY DEF Before, Prefilled, Pending

\* A batch that is launched joins those whose results are to come.
LEMMA QueueGrows ==
  ASSUME Good, phase # "result", UNCHANGED lastBatch,
         batch'.mode # "none", resultQueue' = Append(resultQueue, batch')
  PROVE  QueueRight'
<1>1. batch.mode = "none" BY Views DEF Good
<1>2. resultQueue = Pending(lastBatch) \o <<>> BY <1>1 DEF Good, QueueRight, Pending
<1>3. resultQueue = Pending(lastBatch)
  <2> DEFINE b == lastBatch
  <2> HIDE DEF b
  <2>1. <<>> \in Seq({b}) /\ <<b>> \in Seq({b}) OBVIOUS
  <2>2. Pending(lastBatch) \in {<<>>, <<b>>} BY DEF Pending, b
  <2>3. QED BY <1>2, <2>1, <2>2
<1>4. Pending(batch)' = <<batch'>> BY DEF Pending
<1>5. Pending(lastBatch)' = Pending(lastBatch) BY DEF Pending
<1>6. Append(resultQueue, batch') = resultQueue \o <<batch'>>
  <2> DEFINE b == batch'
             l == lastBatch
  <2> HIDE DEF b, l
  <2>1. resultQueue \in Seq({l, b})
    <3>1. <<>> \in Seq({l, b}) /\ <<l>> \in Seq({l, b}) OBVIOUS
    <3>2. resultQueue \in {<<>>, <<l>>} BY <1>3 DEF Pending, l
    <3>3. QED BY <3>1, <3>2
  <2>2. Append(resultQueue, b) = resultQueue \o <<b>> BY <2>1
  <2>3. QED BY <2>2 DEF b
<1>7. QED BY <1>3, <1>4, <1>5, <1>6 DEF QueueRight

LEMMA PrefillType ==
  ASSUME Good, NEW new, NEW mixed, NEW part, NEW n, PrefillOf(new, mixed, part, n)
  PROVE  LoopType'
<1> USE DEF Good
<1>1. IsBatch(lastBatch)' BY DEF PrefillOf, LoopType, IsBatch
<1>2. IsBatch(batch)' BY DEF PrefillOf, IsBatch, Now
<1>3. /\ phase' = "result" /\ beingChunked' \in Req \cup {NoReq} /\ arrived' \subseteq Req
      /\ waitingQueue' \in Seq(Req) /\ IsInjective(waitingQueue') /\ runningBatch' \in Seq(Req)
  BY DEF PrefillOf, LoopType
<1>4. DOMAIN outputs' = Req /\ \A r \in Req : outputs'[r] \in Seq(ToSet(outputs'[r]))
  BY DEF PrefillOf, LoopType
<1>5. /\ kvHeld \in [Req -> Int] /\ fill \in [Req -> Int] /\ seqLen \in [Req -> Int]
      /\ isBeingChunked \in [Req -> Int] /\ n \in Int /\ \A r \in Req : FullLen(r) \in Int
  BY FullLenIs DEF PrefillOf, LoopType
<1>6. /\ kvHeld' \in [Req -> Int] /\ fill' \in [Req -> Int] /\ seqLen' \in [Req -> Int]
      /\ isBeingChunked' \in [Req -> Int]
  <2>1. /\ kvHeld' \in [Req -> Int] /\ DOMAIN fill' = Req /\ DOMAIN seqLen' = Req
        /\ isBeingChunked' \in [Req -> Int]
    <3>1. isBeingChunked' \in [Req -> Int] BY <1>5 DEF PrefillOf
    <3>2. DOMAIN fill' = Req /\ DOMAIN seqLen' = Req BY DEF PrefillOf
    <3>3. kvHeld' \in [Req -> Int] BY <1>5 DEF PrefillOf
    <3>4. QED BY <3>1, <3>2, <3>3
  <2>2. ASSUME NEW r \in Req PROVE fill'[r] \in Int /\ seqLen'[r] \in Int
    <3>1. fill[r] \in Int /\ seqLen[r] \in Int /\ FullLen(r) \in Int BY <1>5
    <3>2. QED BY <1>5, <3>1 DEF PrefillOf
  <2>3. QED BY <2>1, <2>2 DEF PrefillOf
<1>7. QED BY <1>1, <1>2, <1>3, <1>4, <1>6 DEF LoopType

LEMMA PrefillViews ==
  ASSUME Good, NEW new, NEW mixed, NEW part, NEW n, PrefillOf(new, mixed, part, n)
  PROVE  /\ Before' = Before /\ Now' = new \cup mixed /\ Prefilled(batch)' = new
         /\ Prefilled(lastBatch)' = Prefilled(lastBatch)
         /\ Part' = Part /\ new \cap mixed = {} /\ NoReq \notin new
         /\ Awaited' = [r \in Req |-> Awaited[r] + (IF r \in new \cup mixed THEN 1 ELSE 0)]
<1> USE DEF Good
<1>1. /\ phase = "prefill" /\ UNCHANGED lastBatch /\ Now' = new \cup mixed /\ new \subseteq Req
      /\ new \subseteq Waiting \cup {beingChunked} /\ mixed \subseteq Running
      /\ batch'.mode = "extend" /\ batch'.decoding = mixed /\ beingChunked' = part
      /\ phase' = "result" /\ NoReq \notin new
      /\ isBeingChunked' = [r \in Req |-> isBeingChunked[r] + (IF r = part THEN 1 ELSE 0)]
  BY OverlapAssumption DEF PrefillOf
<1>2. new \cap mixed = {} BY <1>1 DEF Apart
<1>3. Prefilled(batch)' = new BY <1>1, <1>2 DEF Prefilled, Now
<1>4. Started = [r \in Req |-> 0] /\ Now = {} BY <1>1, Views
<1>5. Started' = [r \in Req |-> IF r = part THEN 1 ELSE 0] BY <1>1 DEF Started
<1>6. isBeingChunked \in [Req -> Int] BY DEF LoopType
<1>7. Part' = Part
  <2>1. ASSUME NEW r \in Req PROVE isBeingChunked'[r] - Started'[r] = isBeingChunked[r] - Started[r]
    BY <1>1, <1>4, <1>5, <1>6
  <2>2. QED BY <2>1 DEF Part
<1>8. Before' = Before BY <1>1, LastStays
<1>9. Awaited' = [r \in Req |-> Awaited[r] + (IF r \in new \cup mixed THEN 1 ELSE 0)]
  <2>1. Awaited' = [r \in Req |-> (IF r \in Before /\ Part[r] = 0 THEN 1 ELSE 0)
                                    + (IF r \in new \cup mixed THEN 1 ELSE 0)]
    BY <1>1, <1>7, <1>8 DEF Awaited
  <2>2. Awaited = [r \in Req |-> (IF r \in Before /\ Part[r] = 0 THEN 1 ELSE 0)]
    <3>1. Awaited = [r \in Req |-> (IF r \in Before /\ Part[r] = 0 THEN 1 ELSE 0) + 0]
      BY <1>4 DEF Awaited
    <3>2. QED BY <3>1
  <2>3. QED BY <2>1, <2>2
<1>10. QED BY <1>1, <1>2, <1>3, <1>7, <1>8, <1>9, LastStays

LEMMA PrefillRight ==
  ASSUME Good, LaunchPrefill
  PROVE  Good'
<1>1. PICK new, mixed, part, n : PrefillOf(new, mixed, part, n) BY PrefillIs
<1> USE DEF Good
<1>2. /\ Before' = Before /\ Now' = new \cup mixed /\ Prefilled(batch)' = new
      /\ Prefilled(lastBatch)' = Prefilled(lastBatch)
      /\ Part' = Part /\ new \cap mixed = {} /\ NoReq \notin new
      /\ Awaited' = [r \in Req |-> Awaited[r] + (IF r \in new \cup mixed THEN 1 ELSE 0)]
  BY <1>1, PrefillViews
<1>3. /\ phase = "prefill" /\ phase' = "result"
      /\ new \subseteq Req /\ new \subseteq Waiting \cup {beingChunked}
      /\ beingChunked # NoReq => beingChunked \in new
      /\ mixed \subseteq Running \ finished
      /\ part \in new \cup {NoReq} /\ n \in Int /\ beingChunked' = part
      /\ part # NoReq => fill[part] + n < FullLen(part)
      /\ Waiting' = Waiting \ new /\ Running' \subseteq Running
      /\ batch'.mode = "extend" /\ resultQueue' = Append(resultQueue, batch')
      /\ UNCHANGED <<lastBatch, outputs, finished, arrived, isMixedChunk>>
  BY <1>1 DEF PrefillOf
<1>4. LoopType' BY <1>1, PrefillType
<1>5. QueueRight' BY <1>3, QueueGrows
<1>6. Apart'
  <2>1. Waiting \cap Before = {} /\ Waiting \subseteq arrived \ finished /\ new \subseteq arrived \ finished
    BY <1>2, <1>3 DEF Apart
  <2>2. (Waiting \cup Running \cup Before \cup Now \cup finished \subseteq arrived)'
    BY <1>2, <1>3, <2>1 DEF Apart
  <2>3. (beingChunked # NoReq => beingChunked \in arrived \ finished)' BY <1>2, <1>3, <2>1
  <2>4. (Waiting \cap (Running \cup Now \cup finished \cup {beingChunked}) = {})'
    <3>1. NoReq \notin Waiting BY OverlapAssumption, Views
    <3>2. QED BY <1>2, <1>3, <3>1 DEF Apart
  <2>5. beingChunked' \notin Running'
    <3>1. NoReq \notin Running BY OverlapAssumption, Views
    <3>2. QED BY <1>2, <1>3, <3>1 DEF Apart
  <2>6. (Now \cap finished = {})' BY <1>2, <1>3, <2>1
  <2>7. QED BY <1>3, <2>2, <2>3, <2>4, <2>5, <2>6 DEF Apart
<1>7. ChunkRight'
  <2>1. Newest' = batch' BY <1>3 DEF Newest
  <2>2. (beingChunked # NoReq =>
          IF Newest.mode = "extend" THEN beingChunked \in Prefilled(Newest)
          ELSE beingChunked \notin ToSet(Newest.reqs))'
    BY <1>2, <1>3, <2>1 DEF Prefilled
  <2>3. \A r \in new \cap Before : Part[r] = 1 BY <1>3 DEF Apart, ChunkRight
  <2>4. \A r \in Req : Part[r] = 1 => r \in new BY <1>3, OverlapAssumption DEF ChunkRight
  <2>5. (\A r \in Req : Part[r] = 1 =>
          /\ r \in Prefilled(lastBatch)
          /\ r = beingChunked \/ (phase = "result" /\ r \in Prefilled(batch)))'
    BY <1>2, <1>3, <2>4 DEF ChunkRight
  <2>6. (beingChunked \in Before => Part[beingChunked] = 1)'
    <3>1. NoReq \notin Before BY OverlapAssumption, Views
    <3>2. QED BY <1>2, <1>3, <2>3, <3>1
  <2>7. QED BY <1>2, <2>2, <2>3, <2>5, <2>6 DEF ChunkRight
<1>8. KVRight'
  <2> DEFINE upTo(r) == IF r = part THEN fill[r] + n ELSE FullLen(r)
  <2>1. /\ kvHeld' = [r \in Req |-> IF r \in new THEN kvHeld[r] + upTo(r) - fill[r]
                                    ELSE IF r \in mixed THEN kvHeld[r] + 1 ELSE kvHeld[r]]
        /\ fill' = [r \in Req |-> IF r \in new THEN upTo(r) ELSE fill[r]]
        /\ seqLen' = [r \in Req |-> IF r \in new THEN upTo(r)
                                    ELSE IF r \in mixed THEN seqLen[r] + 1 ELSE seqLen[r]]
    BY <1>1 DEF PrefillOf
  <2> HIDE DEF upTo
  <2>2. \A r \in Req : upTo(r) = IF r = part THEN fill[r] + n ELSE FullLen(r) BY DEF upTo
  <2>3. /\ Waiting \subseteq arrived \ finished /\ new \subseteq arrived \ finished
        /\ mixed \subseteq arrived \ finished /\ mixed \cap Waiting = {} /\ finished \subseteq arrived
        /\ arrived \subseteq Req /\ beingChunked \notin mixed
    BY <1>2, <1>3 DEF Apart, LoopType
  <2>4. (\A r \in Req : r \in Waiting \/ r \notin arrived => kvHeld[r] = 0 /\ fill[r] = 0)'
    BY <1>3, <2>1, <2>3 DEF KVRight
  <2>5. (\A r \in finished : kvHeld[r] = IF r \in Before THEN 1 ELSE 0)'
    BY <1>2, <1>3, <2>1, <2>3 DEF KVRight
  <2>6. (\A r \in finished \cap Before : lastBatch.mode = "decode" \/ isMixedChunk)'
    BY <1>2, <1>3 DEF KVRight
  <2>7. ASSUME NEW r \in arrived \ finished, r \notin Waiting'
        PROVE  /\ kvHeld'[r] = seqLen'[r]
               /\ r = part => fill'[r] = seqLen'[r] /\ fill'[r] < FullLen(r)
               /\ r # part => /\ fill'[r] >= Prompt[r]
                              /\ seqLen'[r] = Prompt[r] + Len(outputs[r]) - 1 + Awaited'[r]
    <3>1. r \in Req BY <2>3
    <3>2. kvHeld[r] \in Int /\ seqLen[r] \in Int /\ fill[r] \in Int /\ Awaited[r] \in Int
      BY <3>1, Views DEF LoopType
    <3>3. /\ Prompt[r] \in Nat \ {0} /\ Len(outputs[r]) \in Nat
          /\ FullLen(r) = Prompt[r] + Len(outputs[r]) /\ r # NoReq
      BY <3>1, FullLenIs
    <3>4. CASE r \in new
      <4>1. kvHeld[r] = fill[r]
        <5>1. CASE r \in Waiting BY <3>1, <5>1 DEF KVRight
        <5>2. CASE r \notin Waiting
          <6>1. r = beingChunked BY <1>3, <3>4, <5>2
          <6>2. QED BY <2>3, <5>2, <6>1 DEF KVRight
        <5>3. QED BY <5>1, <5>2
      <4>2. fill'[r] = upTo(r) /\ seqLen'[r] = upTo(r) /\ kvHeld'[r] = kvHeld[r] + upTo(r) - fill[r]
        BY <2>1, <3>1, <3>4
      <4>3. CASE r = part
        <5>1. upTo(r) = fill[r] + n /\ fill[r] + n < FullLen(r) BY <1>3, <2>2, <3>1, <3>3, <4>3
        <5>2. QED BY <1>3, <3>2, <4>1, <4>2, <4>3, <5>1
      <4>4. CASE r # part
        <5>1. upTo(r) = FullLen(r) BY <2>2, <3>1, <4>4
        <5>2. Awaited[r] = 0
          <6>1. r \in Before => Part[r] = 1 BY <1>3, <3>4 DEF Apart, ChunkRight
          <6>2. Now = {} BY <1>3, Views
          <6>3. QED BY <3>1, <6>1, <6>2 DEF Awaited
        <5>3. Awaited'[r] = 1 BY <1>2, <3>1, <3>4, <5>2
        <5>4. QED BY <3>2, <3>3, <4>1, <4>2, <4>4, <5>1, <5>3
      <4>5. QED BY <4>3, <4>4
    <3>5. CASE r \notin new
      <4>1. r \notin Waiting /\ r # part /\ r # beingChunked BY <1>3, <2>7, <3>3, <3>5
      <4>2. /\ kvHeld[r] = seqLen[r] /\ fill[r] >= Prompt[r]
            /\ seqLen[r] = Prompt[r] + Len(outputs[r]) - 1 + Awaited[r]
        BY <2>7, <4>1 DEF KVRight
      <4>3. /\ fill'[r] = fill[r]
            /\ Awaited'[r] = Awaited[r] + (IF r \in mixed THEN 1 ELSE 0)
            /\ kvHeld'[r] = kvHeld[r] + (IF r \in mixed THEN 1 ELSE 0)
            /\ seqLen'[r] = seqLen[r] + (IF r \in mixed THEN 1 ELSE 0)
        BY <1>2, <2>1, <3>1, <3>2, <3>5
      <4>4. QED BY <3>2, <3>3, <4>1, <4>2, <4>3
    <3>6. QED BY <3>4, <3>5
  <2>8. (\A r \in arrived \ finished : r \notin Waiting =>
          /\ kvHeld[r] = seqLen[r]
          /\ r = beingChunked => fill[r] = seqLen[r] /\ fill[r] < FullLen(r)
          /\ r # beingChunked => /\ fill[r] >= Prompt[r]
                                 /\ seqLen[r] = Prompt[r] + Len(outputs[r]) - 1 + Awaited[r])'
    BY <1>3, <2>7 DEF FullLen
  <2>9. QED BY <2>4, <2>5, <2>6, <2>8 DEF KVRight
<1>9. QED BY <1>4, <1>5, <1>6, <1>7, <1>8

-----------------------------------------------------------------------------
(* The launch of a decode step, with a retraction or without.                *)

DecodeOf(kept, out) ==
  /\ phase = "decode" /\ phase' = "result"
  /\ kept \cup out = Running \ finished /\ kept \cap out = {}
  /\ waitingQueue' \in Seq(Req) /\ IsInjective(waitingQueue') /\ Waiting' = Waiting \cup out
  /\ runningBatch' \in Seq(Req) /\ Running' = kept
  /\ DOMAIN batch' = {"mode", "reqs", "decoding", "id"} /\ batch'.mode = "decode"
  /\ batch'.reqs \in Seq(Req) /\ Now' = kept /\ batch'.decoding = {}
  /\ kvHeld' = [r \in Req |-> IF r \in out THEN kvHeld[r] - seqLen[r]
                              ELSE IF r \in kept THEN kvHeld[r] + 1 ELSE kvHeld[r]]
  /\ fill' = [r \in Req |-> IF r \in out THEN 0 ELSE fill[r]]
  /\ seqLen' = [r \in Req |-> IF r \in kept THEN seqLen[r] + 1 ELSE seqLen[r]]
  /\ resultQueue' = Append(resultQueue, batch')
  /\ UNCHANGED <<lastBatch, beingChunked, isBeingChunked, outputs, finished, arrived, isMixedChunk>>

LEMMA DecodeIs ==
  ASSUME Good, RunDecode
  PROVE  \E kept, out : DecodeOf(kept, out)
<1> USE DEF Good
<1>1. waitingQueue \in Seq(Req) /\ IsInjective(waitingQueue) /\ runningBatch \in Seq(Req)
  BY DEF LoopType
<1> DEFINE u == Unfinished(runningBatch)
           the(s) == [mode |-> "decode", reqs |-> s, decoding |-> {}, id |-> 1 - lastBatch.id]
<1>2. PICK out \in SUBSET ToSet(u) :
        LET kept == Without(u, out) IN
        /\ waitingQueue' = waitingQueue \o SetToSeq(out)
        /\ kvHeld' = [r \in Req |-> IF r \in out THEN kvHeld[r] - seqLen[r]
                                    ELSE IF Contains(kept, r) THEN kvHeld[r] + 1 ELSE kvHeld[r]]
        /\ fill' = [r \in Req |-> IF r \in out THEN 0 ELSE fill[r]]
        /\ seqLen' = [r \in Req |-> IF Contains(kept, r) THEN seqLen[r] + 1 ELSE seqLen[r]]
        /\ runningBatch' = kept
        /\ batch' = the(kept) /\ resultQueue' = Append(resultQueue, the(kept)) /\ phase' = "result"
  BY Zenon DEF RunDecode, Launch
<1>3. phase = "decode" /\ UNCHANGED <<lastBatch, beingChunked, isBeingChunked, outputs, finished,
                                      arrived, isMixedChunk>>
  BY DEF RunDecode, env
<1> DEFINE s == Without(u, out)
           kept == ToSet(s)
<1>4. u \in Seq(Req) /\ ToSet(u) = Running \ finished BY <1>1, UnfinishedIs
<1>5. s \in Seq(Req) /\ kept = (Running \ finished) \ out
  <2> HIDE DEF u
  <2>1. QED BY <1>4, WithoutElements
<1>6. waitingQueue' \in Seq(Req) /\ IsInjective(waitingQueue') /\ Waiting' = Waiting \cup out
  <2>1. out \subseteq Req BY <1>4, Elements
  <2>2. IsFiniteSet(out) BY <2>1, OverlapAssumption, FS_Subset
  <2> DEFINE t == SetToSeq(out)
  <2>3. t \in Seq(out) /\ IsInjective(t) /\ ToSet(t) = out BY <2>2, SequenceOf
  <2>4. Waiting \cap out = {} BY <1>4 DEF Apart
  <2> HIDE DEF t
  <2>5. t \in Seq(Req) BY <2>1, <2>3
  <2>6. /\ waitingQueue \o t \in Seq(Req) /\ ToSet(waitingQueue \o t) = ToSet(waitingQueue) \cup ToSet(t)
        /\ IsInjective(waitingQueue) /\ IsInjective(t) /\ ToSet(waitingQueue) \cap ToSet(t) = {}
             => IsInjective(waitingQueue \o t)
    BY <1>1, <2>5, JoinedElements
  <2>7. waitingQueue' = waitingQueue \o t BY <1>2 DEF t
  <2>8. QED BY <1>1, <2>3, <2>4, <2>6, <2>7 DEF Waiting
<1>7. \A r : Contains(s, r) <=> r \in kept BY <1>5, ContainsIs
<1>8. /\ DOMAIN batch' = {"mode", "reqs", "decoding", "id"} /\ batch'.mode = "decode"
      /\ batch'.reqs = s /\ batch'.decoding = {}
  BY <1>2
<1>9. Now' = kept /\ runningBatch' = s /\ Running' = kept BY <1>2, <1>8 DEF Now, Running
<1>10. /\ kvHeld' = [r \in Req |-> IF r \in out THEN kvHeld[r] - seqLen[r]
                                   ELSE IF r \in kept THEN kvHeld[r] + 1 ELSE kvHeld[r]]
       /\ fill' = [r \in Req |-> IF r \in out THEN 0 ELSE fill[r]]
       /\ seqLen' = [r \in Req |-> IF r \in kept THEN seqLen[r] + 1 ELSE seqLen[r]]
  BY <1>2, <1>7
<1>11. resultQueue' = Append(resultQueue, batch') /\ phase' = "result" BY <1>2
<1>12. kept \cup out = Running \ finished /\ kept \cap out = {} BY <1>4, <1>5
<1> HIDE DEF u, s, kept
<1>13. DecodeOf(kept, out)
  BY <1>3, <1>5, <1>6, <1>8, <1>9, <1>10, <1>11, <1>12 DEF DecodeOf
<1>14. QED BY <1>13

LEMMA DecodeRight ==
  ASSUME Good, RunDecode
  PROVE  Good'
<1>1. PICK kept, out : DecodeOf(kept, out) BY DecodeIs
<1> USE DEF Good
<1>2. /\ phase = "decode" /\ phase' = "result" /\ kept \cup out = Running \ finished
      /\ kept \cap out = {} /\ Waiting' = Waiting \cup out /\ Running' = kept /\ Now' = kept
      /\ batch'.mode = "decode" /\ resultQueue' = Append(resultQueue, batch')
      /\ UNCHANGED <<lastBatch, beingChunked, isBeingChunked, outputs, finished, arrived, isMixedChunk>>
  BY <1>1 DEF DecodeOf
<1>3. Now = {} /\ Started = [r \in Req |-> 0] BY <1>2, Views
<1>4. LoopType'
  <2>1. IsBatch(lastBatch)' BY <1>2 DEF LoopType, IsBatch
  <2>2. IsBatch(batch)' BY <1>1 DEF DecodeOf, IsBatch
  <2>3. kvHeld \in [Req -> Int] /\ fill \in [Req -> Int] /\ seqLen \in [Req -> Int] BY DEF LoopType
  <2>4. kvHeld' \in [Req -> Int] /\ fill' \in [Req -> Int] /\ seqLen' \in [Req -> Int]
    BY <1>1, <2>3 DEF DecodeOf
  <2>5. waitingQueue' \in Seq(Req) /\ IsInjective(waitingQueue') /\ runningBatch' \in Seq(Req)
    BY <1>1 DEF DecodeOf
  <2>6. QED BY <1>2, <2>1, <2>2, <2>4, <2>5 DEF LoopType
<1>5. QueueRight' BY <1>2, QueueGrows
<1>6. Apart'
  <2>1. Waiting \cap (Running \cup finished) = {} /\ Running \subseteq arrived BY DEF Apart
  <2>2. out \subseteq Running \ finished /\ kept \subseteq Running \ finished BY <1>2
  <2>3. Before' = Before BY <1>2 DEF Before
  <2>4. (Waiting \cup Running \cup Before \cup Now \cup finished \subseteq arrived)'
    BY <1>2, <2>1, <2>2, <2>3 DEF Apart
  <2>5. (Waiting \cap (Running \cup Now \cup finished \cup {beingChunked}) = {})'
    BY <1>2, <2>1, <2>2 DEF Apart
  <2>6. QED BY <1>2, <2>2, <2>4, <2>5 DEF Apart
<1>7. Part' = Part /\ Before' = Before /\ Prefilled(batch)' = {}
  <2>1. Started' = [r \in Req |-> 0] BY <1>2 DEF Started
  <2>2. Part' = Part BY <1>2, <1>3, <2>1 DEF Part
  <2>3. QED BY <1>2, <2>2 DEF Before, Prefilled
<1>8. ChunkRight'
  <2>1. Newest' = batch' BY <1>2 DEF Newest
  <2>2. (beingChunked # NoReq =>
          IF Newest.mode = "extend" THEN beingChunked \in Prefilled(Newest)
          ELSE beingChunked \notin ToSet(Newest.reqs))'
    <3>1. beingChunked \notin kept BY <1>2 DEF Apart
    <3>2. ToSet(Newest'.reqs) = kept BY <1>2, <2>1 DEF Now
    <3>3. QED BY <1>2, <2>1, <3>1, <3>2
  <2>3. (\A r \in Req : Part[r] = 1 =>
          /\ r \in Prefilled(lastBatch)
          /\ r = beingChunked \/ (phase = "result" /\ r \in Prefilled(batch)))'
    BY <1>2, <1>7, LastStays DEF ChunkRight
  <2>4. QED BY <1>2, <1>7, <2>2, <2>3 DEF ChunkRight
<1>9. KVRight'
  <2>1. /\ kvHeld' = [r \in Req |-> IF r \in out THEN kvHeld[r] - seqLen[r]
                                    ELSE IF r \in kept THEN kvHeld[r] + 1 ELSE kvHeld[r]]
        /\ fill' = [r \in Req |-> IF r \in out THEN 0 ELSE fill[r]]
        /\ seqLen' = [r \in Req |-> IF r \in kept THEN seqLen[r] + 1 ELSE seqLen[r]]
    BY <1>1 DEF DecodeOf
  <2>2. /\ kept \cup out \subseteq arrived \ finished /\ (kept \cup out) \cap Waiting = {}
        /\ finished \subseteq arrived /\ arrived \subseteq Req /\ beingChunked \notin kept \cup out
    BY <1>2 DEF Apart, LoopType
  <2>3. kvHeld \in [Req -> Int] /\ fill \in [Req -> Int] /\ seqLen \in [Req -> Int] BY DEF LoopType
  <2>4. (\A r \in Req : r \in Waiting \/ r \notin arrived => kvHeld[r] = 0 /\ fill[r] = 0)'
    <3>1. ASSUME NEW r \in Req, r \in Waiting' \/ r \notin arrived PROVE kvHeld'[r] = 0 /\ fill'[r] = 0
      <4>1. CASE r \in out
        <5>1. kvHeld[r] = seqLen[r] BY <2>2, <4>1 DEF KVRight
        <5>2. QED BY <2>1, <2>3, <4>1, <5>1
      <4>2. CASE r \notin out
        <5>1. (r \in Waiting \/ r \notin arrived) /\ r \notin kept BY <1>2, <2>2, <3>1, <4>2
        <5>2. QED BY <2>1, <4>2, <5>1 DEF KVRight
      <4>3. QED BY <4>1, <4>2
    <3>2. QED BY <1>2, <3>1
  <2>5. (\A r \in finished : kvHeld[r] = IF r \in Before THEN 1 ELSE 0)'
    BY <1>2, <1>7, <2>1, <2>2 DEF KVRight
  <2>6. (\A r \in finished \cap Before : lastBatch.mode = "decode" \/ isMixedChunk)'
    BY <1>2, <1>7 DEF KVRight
  <2>7. ASSUME NEW r \in arrived \ finished, r \notin Waiting'
        PROVE  /\ kvHeld'[r] = seqLen'[r]
               /\ r = beingChunked => fill'[r] = seqLen'[r] /\ fill'[r] < FullLen(r)
               /\ r # beingChunked => /\ fill'[r] >= Prompt[r]
                                      /\ seqLen'[r] = Prompt[r] + Len(outputs[r]) - 1 + Awaited'[r]
    <3>1. r \in Req /\ r \notin Waiting /\ r \notin out BY <1>2, <2>2, <2>7
    <3>2. /\ kvHeld[r] = seqLen[r]
          /\ r = beingChunked => fill[r] = seqLen[r] /\ fill[r] < FullLen(r)
          /\ r # beingChunked => /\ fill[r] >= Prompt[r]
                                 /\ seqLen[r] = Prompt[r] + Len(outputs[r]) - 1 + Awaited[r]
      BY <3>1 DEF KVRight
    <3>3. Awaited'[r] = Awaited[r] + (IF r \in kept THEN 1 ELSE 0)
      <4>1. Awaited'[r] = (IF r \in Before /\ Part[r] = 0 THEN 1 ELSE 0) + (IF r \in kept THEN 1 ELSE 0)
        BY <1>2, <1>7, <3>1 DEF Awaited
      <4>2. Awaited[r] = (IF r \in Before /\ Part[r] = 0 THEN 1 ELSE 0) + 0
        BY <1>3, <3>1 DEF Awaited
      <4>3. QED BY <4>1, <4>2
    <3>4. /\ fill'[r] = fill[r] /\ kvHeld'[r] = kvHeld[r] + (IF r \in kept THEN 1 ELSE 0)
          /\ seqLen'[r] = seqLen[r] + (IF r \in kept THEN 1 ELSE 0)
      BY <2>1, <2>3, <3>1
    <3>5. /\ kvHeld[r] \in Int /\ seqLen[r] \in Int /\ Awaited[r] \in Int
          /\ Prompt[r] \in Nat /\ Len(outputs[r]) \in Nat
      BY <2>3, <3>1, Views, FullLenIs
    <3>6. r = beingChunked => r \notin kept BY <2>2
    <3> DEFINE one == IF r \in kept THEN 1 ELSE 0
               l == Len(outputs[r])
    <3>7. kvHeld'[r] = seqLen'[r] BY <3>2, <3>4
    <3>8. CASE r = beingChunked
      <4>1. one = 0 BY <3>6, <3>8
      <4>2. seqLen[r] + 0 = seqLen[r] BY <3>5
      <4>3. QED BY <3>2, <3>4, <3>7, <3>8, <4>1, <4>2
    <3>9. CASE r # beingChunked
      <4>1. fill'[r] >= Prompt[r] BY <3>2, <3>4, <3>9
      <4>2. /\ seqLen'[r] = seqLen[r] + one /\ seqLen[r] = Prompt[r] + l - 1 + Awaited[r]
            /\ Awaited'[r] = Awaited[r] + one /\ one \in Int /\ l \in Int
        BY <3>2, <3>3, <3>4, <3>5, <3>9
      <4> HIDE DEF one, l
      <4>3. seqLen'[r] = Prompt[r] + l - 1 + Awaited'[r] BY <3>5, <4>2
      <4>4. QED BY <3>7, <3>9, <4>1, <4>3 DEF l
    <3>10. QED BY <3>8, <3>9
  <2>8. (\A r \in arrived \ finished : r \notin Waiting =>
          /\ kvHeld[r] = seqLen[r]
          /\ r = beingChunked => fill[r] = seqLen[r] /\ fill[r] < FullLen(r)
          /\ r # beingChunked => /\ fill[r] >= Prompt[r]
                                 /\ seqLen[r] = Prompt[r] + Len(outputs[r]) - 1 + Awaited[r])'
    BY <1>2, <2>7 DEF FullLen
  <2>9. QED BY <2>4, <2>5, <2>6, <2>8 DEF KVRight
<1>10. QED BY <1>4, <1>5, <1>6, <1>8, <1>9

-----------------------------------------------------------------------------
(* The result of the batch before, with which the iteration ends.            *)

\* It gives each of its requests but those with a part of their prompt and those that have
\* ended a token, the last one for some.
ResultOf(given, ended) ==
  /\ phase = "result" /\ phase' = "recv" /\ lastBatch' = batch /\ batch' = NoBatch
  /\ given = {r \in Before \ finished : Part[r] = 0}
  /\ ended \subseteq given /\ ended \cap Waiting = {}
  /\ {r \in given : Len(outputs[r]) + 1 >= MaxNew[r]} \subseteq ended
  /\ DOMAIN outputs' = Req
  /\ \A r \in Req : /\ outputs'[r] \in Seq(ToSet(outputs'[r]))
                    /\ Len(outputs'[r]) = Len(outputs[r]) + (IF r \in given THEN 1 ELSE 0)
  /\ finished' = finished \cup ended
  /\ kvHeld' = [r \in Req |-> kvHeld[r] - (IF r \in ended THEN Prompt[r] + Len(outputs[r]) ELSE 0)
                                        - (IF r \in Before \cap finished THEN 1 ELSE 0)]
  /\ isBeingChunked' = Started /\ resultQueue' = Pending(batch)
  /\ UNCHANGED <<waitingQueue, runningBatch, beingChunked, seqLen, fill, arrived, isMixedChunk>>

\* Who has a part only, and who has none.
LEMMA PartsAre ==
  ASSUME Good, phase = "result"
  PROVE  /\ {r \in Before \ finished : lastBatch.mode = "decode" \/ isBeingChunked[r] <= 0}
              = {r \in Before \ finished : Part[r] = 0}
         /\ \A r \in Req : isBeingChunked[r] - (IF r \in Before \ finished /\ Part[r] # 0 THEN 1 ELSE 0)
                             = Started[r]
<1> USE DEF Good
<1>1. isBeingChunked \in [Req -> Int] /\ Before \subseteq Req /\ NoReq \notin Req
  BY Views, OverlapAssumption DEF LoopType
<1>2. \A r \in Req : /\ Part[r] \in 0 .. 1 /\ Started[r] \in 0 .. 1
                     /\ isBeingChunked[r] = Part[r] + Started[r] /\ isBeingChunked[r] \in Int
  BY <1>1 DEF ChunkRight, Part, Started
<1>3. \A r \in Before : Started[r] = 1 => Part[r] = 1 BY <1>1 DEF Started, ChunkRight
<1>4. ASSUME NEW r \in Req, Part[r] = 1
      PROVE  lastBatch.mode # "decode" /\ r \in Before \ finished
  <2>1. r \in Prefilled(lastBatch) /\ (r = beingChunked \/ r \in Prefilled(batch))
    BY <1>4 DEF ChunkRight
  <2>2. r \in Before /\ lastBatch.mode = "extend" BY <2>1 DEF Prefilled, Before
  <2>3. r \notin finished
    <3>1. r # NoReq BY <1>1
    <3>2. r \in Prefilled(batch) => r \in Now BY DEF Prefilled, Now
    <3>3. QED BY <2>1, <3>1, <3>2 DEF Apart
  <2>4. QED BY <2>2, <2>3
<1>5. ASSUME NEW r \in Before \ finished
      PROVE  lastBatch.mode = "decode" \/ isBeingChunked[r] <= 0 <=> Part[r] = 0
  <2>1. r \in Req BY <1>1
  <2>2. CASE Part[r] = 0
    <3>1. Started[r] = 0 BY <1>2, <1>3, <2>1, <2>2
    <3>2. isBeingChunked[r] = 0 BY <1>2, <2>1, <2>2, <3>1
    <3>3. QED BY <2>2, <3>2
  <2>3. CASE Part[r] = 1
    <3>1. isBeingChunked[r] > 0 /\ lastBatch.mode # "decode" BY <1>2, <1>4, <2>1, <2>3
    <3>2. QED BY <1>2, <2>1, <2>3, <3>1
  <2>4. QED BY <1>2, <2>1, <2>2, <2>3
<1>6. ASSUME NEW r \in Req
      PROVE  isBeingChunked[r] - (IF r \in Before \ finished /\ Part[r] # 0 THEN 1 ELSE 0) = Started[r]
  <2>1. CASE Part[r] = 1 BY <1>2, <1>4, <2>1
  <2>2. CASE Part[r] = 0 BY <1>2, <2>2
  <2>3. QED BY <1>2, <2>1, <2>2
<1>7. QED BY <1>5, <1>6

LEMMA NoResultIs ==
  ASSUME Good, NoResult, phase' # "exited"
  PROVE  ResultOf({}, {})
<1> USE DEF Good
<1>1. /\ phase = "result" /\ lastBatch.mode = "none" /\ phase' = "recv" /\ lastBatch' = batch
      /\ batch' = NoBatch
      /\ UNCHANGED <<waitingQueue, runningBatch, beingChunked, resultQueue, requests, tensors, arrived,
                     isMixedChunk>>
  BY DEF NoResult, EndIteration, env
<1>2. Before = {} BY <1>1, ModeNone DEF LoopType, Before
<1>3. isBeingChunked' = Started
  <2>1. \A r \in Req : isBeingChunked[r] - 0 = Started[r] BY <1>1, <1>2, PartsAre
  <2>2. isBeingChunked \in [Req -> Int] /\ Started \in [Req -> Int] BY Views DEF LoopType
  <2>3. isBeingChunked = Started BY <2>1, <2>2
  <2>4. QED BY <1>1, <2>3 DEF requests
<1>4. resultQueue' = Pending(batch)
  <2>1. resultQueue = <<>> \o Pending(batch) BY <1>1 DEF QueueRight, Pending
  <2> DEFINE b == batch
  <2> HIDE DEF b
  <2>2. <<>> \o <<b>> = <<b>> /\ <<>> \o <<>> = <<>> OBVIOUS
  <2>3. QED BY <1>1, <2>1, <2>2 DEF Pending, b
<1>5. kvHeld' = [r \in Req |-> kvHeld[r] - 0 - 0]
  <2>1. kvHeld \in [Req -> Int] BY DEF LoopType
  <2>2. QED BY <1>1, <2>1 DEF requests
<1>6. \A r \in Req : outputs[r] \in Seq(ToSet(outputs[r])) /\ Len(outputs[r]) = Len(outputs[r]) + 0
  BY FullLenIs DEF LoopType
<1>7. DOMAIN outputs = Req BY DEF LoopType
<1>8. QED BY <1>1, <1>2, <1>3, <1>4, <1>5, <1>6, <1>7 DEF ResultOf, requests, tensors

\* One token more.
LEMMA TokenAdded ==
  ASSUME NEW s, s \in Seq(ToSet(s)), NEW e
  PROVE  LET t == Append(s, e) IN t \in Seq(ToSet(t)) /\ Len(t) = Len(s) + 1
<1> DEFINE E == ToSet(s) \cup {e}
           t == Append(s, e)
<1>1. s \in Seq(E) /\ e \in E
  <2>1. ToSet(s) \subseteq E OBVIOUS
  <2> DEFINE S == ToSet(s)
  <2> HIDE DEF S, E
  <2>2. s \in Seq(S) /\ S \subseteq E BY <2>1 DEF S
  <2>3. s \in Seq(E) BY <2>2
  <2>4. QED BY <2>3 DEF E
<1> HIDE DEF E
<1>2. t \in Seq(E) /\ ToSet(t) = ToSet(s) \cup {e} BY <1>1, AppendedElement
<1>3. Len(t) = Len(s) + 1 BY <1>1
<1>4. ToSet(t) = E BY <1>2 DEF E
<1>5. QED BY <1>2, <1>3, <1>4

\* What ApplyResult makes of the result of b, given those who get a token and those of them
\* who stop.
AppliedTo(b, given, stopped) ==
  LET tokens == Head(outputQueue)
      chunk  == {r \in ToSet(b.reqs) \ finished : r \notin given}
      index(r) == CHOOSE i \in DOMAIN b.reqs : b.reqs[i] = r
      out    == [r \in Req |-> IF r \in given THEN Append(outputs[r], tokens[index(r)]) ELSE outputs[r]]
      full   == {r \in given : Len(out[r]) >= MaxNew[r]}
      ended  == stopped \cup full
  IN
  /\ Cached(b, given, ended) \cap ToSet(waitingQueue) = {}
  /\ resultQueue' = Tail(resultQueue)
  /\ outputs' = out /\ finished' = finished \cup ended
  /\ kvHeld' = [r \in Req |-> kvHeld[r] - (IF r \in ended THEN Prompt[r] + Len(out[r]) - 1 ELSE 0)
                                        - (IF r \in Delayed(b) THEN 1 ELSE 0)]
  /\ isBeingChunked' = [r \in Req |-> isBeingChunked[r] - (IF r \in chunk THEN 1 ELSE 0)]
  /\ fill' = fill /\ EndIteration

LEMMA ApplyIs ==
  ASSUME Good, ApplyResult, phase' # "exited"
  PROVE  \E given, ended : ResultOf(given, ended)
<1> USE DEF Good
<1>1. phase = "result" /\ lastBatch.mode # "none" BY DEF ApplyResult
<1> DEFINE b == lastBatch
           tokens == Head(outputQueue)
           given == {r \in Before \ finished : Part[r] = 0}
           chunk == {r \in Before \ finished : r \notin given}
           index(r) == CHOOSE i \in DOMAIN b.reqs : b.reqs[i] = r
           out == [r \in Req |-> IF r \in given THEN Append(outputs[r], tokens[index(r)]) ELSE outputs[r]]
           full == {r \in given : Len(out[r]) >= MaxNew[r]}
<1>2. Head(resultQueue) = lastBatch /\ Tail(resultQueue) = Pending(batch)
  <2> DEFINE l == lastBatch
             c == batch
  <2>1. resultQueue = <<l>> \o Pending(c) BY <1>1 DEF QueueRight, Pending
  <2> HIDE DEF l, c
  <2>2. /\ Head(<<l>> \o <<c>>) = l /\ Tail(<<l>> \o <<c>>) = <<c>>
        /\ Head(<<l>> \o <<>>) = l /\ Tail(<<l>> \o <<>>) = <<>>
    <3> DEFINE E == {l, c}
               s == <<l>>
               one == <<c>>
    <3>1. l \in E /\ c \in E OBVIOUS
    <3> HIDE DEF E
    <3>2. /\ s \in Seq(E) /\ Len(s) = 1 /\ s[1] = l /\ Head(s) = l /\ Tail(s) = <<>>
          /\ one \in Seq(E) /\ Len(one) = 1 /\ one[1] = c
      BY <3>1
    <3> HIDE DEF s
    <3>3. s \o one = Append(s, c) /\ s \o <<>> = s BY <3>1, <3>2
    <3> DEFINE u == Append(s, c)
    <3>4. u \in Seq(E) /\ Len(u) = 2 /\ DOMAIN u = 1 .. 2 /\ u[1] = l /\ u[2] = c
      <4> HIDE DEF one
      <4>1. s \in Seq(E) /\ c \in E BY <3>1, <3>2
      <4>2. u \in Seq(E) /\ Len(u) = Len(s) + 1 BY <4>1
      <4>3. (\A k \in 1 .. Len(s) : u[k] = s[k]) /\ u[Len(s) + 1] = c BY <4>1
      <4> HIDE DEF u
      <4>4. Len(u) = 2 /\ DOMAIN u = 1 .. 2 BY <3>2, <4>2
      <4>5. 1 \in 1 .. Len(s) /\ Len(s) + 1 = 2 BY <3>2
      <4>6. QED BY <3>2, <4>2, <4>3, <4>4, <4>5
    <3> HIDE DEF u, one
    <3>5. Head(u) = l BY <3>4
    <3>6. Tail(u) \in Seq(E) /\ Len(Tail(u)) = 1 /\ Tail(u)[1] = c BY <3>4
    <3>7. Tail(u) = one
      <4> DEFINE v == Tail(u)
      <4> HIDE DEF v
      <4>1. v \in Seq(E) /\ Len(v) = 1 /\ v[1] = c BY <3>6 DEF v
      <4>2. DOMAIN v = 1 .. 1 /\ DOMAIN one = 1 .. 1 BY <3>2, <4>1
      <4>3. \A i \in 1 .. 1 : v[i] = one[i] BY <3>2, <4>1
      <4>4. v = one BY <3>2, <4>1, <4>2, <4>3
      <4>5. QED BY <4>4 DEF v
    <3>8. QED BY <3>2, <3>3, <3>5, <3>7 DEF s, u, one
  <2>3. QED BY <2>1, <2>2 DEF Pending, l, c
<1>3. GetsToken(lastBatch) = given BY <1>1, PartsAre DEF GetsToken, Before
<1>4. PICK stopped \in SUBSET given : AppliedTo(b, given, stopped)
  <2> DEFINE h == Head(resultQueue)
  <2>1. PICK stopped \in SUBSET GetsToken(h) : AppliedTo(h, GetsToken(h), stopped)
    BY Zenon DEF ApplyResult, AppliedTo
  <2>2. h = b BY <1>2
  <2> HIDE DEF given, h
  <2>3. QED BY <1>3, <2>1, <2>2
<1>5. UNCHANGED <<waitingQueue, runningBatch, beingChunked, seqLen, arrived, isMixedChunk>>
  BY DEF ApplyResult, tensors, env
<1> DEFINE ended == stopped \cup full
<1>6. ended \subseteq given /\ ended \cap Waiting = {} BY <1>4 DEF AppliedTo, Cached, Waiting
<1>7. \A r \in Req : outputs[r] \in Seq(ToSet(outputs[r])) /\ Len(outputs[r]) \in Nat
  BY FullLenIs DEF LoopType
<1>8. \A r \in Req : /\ out[r] \in Seq(ToSet(out[r]))
                     /\ Len(out[r]) = Len(outputs[r]) + (IF r \in given THEN 1 ELSE 0)
  <2>1. ASSUME NEW r \in Req
        PROVE  /\ out[r] \in Seq(ToSet(out[r]))
               /\ Len(out[r]) = Len(outputs[r]) + (IF r \in given THEN 1 ELSE 0)
    <3> DEFINE s == outputs[r]
               e == tokens[index(r)]
    <3>1. out[r] = IF r \in given THEN Append(s, e) ELSE s OBVIOUS
    <3> HIDE DEF s, e, out, given
    <3>2. s \in Seq(ToSet(s)) /\ Len(s) \in Nat BY <1>7, <2>1 DEF s
    <3>3. LET t == Append(s, e) IN t \in Seq(ToSet(t)) /\ Len(t) = Len(s) + 1
      BY <3>2, TokenAdded
    <3>4. CASE r \in given BY <3>1, <3>3, <3>4 DEF s
    <3>5. CASE r \notin given BY <3>1, <3>2, <3>5 DEF s
    <3>6. QED BY <3>4, <3>5
  <2>2. QED BY <2>1
<1>9. given \subseteq Req BY Views
<1>10. {r \in given : Len(outputs[r]) + 1 >= MaxNew[r]} \subseteq ended
  <2>1. full = {r \in given : Len(outputs[r]) + 1 >= MaxNew[r]}
    <3> HIDE DEF out, given
    <3>1. \A r \in given : Len(out[r]) = Len(outputs[r]) + 1 BY <1>8, <1>9
    <3>2. QED BY <3>1
  <2> HIDE DEF full
  <2>2. QED BY <2>1
<1>11. Delayed(b) = Before \cap finished BY DEF Delayed, Before, KVRight
<1>12. kvHeld' = [r \in Req |-> kvHeld[r] - (IF r \in ended THEN Prompt[r] + Len(outputs[r]) ELSE 0)
                                          - (IF r \in Before \cap finished THEN 1 ELSE 0)]
  <2>1. kvHeld' = [r \in Req |-> kvHeld[r] - (IF r \in ended THEN Prompt[r] + Len(out[r]) - 1 ELSE 0)
                                           - (IF r \in Before \cap finished THEN 1 ELSE 0)]
    BY <1>4, <1>11 DEF AppliedTo
  <2> HIDE DEF out, given, ended
  <2>2. ASSUME NEW r \in Req, r \in ended
        PROVE  Prompt[r] + Len(out[r]) - 1 = Prompt[r] + Len(outputs[r])
    <3>1. Len(out[r]) = Len(outputs[r]) + 1 BY <1>6, <1>8, <2>2
    <3>2. Prompt[r] \in Nat /\ Len(outputs[r]) \in Nat BY <1>7, OverlapAssumption
    <3>3. QED BY <3>1, <3>2
  <2>3. QED BY <2>1, <2>2
<1>13. isBeingChunked' = Started
  <2>1. isBeingChunked' = [r \in Req |-> isBeingChunked[r]
                             - (IF r \in Before \ finished /\ Part[r] # 0 THEN 1 ELSE 0)]
    BY <1>4 DEF AppliedTo, Before
  <2>2. \A r \in Req : isBeingChunked[r] - (IF r \in Before \ finished /\ Part[r] # 0 THEN 1 ELSE 0)
                         = Started[r]
    BY <1>1, PartsAre
  <2>3. Started \in [Req -> Int] BY Views
  <2>4. QED BY <2>1, <2>2, <2>3
<1>14. /\ phase' = "recv" /\ lastBatch' = batch /\ batch' = NoBatch /\ outputs' = out
       /\ finished' = finished \cup ended /\ resultQueue' = Pending(batch) /\ fill' = fill
  BY <1>2, <1>4 DEF AppliedTo, EndIteration
<1>15. DOMAIN out = Req OBVIOUS
<1> HIDE DEF out, ended
<1>16. ResultOf(given, ended)
  BY <1>1, <1>5, <1>6, <1>8, <1>10, <1>12, <1>13, <1>14, <1>15 DEF ResultOf
<1> HIDE DEF given
<1>17. QED BY <1>16

LEMMA ResultType ==
  ASSUME Good, NEW given, NEW ended, ResultOf(given, ended)
  PROVE  LoopType' /\ QueueRight'
<1> USE DEF Good
<1>1. /\ phase' = "recv" /\ lastBatch' = batch /\ batch' = NoBatch /\ resultQueue' = Pending(batch)
      /\ UNCHANGED <<waitingQueue, runningBatch, beingChunked, seqLen, fill, arrived, isMixedChunk>>
      /\ DOMAIN outputs' = Req /\ \A r \in Req : outputs'[r] \in Seq(ToSet(outputs'[r]))
      /\ isBeingChunked' = Started
  BY DEF ResultOf
<1>2. IsBatch(lastBatch)' BY <1>1 DEF LoopType, IsBatch
<1>3. IsBatch(batch)'
  <2>1. <<>> \in Seq(Req) /\ ToSet(<<>>) = {} BY DEF ToSet
  <2>2. QED BY <1>1, <2>1 DEF NoBatch, IsBatch
<1>4. isBeingChunked' \in [Req -> Int] BY <1>1, Views
<1>5. kvHeld' \in [Req -> Int]
  <2>1. kvHeld \in [Req -> Int] BY DEF LoopType
  <2>2. \A r \in Req : Prompt[r] + Len(outputs[r]) \in Int BY FullLenIs
  <2>3. kvHeld' = [r \in Req |-> kvHeld[r] - (IF r \in ended THEN Prompt[r] + Len(outputs[r]) ELSE 0)
                                           - (IF r \in Before \cap finished THEN 1 ELSE 0)]
    BY DEF ResultOf
  <2>4. QED BY <2>1, <2>2, <2>3
<1>6. batch' = NoBatch' BY <1>1 DEF NoBatch
<1>7. LoopType' BY <1>1, <1>2, <1>3, <1>4, <1>5, <1>6 DEF LoopType
<1>8. QueueRight'
  <2>1. Pending(lastBatch)' = Pending(batch) /\ Pending(batch)' = <<>>
    BY <1>1, NoBatchIs DEF Pending
  <2> DEFINE b == batch
  <2> HIDE DEF b
  <2>2. <<b>> \o <<>> = <<b>> /\ <<>> \o <<>> = <<>>
    <3> DEFINE E == {b}
               s == <<b>>
    <3>1. s \in Seq(E) /\ <<>> \in Seq(E) OBVIOUS
    <3> HIDE DEF s, E
    <3>2. s \o <<>> = s /\ <<>> \o <<>> = <<>> BY <3>1
    <3>3. QED BY <3>2 DEF s
  <2>3. Pending(batch) \o <<>> = Pending(batch) BY <2>2 DEF Pending, b
  <2>4. QED BY <1>1, <2>1, <2>3 DEF QueueRight
<1>9. QED BY <1>7, <1>8

LEMMA ResultRight ==
  ASSUME Good, NEW given, NEW ended, ResultOf(given, ended)
  PROVE  Good'
<1> USE DEF Good
<1>1. /\ phase = "result" /\ phase' = "recv" /\ lastBatch' = batch /\ batch' = NoBatch
      /\ given = {r \in Before \ finished : Part[r] = 0}
      /\ ended \subseteq given /\ ended \cap Waiting = {} /\ finished' = finished \cup ended
      /\ \A r \in Req : Len(outputs'[r]) = Len(outputs[r]) + (IF r \in given THEN 1 ELSE 0)
      /\ isBeingChunked' = Started
      /\ UNCHANGED <<waitingQueue, runningBatch, beingChunked, seqLen, fill, arrived, isMixedChunk>>
  BY DEF ResultOf
<1>2. LoopType' /\ QueueRight' BY ResultType
<1>3. /\ Waiting' = Waiting /\ Running' = Running /\ Before' = Now /\ Now' = {}
      /\ Prefilled(lastBatch)' = Prefilled(batch) /\ Prefilled(batch)' = {}
  BY <1>1, NoBatchIs DEF Waiting, Running, Before, Now, Prefilled
<1>4. Part' = Started
  <2>1. Started' = [r \in Req |-> 0] BY <1>1 DEF Started
  <2>2. \A r \in Req : Started[r] - 0 = Started[r] BY Views
  <2>3. Started = [r \in Req |-> Started[r]] BY DEF Started
  <2>4. Part' = [r \in Req |-> Started[r] - 0] BY <1>1, <2>1 DEF Part
  <2>5. QED BY <2>2, <2>3, <2>4
<1>5. beingChunked \notin given BY <1>1 DEF ChunkRight
<1>6. Before \subseteq Req /\ Now \subseteq Req /\ NoReq \notin Req /\ arrived \subseteq Req
      /\ Before \subseteq arrived /\ finished \subseteq arrived
  BY Views, OverlapAssumption DEF LoopType, Apart
<1>7. Apart' BY <1>1, <1>3, <1>5, <1>6 DEF Apart
<1>8. ChunkRight'
  <2>1. Newest' = batch /\ Newest = batch BY <1>1 DEF Newest
  <2>2. (beingChunked # NoReq =>
          IF Newest.mode = "extend" THEN beingChunked \in Prefilled(Newest)
          ELSE beingChunked \notin ToSet(Newest.reqs))'
    BY <1>1, <2>1 DEF ChunkRight, Prefilled
  <2>3. \A r \in Req : Started[r] \in 0 .. 1 BY DEF Started
  <2>4. \A r \in Req : Started[r] = 1 => r = beingChunked /\ r \in Prefilled(batch)
    BY <1>1, <1>6, <2>1 DEF Started, ChunkRight
  <2>5. beingChunked \in Now => Started[beingChunked] = 1
    BY <1>1, <1>6, <2>1 DEF Started, ChunkRight, Now
  <2>6. QED BY <1>1, <1>3, <1>4, <2>2, <2>3, <2>4, <2>5 DEF ChunkRight
<1>9. KVRight'
  <2>1. kvHeld' = [r \in Req |-> kvHeld[r] - (IF r \in ended THEN Prompt[r] + Len(outputs[r]) ELSE 0)
                                           - (IF r \in Before \cap finished THEN 1 ELSE 0)]
    BY DEF ResultOf
  <2>2. kvHeld \in [Req -> Int] /\ seqLen \in [Req -> Int] /\ fill \in [Req -> Int] BY DEF LoopType
  <2>3. \A r \in Req : Prompt[r] \in Nat /\ Len(outputs[r]) \in Nat BY FullLenIs
  <2>4. Now \cap finished = {} /\ Waiting \cap finished = {} /\ Waiting \cap Now = {} BY DEF Apart
  <2>5. ASSUME NEW r \in Req
        PROVE  Awaited[r] = (IF r \in Before /\ Part[r] = 0 THEN 1 ELSE 0) + (IF r \in Now THEN 1 ELSE 0)
    BY DEF Awaited
  <2>6. (\A r \in Req : r \in Waiting \/ r \notin arrived => kvHeld[r] = 0 /\ fill[r] = 0)'
    <3>1. ASSUME NEW r \in Req, r \in Waiting \/ r \notin arrived PROVE kvHeld'[r] = 0 /\ fill[r] = 0
      <4>1. kvHeld[r] = 0 /\ fill[r] = 0 BY <3>1 DEF KVRight
      <4>2. r \notin ended /\ r \notin finished BY <1>1, <1>6, <2>4, <3>1
      <4>3. QED BY <2>1, <4>1, <4>2
    <3>2. QED BY <1>1, <1>3, <3>1
  <2>7. (\A r \in finished : kvHeld[r] = IF r \in Before THEN 1 ELSE 0)'
    <3>1. ASSUME NEW r \in finished PROVE kvHeld'[r] = IF r \in Now THEN 1 ELSE 0
      <4>1. r \in Req /\ r \notin ended /\ r \notin Now BY <1>1, <1>6, <2>4
      <4>2. kvHeld[r] = IF r \in Before THEN 1 ELSE 0 BY DEF KVRight
      <4>3. QED BY <2>1, <4>1, <4>2
    <3>2. ASSUME NEW r \in ended PROVE kvHeld'[r] = IF r \in Now THEN 1 ELSE 0
      <4>1. /\ r \in Req /\ r \in arrived \ finished /\ r \notin Waiting /\ r # beingChunked
            /\ r \in Before /\ Part[r] = 0
        BY <1>1, <1>5, <1>6
      <4>2. kvHeld[r] = seqLen[r] /\ seqLen[r] = Prompt[r] + Len(outputs[r]) - 1 + Awaited[r]
        BY <4>1 DEF KVRight
      <4>3. Awaited[r] = 1 + (IF r \in Now THEN 1 ELSE 0) BY <2>5, <4>1
      <4>4. kvHeld'[r] = kvHeld[r] - (Prompt[r] + Len(outputs[r])) BY <2>1, <2>2, <2>3, <4>1
      <4>5. QED BY <2>2, <2>3, <4>1, <4>2, <4>3, <4>4
    <3>3. QED BY <1>1, <1>3, <3>1, <3>2
  <2>8. (\A r \in finished \cap Before : lastBatch.mode = "decode" \/ isMixedChunk)'
    <3>1. ASSUME NEW r \in ended \cap Now PROVE batch.mode = "decode" \/ isMixedChunk
      <4>1. r \notin Prefilled(batch) BY <1>1 DEF ChunkRight
      <4>2. IsBatch(batch) BY DEF LoopType
      <4>3. batch.mode # "none" BY <4>2, ModeNone DEF Now
      <4>4. batch.mode = "extend" => r \in batch.decoding BY <4>1 DEF Prefilled, Now
      <4>5. QED BY <4>2, <4>3, <4>4 DEF IsBatch
    <3>2. QED BY <1>1, <1>3, <2>4, <3>1
  <2>9. ASSUME NEW r \in arrived \ finished', r \notin Waiting
        PROVE  /\ kvHeld'[r] = seqLen[r]
               /\ r = beingChunked => fill[r] = seqLen[r] /\ fill[r] < FullLen(r)'
               /\ r # beingChunked => /\ fill[r] >= Prompt[r]
                                      /\ seqLen[r] = Prompt[r] + Len(outputs'[r]) - 1 + Awaited'[r]
    <3>1. r \in Req /\ r \in arrived \ finished /\ r \notin ended BY <1>1, <1>6, <2>9
    <3>2. /\ kvHeld[r] = seqLen[r]
          /\ r = beingChunked => fill[r] = seqLen[r] /\ fill[r] < FullLen(r)
          /\ r # beingChunked => /\ fill[r] >= Prompt[r]
                                 /\ seqLen[r] = Prompt[r] + Len(outputs[r]) - 1 + Awaited[r]
      BY <2>9, <3>1 DEF KVRight
    <3>3. kvHeld'[r] = kvHeld[r] BY <2>1, <2>2, <3>1
    <3>4. /\ Len(outputs'[r]) = Len(outputs[r]) + (IF r \in given THEN 1 ELSE 0)
          /\ Len(outputs[r]) \in Nat /\ Prompt[r] \in Nat
      BY <1>1, <2>3, <3>1
    <3>5. r = beingChunked => FullLen(r)' = FullLen(r)
      <4>1. r = beingChunked => Len(outputs'[r]) = Len(outputs[r]) BY <1>5, <3>4
      <4>2. QED BY <4>1 DEF FullLen
    <3>6. Awaited'[r] \in Int /\ Awaited[r] \in Int
      <4>1. Awaited' \in [Req -> Int] /\ Awaited \in [Req -> Int] BY Views, <1>2, <1>3, <1>4 DEF Awaited
      <4>2. QED BY <3>1, <4>1
    <3>7. ASSUME r # beingChunked
          PROVE  Len(outputs'[r]) + Awaited'[r] = Len(outputs[r]) + Awaited[r]
      <4>1. Started[r] = 0 BY <3>1, <3>7 DEF Started
      <4>2. Awaited'[r] = (IF r \in Now THEN 1 ELSE 0) BY <1>3, <1>4, <3>1, <4>1 DEF Awaited
      <4>3. r \in given <=> r \in Before /\ Part[r] = 0 BY <1>1, <3>1
      <4>4. Awaited[r] = (IF r \in given THEN 1 ELSE 0) + (IF r \in Now THEN 1 ELSE 0)
        BY <2>5, <3>1, <4>3
      <4>5. CASE r \in given
        <5>1. Len(outputs'[r]) = Len(outputs[r]) + 1 BY <3>4, <4>5
        <5>2. Awaited[r] = 1 + Awaited'[r] BY <4>2, <4>4, <4>5
        <5> DEFINE l == Len(outputs[r])
                   a == Awaited'[r]
        <5>3. l \in Int /\ a \in Int BY <3>4, <3>6
        <5> HIDE DEF l, a
        <5>4. (l + 1) + a = l + (1 + a) BY <5>3
        <5>5. QED BY <5>1, <5>2, <5>4 DEF l, a
      <4>6. CASE r \notin given
        <5>1. Len(outputs'[r]) = Len(outputs[r]) BY <3>4, <4>6
        <5>2. Awaited[r] = Awaited'[r] BY <4>2, <4>4, <4>6
        <5>3. QED BY <5>1, <5>2
      <4>7. QED BY <4>5, <4>6
    <3>8. CASE r = beingChunked BY <3>2, <3>3, <3>5, <3>8
    <3>9. CASE r # beingChunked
      <4>1. Len(outputs'[r]) + Awaited'[r] = Len(outputs[r]) + Awaited[r] BY <3>7, <3>9
      <4> DEFINE k == Len(outputs'[r])
                 a == Awaited'[r]
      <4>2. k \in Int BY <3>4
      <4> HIDE DEF k, a
      <4>3. k + a = Len(outputs[r]) + Awaited[r] /\ a \in Int BY <3>6, <4>1 DEF k, a
      <4>4. Prompt[r] + k - 1 + a = Prompt[r] + Len(outputs[r]) - 1 + Awaited[r]
        <5> DEFINE l == Len(outputs[r])
                   w == Awaited[r]
                   p == Prompt[r]
        <5>1. l \in Int /\ w \in Int /\ p \in Int /\ k + a = l + w BY <3>4, <3>6, <4>3
        <5> HIDE DEF l, w, p
        <5>2. p + k - 1 + a = p + l - 1 + w BY <4>2, <4>3, <5>1
        <5>3. QED BY <5>2 DEF l, w, p
      <4>5. QED BY <3>2, <3>3, <3>9, <4>4 DEF k, a
    <3>10. QED BY <3>8, <3>9
  <2>10. (\A r \in arrived \ finished : r \notin Waiting =>
           /\ kvHeld[r] = seqLen[r]
           /\ r = beingChunked => fill[r] = seqLen[r] /\ fill[r] < FullLen(r)
           /\ r # beingChunked => /\ fill[r] >= Prompt[r]
                                  /\ seqLen[r] = Prompt[r] + Len(outputs[r]) - 1 + Awaited[r])'
    BY <1>1, <1>3, <2>9
  <2>11. QED BY <2>6, <2>7, <2>8, <2>10 DEF KVRight
<1>10. QED BY <1>2, <1>7, <1>8, <1>9

-----------------------------------------------------------------------------
(* The theorems.                                                             *)

LEMMA InitRight == Init => Good
<1> SUFFICES ASSUME Init PROVE Good OBVIOUS
<1>1. <<>> \in Seq(Req) /\ IsInjective(<<>>) /\ ToSet(<<>>) = {} BY DEF IsInjective, ToSet
<1>2. LoopType
  <2>1. /\ phase = "recv" /\ waitingQueue = <<>> /\ runningBatch = <<>> /\ lastBatch = NoBatch
        /\ batch = NoBatch /\ beingChunked = NoReq /\ arrived = {}
        /\ seqLen = [r \in Req |-> 0] /\ kvHeld = [r \in Req |-> 0] /\ fill = [r \in Req |-> 0]
        /\ isBeingChunked = [r \in Req |-> 0] /\ outputs = [r \in Req |-> <<>>]
    BY DEF Init
  <2>2. <<>> \in Seq(ToSet(<<>>)) OBVIOUS
  <2>3. QED BY <1>1, <2>1, <2>2, NoBatchIs DEF LoopType
<1>3. /\ Waiting = {} /\ Running = {} /\ Before = {} /\ Now = {} /\ Prefilled(batch) = {}
      /\ finished = {} /\ arrived = {} /\ beingChunked = NoReq /\ NoReq \notin Req
      /\ phase = "recv" /\ lastBatch.mode = "none"
  BY <1>1, NoBatchIs, OverlapAssumption DEF Init, Waiting, Running, Before, Now
<1>4. QueueRight
  <2>1. resultQueue = <<>> /\ Pending(lastBatch) = <<>> /\ Pending(batch) = <<>>
    BY NoBatchIs DEF Init, Pending
  <2>2. <<>> \o <<>> = <<>> OBVIOUS
  <2>3. QED BY <2>1, <2>2 DEF QueueRight
<1>5. Apart BY <1>3 DEF Apart
<1>6. Part = [r \in Req |-> 0]
  <2>1. Started = [r \in Req |-> 0] BY <1>3 DEF Started
  <2>2. isBeingChunked = [r \in Req |-> 0] BY DEF Init
  <2>3. QED BY <2>1, <2>2 DEF Part
<1>7. ChunkRight BY <1>3, <1>6 DEF ChunkRight
<1>8. KVRight BY <1>3 DEF KVRight, Init
<1>9. QED BY <1>2, <1>4, <1>5, <1>7, <1>8 DEF Good

LEMMA StepRight == LoopInv /\ [Next]_vars => LoopInv'
<1> SUFFICES ASSUME LoopInv, [Next]_vars, phase' # "exited" PROVE Good' BY DEF LoopInv
<1>1. phase # "exited"
  <2>1. CASE UNCHANGED vars BY <2>1 DEF vars
  <2>2. CASE Next
    <3>1. phase = "exited" => ForwardThread
      BY <2>2 DEF Next, Receive, Schedule, MergeLastBatch, SkipPrefill, LaunchPrefill, NothingAdmitted,
                  RunDecode, NothingToRun, NoResult, ApplyResult
    <3>2. ForwardThread => phase' = phase BY DEF ForwardThread, TakeJob, Forward, Sample
    <3>3. QED BY <3>1, <3>2
  <2>3. QED BY <2>1, <2>2
<1>2. Good BY <1>1 DEF LoopInv
<1>3. CASE \E r \in Req : Receive(r) BY <1>2, <1>3, ReceiveRight
<1>4. CASE MergeLastBatch BY <1>2, <1>4, MergeRight
<1>5. CASE SkipPrefill \/ NothingAdmitted BY <1>2, <1>5, SkipRight
<1>6. CASE LaunchPrefill BY <1>2, <1>6, PrefillRight
<1>7. CASE RunDecode BY <1>2, <1>7, DecodeRight
<1>8. CASE NothingToRun BY <1>2, <1>8, NothingRight
<1>9. CASE NoResult
  <2>1. ResultOf({}, {}) BY <1>2, <1>9, NoResultIs
  <2> DEFINE none == {}
  <2> HIDE DEF none
  <2>2. ResultOf(none, none) BY <2>1 DEF none
  <2>3. QED BY <1>2, <2>2, ResultRight
<1>10. CASE ApplyResult
  <2>1. PICK given, ended : ResultOf(given, ended) BY <1>2, <1>10, ApplyIs
  <2>2. QED BY <1>2, <2>1, ResultRight
<1>11. CASE ForwardThread \/ UNCHANGED vars BY <1>2, <1>11, ThreadRight
<1>12. QED
  BY <1>3, <1>4, <1>5, <1>6, <1>7, <1>8, <1>9, <1>10, <1>11 DEF Next, Schedule

LEMMA LoopInvHolds == Spec => []LoopInv
<1>1. Init => LoopInv BY InitRight DEF LoopInv
<1>2. QED BY <1>1, StepRight, PTL DEF Spec

\* Between iterations a request holds KV slots for exactly the tokens that were computed or
\* are in flight: chunks, decode steps and the one delayed token take what the end of a
\* request, a retraction and the delayed token's result return, for any requests and limits,
\* mixed chunks or not, and however the results and retractions interleave.  There is a second
\* iteration only where start-up profiling ran.
THEOREM KVClaimsHold == Spec => []KVClaims
<1>1. LoopInv => KVClaims
  <2> SUFFICES ASSUME LoopInv, phase = "recv", NEW r \in Req
               PROVE  kvHeld[r] =
                        IF r \in finished THEN IF InFlight(r) THEN 1 ELSE 0
                        ELSE IF Contains(waitingQueue, r) \/ r \notin arrived THEN 0
                        ELSE IF fill[r] < FullLen(r) - Len(outputs[r]) THEN fill[r]
                        ELSE seqLen[r]
    BY DEF KVClaims
  <2>1. Good BY DEF LoopInv
  <2>2. InFlight(r) <=> r \in Before
    <3>1. lastBatch.reqs \in Seq(Req) BY <2>1 DEF Good, LoopType, IsBatch
    <3>2. QED BY <3>1, ContainsIs DEF InFlight, Before
  <2>3. Contains(waitingQueue, r) <=> r \in Waiting
    <3>1. waitingQueue \in Seq(Req) BY <2>1 DEF Good, LoopType
    <3>2. QED BY <3>1, ContainsIs DEF Waiting
  <2>4. FullLen(r) - Len(outputs[r]) = Prompt[r] BY <2>1, FullLenIs DEF Good
  <2>5. KVRight BY <2>1 DEF Good
  <2>6. CASE r \in finished BY <2>2, <2>5, <2>6 DEF KVRight
  <2>7. CASE r \notin finished /\ (r \in Waiting \/ r \notin arrived)
    BY <2>3, <2>5, <2>7 DEF KVRight
  <2>8. CASE r \notin finished /\ ~(r \in Waiting \/ r \notin arrived)
    <3>1. /\ kvHeld[r] = seqLen[r]
          /\ r = beingChunked => fill[r] = seqLen[r]
          /\ r # beingChunked => fill[r] >= Prompt[r]
      BY <2>5, <2>8 DEF KVRight
    <3>2. fill[r] \in Int /\ Prompt[r] \in Nat
      BY <2>1, FullLenIs DEF Good, LoopType
    <3>3. kvHeld[r] = IF fill[r] < Prompt[r] THEN fill[r] ELSE seqLen[r] BY <3>1, <3>2
    <3>4. QED BY <2>3, <2>4, <2>8, <3>3
  <2>9. QED BY <2>6, <2>7, <2>8
<1>2. QED BY <1>1, LoopInvHolds, PTL

-----------------------------------------------------------------------------
(* How the process exits.                                                    *)

\* No iteration follows the first where start-up profiling did not run.
GoesOnProfiled == startupProfiled \/ lastBatch.mode = "none"

LEMMA GoesOnHolds == Spec => []GoesOnProfiled
<1>1. Init => GoesOnProfiled BY NoBatchIs DEF Init, GoesOnProfiled
<1>2. GoesOnProfiled /\ [Next]_vars => GoesOnProfiled'
  <2> SUFFICES ASSUME GoesOnProfiled, [Next]_vars PROVE GoesOnProfiled' OBVIOUS
  <2>1. CASE \E r \in Req : Receive(r)
    BY <2>1 DEF Receive, GoesOnProfiled
  <2>2. CASE LaunchPrefill BY <2>2 DEF LaunchPrefill, env, GoesOnProfiled
  <2>3. CASE RunDecode BY <2>3 DEF RunDecode, env, GoesOnProfiled
  <2>4. CASE MergeLastBatch \/ SkipPrefill \/ NothingAdmitted \/ NothingToRun
    BY <2>4 DEF MergeLastBatch, SkipPrefill, NothingAdmitted, NothingToRun, env, GoesOnProfiled
  <2>5. CASE NoResult BY <2>5 DEF NoResult, EndIteration, env, GoesOnProfiled
  <2>6. CASE ApplyResult BY <2>6 DEF ApplyResult, EndIteration, env, GoesOnProfiled
  <2>7. CASE ForwardThread \/ UNCHANGED vars
    BY <2>7 DEF ForwardThread, TakeJob, Forward, Sample, vars, env, GoesOnProfiled
  <2>8. QED BY <2>1, <2>2, <2>3, <2>4, <2>5, <2>6, <2>7 DEF Next, Schedule
<1>3. QED BY <1>1, <1>2, PTL DEF Spec

\* A result that makes the process exit is for a request that waits again.
LEMMA ApplyExits ==
  ASSUME Good, GoesOnProfiled, ApplyResult, phase' = "exited"
  PROVE  /\ UNCHANGED <<waitingQueue, lastBatch, retracts, outputs, finished, arrived>>
         /\ Waiting \cap Before # {}
<1>1. phase = "result" /\ lastBatch.mode # "none" /\ startupProfiled
      /\ UNCHANGED <<waitingQueue, retracts, arrived>>
  BY DEF ApplyResult, GoesOnProfiled, env
<1>2. Head(resultQueue) = lastBatch
  <2> DEFINE a == lastBatch
             b == batch
  <2>1. resultQueue = <<a>> \o (IF b.mode = "none" THEN <<>> ELSE <<b>>)
    BY <1>1 DEF Good, QueueRight, Pending
  <2> HIDE DEF a, b
  <2>2. Head(<<a>> \o <<>>) = a /\ Head(<<a>> \o <<b>>) = a OBVIOUS
  <2>3. QED BY <2>1, <2>2 DEF a
<1>3. /\ UNCHANGED <<lastBatch, outputs, finished>>
      /\ \E stopped, full : LET given == GetsToken(lastBatch)
                               ended == stopped \cup full
                           IN  /\ stopped \subseteq given /\ full \subseteq given
                               /\ Cached(lastBatch, given, ended) \cap ToSet(waitingQueue) # {}
  BY <1>1, <1>2, Zenon DEF ApplyResult, EndIteration, requests
<1>4. GetsToken(lastBatch) \subseteq Before BY DEF GetsToken, Before
<1>5. QED BY <1>1, <1>3, <1>4 DEF Cached, Waiting

\* A request waits while its result is awaited only if it was retracted.
RetractedWait ==
  /\ retracts \in Nat
  /\ Waiting \cap Before # {} => retracts > 0
  /\ phase = "exited" /\ startupProfiled => retracts > 0

\* A step that leaves queue and last batch alone, or ends with nothing that waits twice.
LEMMA WaitsKept ==
  ASSUME RetractedWait, UNCHANGED <<retracts, startupProfiled>>,
         phase' = "exited" => phase = "exited",
         UNCHANGED <<waitingQueue, lastBatch>> \/ Waiting' \cap Before' = {}
  PROVE  RetractedWait'
BY DEF RetractedWait, Waiting, Before

LEMMA DecodeRetracts ==
  ASSUME Good, RetractedWait, RunDecode
  PROVE  RetractedWait'
<1>1. PICK out \in SUBSET ToSet(Unfinished(runningBatch)) :
        /\ retracts' = retracts + Cardinality(out)
        /\ waitingQueue' = waitingQueue \o SetToSeq(out) /\ phase' = "result"
  BY Zenon DEF RunDecode, Launch
<1>2. lastBatch' = lastBatch /\ phase = "decode" BY DEF RunDecode
<1>3. IsFiniteSet(out)
  <2>1. ToSet(Unfinished(runningBatch)) \subseteq Req
    BY UnfinishedIs, Views DEF Good, LoopType
  <2>2. QED BY <1>1, <2>1, OverlapAssumption, FS_Subset
<1>4. Cardinality(out) \in Nat BY <1>3, FS_CardinalityType
<1>5. CASE out = {}
  <2>1. SetToSeq(out) \in Seq(out) /\ ToSet(SetToSeq(out)) = {} BY <1>3, <1>5, SequenceOf
  <2>2. SetToSeq(out) = <<>> BY <2>1, EmptyIs
  <2>3. waitingQueue' = waitingQueue BY <1>1, <2>2 DEF Good, LoopType
  <2>4. Waiting' \cap Before' = {} BY <1>2, <2>3 DEF Good, Apart, Waiting, Before
  <2>5. QED BY <1>1, <1>4, <2>4 DEF RetractedWait
<1>6. CASE out # {}
  <2>1. Cardinality(out) # 0 BY <1>3, <1>6, FS_EmptySet
  <2>2. QED BY <1>1, <1>4, <2>1 DEF RetractedWait
<1>7. QED BY <1>5, <1>6

LEMMA StepRetracts ==
  ASSUME LoopInv, LoopInv', GoesOnProfiled, RetractedWait, [Next]_vars
  PROVE  RetractedWait'
<1>1. CASE ForwardThread \/ UNCHANGED vars
  BY <1>1, WaitsKept DEF ForwardThread, TakeJob, Forward, Sample, vars, env
<1>2. ASSUME phase # "exited", phase' \notin {"exited", "result"} PROVE Waiting' \cap Before' = {}
  BY <1>2 DEF LoopInv, Good, Apart
<1>3. CASE \E r \in Req : Receive(r)
  <2>1. phase' = "recv" /\ phase = "recv" /\ UNCHANGED <<retracts, startupProfiled>>
    BY <1>3 DEF Receive
  <2>2. QED BY <1>2, <2>1, WaitsKept
<1>4. CASE MergeLastBatch \/ SkipPrefill \/ NothingAdmitted \/ NothingToRun
  BY <1>4, WaitsKept DEF MergeLastBatch, SkipPrefill, NothingAdmitted, NothingToRun, env
<1>5. CASE LaunchPrefill
  <2>1. Good BY <1>5 DEF LaunchPrefill, LoopInv
  <2>2. PICK new, mixed, part, n : PrefillOf(new, mixed, part, n) BY <1>5, <2>1, PrefillIs
  <2>3. /\ phase = "prefill" /\ phase' = "result" /\ Waiting' \subseteq Waiting
        /\ lastBatch' = lastBatch
    BY <2>2 DEF PrefillOf
  <2>4. Waiting \cap Before = {} BY <2>1, <2>3 DEF Good, Apart
  <2>5. UNCHANGED <<retracts, startupProfiled>> BY <1>5 DEF LaunchPrefill, env
  <2>6. Waiting' \cap Before' = {} BY <2>3, <2>4 DEF Before
  <2>7. QED BY <2>3, <2>5, <2>6, WaitsKept
<1>6. CASE RunDecode
  <2>1. Good BY <1>6 DEF RunDecode, LoopInv
  <2>2. QED BY <1>6, <2>1, DecodeRetracts
<1>7. CASE NoResult
  <2>1. phase = "result" /\ UNCHANGED <<retracts, startupProfiled, waitingQueue>>
    BY <1>7 DEF NoResult, env
  <2>2. \/ phase' = "exited" /\ ~startupProfiled /\ lastBatch' = lastBatch
        \/ phase' = "recv"
    BY <1>7 DEF NoResult, EndIteration
  <2>3. CASE phase' = "recv" BY <1>2, <2>1, <2>3, WaitsKept
  <2>4. CASE phase' = "exited"
    BY <2>1, <2>2, <2>4 DEF RetractedWait, Waiting, Before
  <2>5. QED BY <2>2, <2>3, <2>4
<1>8. CASE ApplyResult
  <2>1. phase = "result" /\ UNCHANGED <<retracts, startupProfiled>> /\ Good
    BY <1>8 DEF ApplyResult, env, LoopInv
  <2>2. phase' \in {"recv", "exited"} BY <1>8 DEF ApplyResult, EndIteration
  <2>3. CASE phase' = "recv" BY <1>2, <2>1, <2>3, WaitsKept
  <2>4. CASE phase' = "exited"
    <3>1. UNCHANGED <<waitingQueue, lastBatch>> /\ Waiting \cap Before # {}
      BY <1>8, <2>1, <2>4, ApplyExits
    <3>2. QED BY <2>1, <3>1 DEF RetractedWait, Waiting, Before
  <2>5. QED BY <2>2, <2>3, <2>4
<1>9. QED BY <1>1, <1>3, <1>4, <1>5, <1>6, <1>7, <1>8 DEF Next, Schedule

\* Where start-up profiling has set what get_pp_queue_lengths reads, only a retraction can
\* lead to an exit: without one no result, however late, is for a request that waits again
\* and has lost its last_node.  Where it has not, the first iteration is the last.
THEOREM ExitsForRetractionHolds == Spec => []ExitsForRetraction
<1>1. Init => RetractedWait
  <2> SUFFICES ASSUME Init PROVE RetractedWait OBVIOUS
  <2>1. retracts = 0 /\ phase = "recv" /\ waitingQueue = <<>> BY DEF Init
  <2>2. ToSet(<<>>) = {} BY DEF ToSet
  <2>3. QED BY <2>1, <2>2 DEF RetractedWait, Waiting
<1>2. LoopInv /\ LoopInv' /\ GoesOnProfiled /\ RetractedWait /\ [Next]_vars => RetractedWait'
  BY StepRetracts
<1>3. RetractedWait => ExitsForRetraction BY DEF RetractedWait, ExitsForRetraction
<1>4. QED BY <1>1, <1>2, <1>3, LoopInvHolds, GoesOnHolds, PTL DEF Spec

-----------------------------------------------------------------------------
(* What the scheduler promises.                                              *)

\* Steps that the request service does not see.
LEMMA Unseen ==
  ASSUME UNCHANGED <<arrived, finished, outputs>>, phase' = "exited" <=> phase = "exited"
  PROVE  UNCHANGED Requests!vars
<1>1. (IF phase' = "exited" THEN arrived' \ finished' ELSE {})
        = (IF phase = "exited" THEN arrived \ finished ELSE {})
  OBVIOUS
<1>2. [r \in Req |-> Len(outputs'[r])] = [r \in Req |-> Len(outputs[r])] OBVIOUS
<1>3. QED BY <1>1, <1>2 DEF Requests!vars

\* A result delivers one token each, or nothing.
LEMMA ResultServes ==
  ASSUME Good, NEW given, NEW ended, ResultOf(given, ended)
  PROVE  [Requests!Next]_(Requests!vars)
<1>1. /\ phase = "result" /\ phase' = "recv" /\ arrived' = arrived
      /\ given \subseteq Before \ finished /\ ended \subseteq given
      /\ {r \in given : Len(outputs[r]) + 1 >= MaxNew[r]} \subseteq ended
      /\ finished' = finished \cup ended
      /\ \A r \in Req : Len(outputs'[r]) = Len(outputs[r]) + (IF r \in given THEN 1 ELSE 0)
  BY DEF ResultOf
<1>2. \A r \in Req : Len(outputs[r]) \in Nat BY FullLenIs DEF Good
<1>3. Before \subseteq arrived /\ Before \subseteq Req BY Views DEF Good, Apart
<1> DEFINE tokens == [r \in Req |-> Len(outputs[r])]
           withdrawn == IF phase = "exited" THEN arrived \ finished ELSE {}
<1>4. withdrawn = {} /\ withdrawn' = {} BY <1>1
<1>5. tokens' = [r \in Req |-> IF r \in given THEN tokens[r] + 1 ELSE tokens[r]]
  <2>1. tokens' = [r \in Req |-> Len(outputs'[r])] OBVIOUS
  <2>2. ASSUME NEW r \in Req
        PROVE  Len(outputs'[r]) = IF r \in given THEN tokens[r] + 1 ELSE tokens[r]
    <3>1. tokens[r] = Len(outputs[r]) /\ tokens[r] \in Nat BY <1>2
    <3> HIDE DEF tokens
    <3>2. Len(outputs'[r]) = tokens[r] + (IF r \in given THEN 1 ELSE 0) BY <1>1, <3>1
    <3>3. CASE r \in given BY <3>2, <3>3
    <3>4. CASE r \notin given BY <3>1, <3>2, <3>4
    <3>5. QED BY <3>3, <3>4
  <2>3. QED BY <2>1, <2>2
<1>6. CASE given = {}
  <2>1. finished' = finished BY <1>1, <1>6
  <2>2. tokens' = tokens
    <3>1. tokens' = [r \in Req |-> tokens[r]] BY <1>5, <1>6
    <3>2. QED BY <3>1
  <2>3. QED BY <1>1, <1>4, <2>1, <2>2 DEF Requests!vars
<1>7. CASE given # {}
  <2>1. given \subseteq Requests!Open BY <1>1, <1>3, <1>4 DEF Requests!Open
  <2>2. {r \in given : tokens[r] + 1 >= MaxNew[r]} \subseteq ended
    <3>1. \A r \in given : tokens[r] = Len(outputs[r]) BY <1>1, <1>3
    <3>2. QED BY <1>1, <3>1
  <2> HIDE DEF tokens, withdrawn
  <2>3. \E E \in SUBSET given : /\ {r \in given : tokens[r] + 1 >= MaxNew[r]} \subseteq E
                                /\ finished' = finished \cup E
    BY <1>1, <2>2
  <2>4. arrived' = arrived /\ withdrawn' = withdrawn BY <1>1, <1>4
  <2>5. Requests!Deliver(given)
    BY <1>5, <1>7, <2>1, <2>3, <2>4 DEF Requests!Deliver, tokens, withdrawn
  <2>6. given \in SUBSET Req BY <1>1, <1>3
  <2>7. QED BY <2>5, <2>6 DEF Requests!Next
<1>8. QED BY <1>6, <1>7

\* An exit gives up what is open, if there is anything.
LEMMA ExitServes ==
  ASSUME Good, phase # "exited", phase' = "exited", UNCHANGED <<outputs, finished, arrived>>
  PROVE  [Requests!Next]_(Requests!vars)
<1> DEFINE S == arrived \ finished
           withdrawn == IF phase = "exited" THEN arrived \ finished ELSE {}
<1>1. withdrawn = {} /\ withdrawn' = S OBVIOUS
<1>2. Requests!Open = S BY DEF Requests!Open
<1>3. [r \in Req |-> Len(outputs'[r])] = [r \in Req |-> Len(outputs[r])] OBVIOUS
<1>4. S \in SUBSET Req BY DEF Good, LoopType
<1>5. CASE S = {} BY <1>1, <1>3, <1>5 DEF Requests!vars
<1>6. CASE S # {}
  <2>1. withdrawn' = withdrawn \cup S BY <1>1
  <2>2. Requests!Withdraw(S) BY <1>1, <1>2, <1>3, <1>6, <2>1 DEF Requests!Withdraw
  <2> HIDE DEF S
  <2>3. QED BY <1>4, <2>2 DEF Requests!Next
<1>7. QED BY <1>5, <1>6

LEMMA StepServes ==
  ASSUME LoopInv, GoesOnProfiled, [Next]_vars
  PROVE  [Requests!Next]_(Requests!vars)
<1>1. CASE \E r \in Req : Receive(r)
  <2>1. PICK r \in Req : Receive(r) BY <1>1
  <2>2. /\ phase = "recv" /\ phase' = "recv" /\ r \notin arrived /\ arrived' = arrived \cup {r}
        /\ UNCHANGED <<outputs, finished>>
    BY <2>1 DEF Receive, requests
  <2>3. [q \in Req |-> Len(outputs'[q])] = [q \in Req |-> Len(outputs[q])] BY <2>2
  <2>4. Requests!Accept(r) BY <2>2, <2>3 DEF Requests!Accept
  <2>5. QED BY <2>4 DEF Requests!Next
<1>2. CASE ApplyResult
  <2>0. phase = "result" BY <1>2 DEF ApplyResult
  <2>1. Good BY <2>0 DEF LoopInv
  <2>2. CASE phase' = "exited"
    <3>1. UNCHANGED <<outputs, finished, arrived>> BY <1>2, <2>1, <2>2, ApplyExits
    <3>2. QED BY <2>0, <2>1, <2>2, <3>1, ExitServes
  <2>3. CASE phase' # "exited"
    <3>1. PICK given, ended : ResultOf(given, ended) BY <1>2, <2>1, <2>3, ApplyIs
    <3>2. QED BY <2>1, <3>1, ResultServes
  <2>4. QED BY <2>2, <2>3
<1>3. CASE NoResult /\ phase' = "exited"
  <2>1. phase = "result" /\ UNCHANGED <<outputs, finished, arrived>>
    BY <1>3 DEF NoResult, requests, env
  <2>2. QED BY <1>3, <2>1, ExitServes DEF LoopInv
<1>4. CASE \/ Schedule /\ ~ApplyResult /\ ~(NoResult /\ phase' = "exited")
           \/ ForwardThread \/ UNCHANGED vars
  <2>1. UNCHANGED <<arrived, finished, outputs>> /\ (phase' = "exited" <=> phase = "exited")
    <3>1. CASE Schedule /\ ~ApplyResult /\ ~(NoResult /\ phase' = "exited")
      <4>1. CASE LaunchPrefill
        <5>1. PICK j, full, chunk : Prefill(j, full, chunk) BY <4>1 DEF LaunchPrefill
        <5>2. phase' = "result" BY Zenon, <5>1 DEF Prefill, Launch
        <5>3. UNCHANGED <<arrived, finished, outputs>> /\ phase # "exited"
          BY <4>1 DEF LaunchPrefill, env
        <5>4. QED BY <5>2, <5>3
      <4>2. CASE RunDecode BY <4>2 DEF RunDecode, Launch, requests, env
      <4>3. CASE MergeLastBatch \/ SkipPrefill \/ NothingAdmitted \/ NothingToRun
        BY <4>3 DEF MergeLastBatch, SkipPrefill, NothingAdmitted, NothingToRun, requests, env
      <4>4. CASE NoResult BY <3>1, <4>4 DEF NoResult, requests, env
      <4>5. QED BY <3>1, <4>1, <4>2, <4>3, <4>4 DEF Schedule
    <3>2. CASE ForwardThread BY <3>2 DEF ForwardThread, TakeJob, Forward, Sample, requests, env
    <3>3. CASE UNCHANGED vars BY <3>3 DEF vars, requests, env
    <3>4. QED BY <1>4, <3>1, <3>2, <3>3
  <2>2. QED BY <2>1, Unseen
<1>5. QED BY <1>1, <1>2, <1>3, <1>4 DEF Next

\* Although results come a batch late, every request is accepted once, gets its tokens one by
\* one, none after its end, and ends with max_new_tokens at the latest; only an exit of the
\* process gives requests up.  By ExitsForRetractionHolds that is an exit after a retraction,
\* or, where start-up profiling did not run, the one in the first iteration.
THEOREM ServesRequests == Spec => Requests!SafeSpec
<1>1. Init => Requests!Init
  <2> SUFFICES ASSUME Init PROVE Requests!Init OBVIOUS
  <2>1. /\ arrived = {} /\ finished = {} /\ phase = "recv" /\ outputs = [r \in Req |-> <<>>]
    BY DEF Init
  <2>2. [r \in Req |-> Len(outputs[r])] = [r \in Req |-> 0]
    <3>1. Len(<<>>) = 0 OBVIOUS
    <3>2. QED BY <2>1, <3>1
  <2>3. QED BY <2>1, <2>2 DEF Requests!Init
<1>2. LoopInv /\ GoesOnProfiled /\ [Next]_vars => [Requests!Next]_(Requests!vars)
  BY StepServes
<1>3. QED BY <1>1, <1>2, LoopInvHolds, GoesOnHolds, PTL DEF Spec, Requests!SafeSpec

=============================================================================
