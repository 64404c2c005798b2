--------------------------- MODULE MicroBatchProofs ---------------------------
(***************************************************************************)
(* Where a request is while the slots take turns: in the waiting queue, in *)
(* one slot, or being chunked, and how the counters kept with it follow.   *)
(***************************************************************************)
EXTENDS MicroBatch, CollectionLemmas

\* The next slot and the previous one.
LEMMA Neighbours ==
  ASSUME NEW s \in -1 .. P - 1
  PROVE  /\ (s + 1) % P = IF s = P - 1 THEN 0 ELSE s + 1
         /\ s # -1 => (s - 1) % P = IF s = 0 THEN P - 1 ELSE s - 1
<1>1. P \in Nat \ {0} /\ P % P = 0 /\ (-1) % P = P - 1 /\ \A k \in 0 .. P - 1 : k % P = k
  BY PAssumption, Remainders
<1>2. CASE s = P - 1
  <2>1. s + 1 = P /\ (s # -1 => s = 0 \/ s - 1 \in 0 .. P - 1) /\ 0 - 1 = -1 BY <1>1, <1>2
  <2>2. QED BY <1>1, <1>2, <2>1
<1>3. CASE s # P - 1
  <2>1. s + 1 \in 0 .. P - 1 /\ (s \in {0, -1} \/ s - 1 \in 0 .. P - 1) /\ 0 - 1 = -1 BY <1>1, <1>3
  <2>2. QED BY <1>1, <1>3, <2>1
<1>4. QED BY <1>2, <1>3

-----------------------------------------------------------------------------
\* Least a first, then greatest b, then greatest c.
LexicallyBefore(a, b, c, x, y) ==
  \/ a[x] < a[y]
  \/ a[x] = a[y] /\ b[x] > b[y]
  \/ a[x] = a[y] /\ b[x] = b[y] /\ c[x] > c[y]

LexicallyBelow(S, a, b, c, x) == {y \in S : LexicallyBefore(a, b, c, y, x)}

AreKeys(S, a, b, c) ==
  IsFiniteSet(S) /\ a \in [S -> Nat] /\ b \in [S -> Nat] /\ c \in Injection(S, Nat)

\* This is a total order if c tells the elements apart.
LEMMA LexicalOrder ==
  ASSUME NEW S, NEW a, NEW b, NEW c, AreKeys(S, a, b, c), NEW n \in 1 .. Cardinality(S)
  PROVE  \E x \in S : Cardinality(LexicallyBelow(S, a, b, c, x)) = n - 1
<1> DEFINE Before == {p \in S \X S : LexicallyBefore(a, b, c, p[1], p[2])}
<1>1. \A x, y \in S : <<x, y>> \in Before <=> LexicallyBefore(a, b, c, x, y) OBVIOUS
<1>2. Before \in SUBSET (S \X S) OBVIOUS
<1>3. /\ IsFiniteSet(S) /\ \A x \in S : a[x] \in Nat /\ b[x] \in Nat /\ c[x] \in Nat
      /\ \A x, y \in S : c[x] = c[y] => x = y
  BY DEF AreKeys, Injection, IsInjective
<1> HIDE DEF Before
<1>4. ASSUME NEW x \in S PROVE <<x, x>> \notin Before
  BY <1>1, <1>3 DEF LexicallyBefore
<1>5. ASSUME NEW x \in S, NEW y \in S, NEW z \in S, <<x, y>> \in Before, <<y, z>> \in Before
      PROVE  <<x, z>> \in Before
  BY <1>1, <1>3, <1>5 DEF LexicallyBefore
<1>6. ASSUME NEW x \in S, NEW y \in S PROVE x = y \/ <<x, y>> \in Before \/ <<y, x>> \in Before
  BY <1>1, <1>3 DEF LexicallyBefore
<1>7. IsStrictOrder(S, Before) BY <1>2, <1>4, <1>5, <1>6 DEF IsStrictOrder
<1>8. \E x \in S : Cardinality(Below(S, Before, x)) = n - 1 BY <1>3, <1>7, EveryRankTaken
<1>9. \A x \in S : Below(S, Before, x) = LexicallyBelow(S, a, b, c, x)
  BY <1>1 DEF Below, LexicallyBelow
<1>10. QED BY <1>8, <1>9

\* The order in which retract_decode pops is total, so each place has one request.
LEMMA PopOrderIsOrder ==
  ASSUME outputIdsLen \in [Req -> Nat], NEW reqs \in Seq(Req), IsInjective(reqs)
  PROVE  /\ PopOrder(reqs) \in Seq(Req) /\ Len(PopOrder(reqs)) = Len(reqs)
         /\ ToSet(PopOrder(reqs)) \subseteq ToSet(reqs) /\ IsInjective(PopOrder(reqs))
<1> DEFINE S == ToSet(reqs)
           len == [x \in S |-> outputIdsLen[x]]
           prompt == [x \in S |-> Prompt[x]]
           index == [x \in S |-> CHOOSE i \in DOMAIN reqs : reqs[i] = x]
           below(r) == {q \in S : PopsBefore(reqs, q, r)}
           order == PopOrder(reqs)
<1>1. IsFiniteSet(S) /\ Cardinality(S) = Len(reqs) BY InjectiveLen
<1>2. S \subseteq Req /\ DOMAIN reqs = 1 .. Len(reqs) /\ Len(reqs) \in Nat BY DEF ToSet
<1>3. \A x \in S : index[x] \in Nat /\ reqs[index[x]] = x BY <1>2 DEF ToSet
<1>4. \A x, y \in S : PopsBefore(reqs, x, y) <=> LexicallyBefore(len, prompt, index, x, y)
  BY DEF PopsBefore, LexicallyBefore
<1>5. len \in [S -> Nat] /\ prompt \in [S -> Nat] /\ index \in [S -> Nat]
  BY <1>2, <1>3, LengthAssumption
<1>6. AreKeys(S, len, prompt, index)
  <2>1. \A x, y \in S : index[x] = index[y] => x = y BY <1>3
  <2>2. QED BY <1>1, <1>5, <2>1 DEF AreKeys, Injection, IsInjective
<1> HIDE DEF index, len, prompt, S
<1>7. ASSUME NEW x \in S
      PROVE  below(x) = LexicallyBelow(S, len, prompt, index, x)
  BY <1>4 DEF LexicallyBelow
<1>8. ASSUME NEW n \in DOMAIN reqs
      PROVE  order[n] \in S /\ Cardinality(below(order[n])) = n - 1
  <2>1. order[n] = CHOOSE r \in S : Cardinality(below(r)) = n - 1 BY DEF PopOrder, S
  <2>2. n \in 1 .. Cardinality(S) BY <1>1, <1>2
  <2>3. PICK x \in S : Cardinality(LexicallyBelow(S, len, prompt, index, x)) = n - 1
    BY <1>6, <2>2, LexicalOrder
  <2>4. Cardinality(below(x)) = n - 1 BY <1>7, <2>3
  <2> HIDE DEF below
  <2>5. QED BY <2>1, <2>4
<1> HIDE DEF below
<1>9. DOMAIN order = 1 .. Len(reqs) /\ order \in [1 .. Len(reqs) -> Req]
  <2> DEFINE pick(n) == CHOOSE r \in S : Cardinality(below(r)) = n - 1
  <2>1. order = [n \in DOMAIN reqs |-> pick(n)] BY DEF PopOrder, S, below
  <2> HIDE DEF order, pick
  <2>2. DOMAIN order = DOMAIN reqs /\ \A n \in DOMAIN reqs : order[n] = pick(n) BY <2>1
  <2>3. \A n \in DOMAIN reqs : pick(n) \in Req BY <1>2, <1>8, <2>2
  <2>4. QED BY <1>2, <2>1, <2>3
<1> HIDE DEF order
<1>10. order \in Seq(Req) /\ Len(order) = Len(reqs)
  <2> DEFINE n == Len(reqs)
  <2>1. n \in Nat /\ order \in [1 .. n -> Req] /\ DOMAIN order = 1 .. n BY <1>2, <1>9
  <2> HIDE DEF n
  <2>2. order \in Seq(Req) BY <2>1
  <2>3. Len(order) = n BY <2>1, <2>2
  <2>4. QED BY <2>2, <2>3 DEF n
<1>11. ToSet(order) \subseteq S BY <1>2, <1>8, <1>9 DEF ToSet
<1>12. IsInjective(order)
  <2>1. ASSUME NEW i \in 1 .. Len(reqs), NEW j \in 1 .. Len(reqs), order[i] = order[j] PROVE i = j
    <3>1. i - 1 = j - 1 BY <1>2, <1>8, <2>1
    <3>2. QED BY <3>1
  <2>2. QED BY <1>9, <2>1 DEF IsInjective
<1>13. QED BY <1>10, <1>11, <1>12 DEF order, S

\* retract_decode pops some of the running requests, none of them twice.
LEMMA RetractedElements ==
  ASSUME outputIdsLen \in [Req -> Nat], NEW reqs \in Seq(Req), IsInjective(reqs), reqs # <<>>
  PROVE  /\ Retracted(reqs) \in Seq(Req) /\ ToSet(Retracted(reqs)) \subseteq ToSet(reqs)
         /\ IsInjective(Retracted(reqs))
<1> DEFINE n == Len(reqs)
           enough(k) == \/ k = n - 1
                        \/ available + Freed(SubSeq(PopOrder(reqs), 1, k)) >= (n - k) * RetractSteps
           T == {k \in Nat : k \in 1 .. n - 1 /\ enough(k)}
           count == RetractCount(reqs)
<1>1. n \in Nat \ {0} OBVIOUS
<1>2. count = IF DecodeFits(reqs) \/ n = 1 THEN 0
              ELSE CHOOSE k \in 1 .. n - 1 : enough(k) /\ \A j \in 1 .. k - 1 : ~enough(j)
  BY DEF RetractCount
<1> HIDE DEF n, enough, count
<1>3. ASSUME n # 1 PROVE \E k \in 1 .. n - 1 : enough(k) /\ \A j \in 1 .. k - 1 : ~enough(j)
  <2>1. n - 1 \in T BY <1>1, <1>3 DEF enough
  <2>2. PICK k \in T : \A m \in T : k <= m BY <2>1, LeastNat
  <2>3. \A j \in 1 .. k - 1 : ~enough(j) BY <1>1, <2>2
  <2>4. QED BY <2>2, <2>3
<1>4. count \in 0 .. n
  <2>1. CASE DecodeFits(reqs) \/ n = 1 BY <1>1, <1>2, <2>1
  <2>2. CASE ~(DecodeFits(reqs) \/ n = 1)
    <3>1. count \in 1 .. n - 1 BY <1>2, <1>3, <2>2
    <3>2. QED BY <1>1, <3>1
  <2>3. QED BY <2>1, <2>2
<1>5. /\ PopOrder(reqs) \in Seq(Req) /\ Len(PopOrder(reqs)) = n
      /\ ToSet(PopOrder(reqs)) \subseteq ToSet(reqs) /\ IsInjective(PopOrder(reqs))
  BY PopOrderIsOrder DEF n
<1>6. /\ SubSeq(PopOrder(reqs), 1, count) \in Seq(Req)
      /\ ToSet(SubSeq(PopOrder(reqs), 1, count)) \subseteq ToSet(PopOrder(reqs))
      /\ IsInjective(SubSeq(PopOrder(reqs), 1, count))
  BY <1>4, <1>5, FirstElements
<1>7. QED BY <1>5, <1>6 DEF Retracted, count

-----------------------------------------------------------------------------
(* Types.                                                                    *)

\* The phases of a slot's turn after its last batch was merged.
Turn == {"fetch", "prefill", "admit", "launch", "decode"}
Phases == Turn \cup {"recv", "handle", "process", "exited"}
Maybe == Req \cup {NoReq}
Batch == [mode : {"none", "extend", "decode"}, reqs : Seq(Req), decoding : SUBSET Req,
          partial : Maybe]

\* The adder's sums are left open, and so are the pools.
IsAdder(a) ==
  /\ DOMAIN a = {"remTotal", "curRem", "remInput", "remChunk", "canRun", "newChunked", "next"}
  /\ a.canRun \in Seq(Req) /\ a.newChunked \in Maybe /\ a.next \in Nat \ {0}

ControlType ==
  /\ phase \in Phases /\ cur \in -1 .. P - 1 /\ (phase # "recv" => cur \in Slot)
  /\ waitingQueue \in Seq(Req) /\ runningBatch \in [Slot -> Seq(Req)]
  /\ lastBatch \in [Slot -> Batch] /\ batch \in Batch /\ (phase # "process" => batch = NoBatch)
  /\ beingChunkedReq \in [Slot -> Maybe]
  /\ IsAdder(adder)
  /\ outputs \in [Req -> Nat] /\ outputIdsLen \in [Req -> Nat]
  /\ finished \subseteq Req /\ isBeingChunked \in [Req -> Int] /\ ppIdx \in [Req -> Slot]
  /\ arrived \subseteq Req /\ removed \subseteq Req

LEMMA TypeInit == Init => ControlType
<1> SUFFICES ASSUME Init PROVE ControlType OBVIOUS
<1>1. P \in Nat \ {0} BY PAssumption
<1>2. NoBatch \in Batch BY DEF NoBatch, Batch, Maybe
<1>3. IsAdder(NoAdder) BY DEF NoAdder, IsAdder, Maybe
<1>4. -1 \in -1 .. P - 1 /\ 0 \in Slot BY <1>1 DEF Slot
<1>5. QED BY <1>2, <1>3, <1>4 DEF Init, ControlType, Phases, Maybe

\* What filter_batch leaves.
LEMMA KeptType ==
  ASSUME NEW reqs \in Seq(Req), NEW c
  PROVE  KeptOf(reqs, c) \in Seq(Req) /\ Unfinished(reqs) \in Seq(Req)
BY WithoutElements DEF KeptOf, Unfinished

\* Messages that are received.
LEMMA TypeReceive ==
  ASSUME ControlType, Receive
  PROVE  ControlType'
<1> USE DEF ControlType, requests, pools, slots, inputs
<1>1. ASSUME NEW r \in Req, HandleGenerate(r) PROVE ControlType'
  BY <1>1 DEF HandleGenerate
<1>2. ASSUME NEW r \in Req, HandleAbort(r) PROVE ControlType'
  <2>1. Without(waitingQueue, {r}) \in Seq(Req) BY WithoutElements
  <2>2. QED BY <1>2, <2>1 DEF HandleAbort
<1>3. CASE HandleFlush BY <1>3 DEF HandleFlush
<1>4. QED BY <1>1, <1>2, <1>3 DEF Receive

\* The fields of an adder to which a request is charged.
LEMMA ChargedAdder ==
  ASSUME NEW a, IsAdder(a), NEW r \in Req, NEW extend, NEW new
  PROVE  LET b == Charge(a, r, extend, new) IN
         /\ IsAdder(b) /\ b.canRun = Append(a.canRun, r)
         /\ b.newChunked = a.newChunked /\ b.next = a.next /\ b.remChunk = a.remChunk - extend
<1> DEFINE b == Charge(a, r, extend, new)
<1>1. DOMAIN a = {"remTotal", "curRem", "remInput", "remChunk", "canRun", "newChunked", "next"}
  BY DEF IsAdder
<1>2. DOMAIN b = DOMAIN a BY DEF Charge
<1>3. b.canRun = Append(a.canRun, r) BY <1>1 DEF Charge
<1>4. b.newChunked = a.newChunked BY <1>1 DEF Charge
<1>5. b.next = a.next BY <1>1 DEF Charge
<1>6. Append(a.canRun, r) \in Seq(Req) BY DEF IsAdder
<1>7. b.remChunk = a.remChunk - extend BY <1>1 DEF Charge
<1> HIDE DEF b
<1>8. IsAdder(b) BY <1>2, <1>3, <1>4, <1>5, <1>6 DEF IsAdder
<1>9. QED BY <1>3, <1>4, <1>5, <1>7, <1>8 DEF b

\* The adder a batch begins with.
LEMMA FreshAdder ==
  ASSUME NEW ratio
  PROVE  LET a == NewAdder(ratio) IN
         /\ IsAdder(a) /\ a.canRun = <<>> /\ a.newChunked = NoReq
         /\ a.remChunk = ChunkSize - (IF Mixed THEN Len(runningBatch[cur]) ELSE 0)
<1> DEFINE a == NewAdder(ratio)
<1>1. /\ NoAdder.canRun = <<>> /\ NoAdder.newChunked = NoReq /\ NoAdder.next = 1
      /\ DOMAIN NoAdder = {"remTotal", "curRem", "remInput", "remChunk", "canRun",
                           "newChunked", "next"}
  BY DEF NoAdder
<1>2. DOMAIN a = DOMAIN NoAdder BY DEF NewAdder
<1>3. a.canRun = <<>> BY <1>1 DEF NewAdder
<1>4. a.newChunked = NoReq BY <1>1 DEF NewAdder
<1>5. a.next = 1 BY <1>1 DEF NewAdder
<1>6. a.remChunk = ChunkSize - (IF Mixed THEN Len(runningBatch[cur]) ELSE 0)
  BY <1>1 DEF NewAdder
<1> HIDE DEF a
<1>7. IsAdder(a) BY <1>1, <1>2, <1>3, <1>4, <1>5 DEF IsAdder, Maybe
<1>8. QED BY <1>3, <1>4, <1>6, <1>7 DEF a

\* What a step of get_new_batch_prefill does to the adder: the chunked request is the first.
LEMMA StartedAdder ==
  ASSUME ControlType, StartPrefill
  PROVE  /\ IsAdder(adder') /\ adder'.newChunked = NoReq
         /\ adder'.canRun = IF beingChunkedReq[cur] = NoReq THEN <<>> ELSE <<beingChunkedReq[cur]>>
         /\ \/ beingChunkedReq' = beingChunkedReq
            \/ beingChunkedReq' = [beingChunkedReq EXCEPT ![cur] = NoReq]
<1> DEFINE c == beingChunkedReq[cur]
<1>1. c \in Maybe BY DEF ControlType, StartPrefill
<1>2. PICK ratio \in Ratios :
        \/ c = NoReq /\ adder' = NewAdder(ratio)
        \/ c # NoReq /\ \E extend, new : adder' = Charge(NewAdder(ratio), c, extend, new)
  BY DEF StartPrefill
<1>3. IsAdder(NewAdder(ratio)) /\ NewAdder(ratio).canRun = <<>> /\ NewAdder(ratio).newChunked = NoReq
  BY FreshAdder
<1>4. \/ beingChunkedReq' = beingChunkedReq
      \/ beingChunkedReq' = [beingChunkedReq EXCEPT ![cur] = NoReq]
  BY DEF StartPrefill
<1> HIDE DEF c
<1>5. CASE c = NoReq BY <1>2, <1>3, <1>4, <1>5 DEF c
<1>6. CASE c # NoReq
  <2>1. c \in Req BY <1>1, <1>6 DEF Maybe
  <2>2. PICK extend, new : adder' = Charge(NewAdder(ratio), c, extend, new) BY <1>2, <1>6
  <2>3. IsAdder(adder') /\ adder'.canRun = Append(<<>>, c) /\ adder'.newChunked = NoReq
    BY <1>3, <2>1, <2>2, ChargedAdder
  <2>4. QED BY <1>4, <1>6, <2>3 DEF c
<1>7. QED BY <1>5, <1>6

\* Then the next waiting request is admitted, or the batch is complete.
LEMMA AdmittedAdder ==
  ASSUME ControlType, AdmitOne
  PROVE  \/ adder' = adder /\ phase' = "launch"
         \/ /\ IsAdder(adder') /\ phase' \in {"admit", "launch"}
            /\ adder.next \in DOMAIN waitingQueue /\ adder'.next = adder.next + 1
            /\ adder'.canRun = Append(adder.canRun, waitingQueue[adder.next])
            /\ adder'.newChunked \in {adder.newChunked, waitingQueue[adder.next]}
<1> DEFINE r == waitingQueue[adder.next]
<1>1. IsAdder(adder) /\ adder.next \in DOMAIN waitingQueue /\ r \in Req
  BY DEF ControlType, AdmitOne, IsAdder
<1> HIDE DEF r
<1>2. SUFFICES ASSUME ~(adder' = adder /\ phase' = "launch")
               PROVE  /\ IsAdder(adder') /\ adder'.next = adder.next + 1
                      /\ phase' \in {"admit", "launch"}
                      /\ adder'.canRun = Append(adder.canRun, r)
                      /\ adder'.newChunked \in {adder.newChunked, r}
  BY <1>1 DEF r
<1>3. PICK size, new, whole :
        adder' = [Charge(adder, r, size, new) EXCEPT !.next = @ + 1,
                                                     !.newChunked = IF whole THEN @ ELSE r]
  BY <1>2 DEF AdmitOne, r
<1> DEFINE a == Charge(adder, r, size, new)
<1>4. /\ IsAdder(a) /\ a.canRun = Append(adder.canRun, r)
      /\ a.newChunked = adder.newChunked /\ a.next = adder.next
  BY <1>1, ChargedAdder
<1> HIDE DEF a
<1>5. adder' = [a EXCEPT !.next = @ + 1, !.newChunked = IF whole THEN @ ELSE r] BY <1>3 DEF a
<1>6. DOMAIN a = {"remTotal", "curRem", "remInput", "remChunk", "canRun", "newChunked", "next"}
  BY <1>4 DEF IsAdder
<1>7. DOMAIN adder' = DOMAIN a BY <1>5
<1>8. adder'.canRun = a.canRun BY <1>5, <1>6
<1>9. adder'.newChunked \in {a.newChunked, r} BY <1>5, <1>6
<1>10. adder'.next = a.next + 1 BY <1>5, <1>6
<1>11. IsAdder(adder')
  <2>1. a.next + 1 \in Nat \ {0} /\ r \in Maybe BY <1>1, <1>4 DEF IsAdder, Maybe
  <2>2. QED BY <1>4, <1>6, <1>7, <1>8, <1>9, <1>10, <2>1 DEF IsAdder
<1>12. QED BY <1>2, <1>4, <1>8, <1>9, <1>10, <1>11 DEF AdmitOne

\* The actions that choose a batch.
LEMMA TypeLaunch ==
  ASSUME ControlType, LaunchPrefill \/ DecodeRunning \/ NothingToRun,
         IsInjective(runningBatch[cur])
  PROVE  ControlType'
<1> USE DEF ControlType, requests, pools, slots, inputs
<1>1. runningBatch[cur] \in Seq(Req) /\ cur \in Slot /\ Unfinished(runningBatch[cur]) \in Seq(Req)
  BY KeptType DEF LaunchPrefill, AdmittedAll, DecodeRunning, NothingToRun
<1>2. CASE LaunchPrefill
  <2>1. adder.canRun \in Seq(Req) /\ MixedIn \in Seq(Req) BY <1>1 DEF IsAdder, MixedIn
  <2>2. batch' \in Batch
    <3>1. adder.canRun \o MixedIn \in Seq(Req) /\ ToSet(MixedIn) \subseteq Req
      BY <2>1, JoinedElements DEF ToSet
    <3>2. Partial \in Maybe BY <1>1 DEF Partial, IsAdder
    <3>3. QED BY <1>2, <3>1, <3>2 DEF LaunchPrefill, Batch
  <2>3. IsAdder(adder')
    <3>1. IsAdder(NoAdder) BY DEF IsAdder, NoAdder, Maybe
    <3>2. QED BY <1>2, <3>1 DEF LaunchPrefill
  <2>4. waitingQueue' \in Seq(Req) BY <1>2, WithoutElements DEF LaunchPrefill
  <2>5. runningBatch' \in [Slot -> Seq(Req)] /\ beingChunkedReq' \in [Slot -> Maybe]
    <3>1. Partial \in Maybe BY <1>1 DEF Partial, IsAdder
    <3>2. runningBatch \in [Slot -> Seq(Req)] /\ beingChunkedReq \in [Slot -> Maybe] OBVIOUS
    <3>3. <<>> \in Seq(Req) OBVIOUS
    <3>4. /\ runningBatch' = runningBatch \/ runningBatch' = [runningBatch EXCEPT ![cur] = <<>>]
          /\ beingChunkedReq' = [beingChunkedReq EXCEPT ![cur] = Partial]
      BY <1>2 DEF LaunchPrefill
    <3>5. runningBatch' \in [Slot -> Seq(Req)] BY <1>1, <3>2, <3>3, <3>4
    <3>6. beingChunkedReq' \in [Slot -> Maybe] BY <1>1, <3>1, <3>2, <3>4
    <3>7. QED BY <3>5, <3>6
  <2>6. isBeingChunked' \in [Req -> Int] /\ ppIdx' \in [Req -> Slot] BY <1>1, <1>2 DEF LaunchPrefill
  <2>7. QED BY <1>1, <1>2, <2>2, <2>3, <2>4, <2>5, <2>6 DEF LaunchPrefill, Phases
<1>3. CASE DecodeRunning
  <2> DEFINE reqs == Unfinished(runningBatch[cur])
             out  == Retracted(reqs)
             kept == Without(reqs, ToSet(out))
  <2>1. reqs # <<>> /\ IsInjective(reqs) BY <1>1, <1>3, WithoutElements DEF DecodeRunning, Unfinished
  <2>2. out \in Seq(Req) BY <1>1, <2>1, RetractedElements
  <2>3. kept \in Seq(Req) BY <1>1, WithoutElements
  <2> HIDE DEF reqs, out, kept
  <2>4. waitingQueue \o out \in Seq(Req) BY <2>2
  <2>5. [NoBatch EXCEPT !.mode = "decode", !.reqs = kept] \in Batch
    BY <2>3 DEF NoBatch, Batch, Maybe
  <2>6. [runningBatch EXCEPT ![cur] = kept] \in [Slot -> Seq(Req)] BY <2>3
  <2>7. /\ waitingQueue' = waitingQueue \o out
        /\ runningBatch' = [runningBatch EXCEPT ![cur] = kept]
        /\ batch' = [NoBatch EXCEPT !.mode = "decode", !.reqs = kept] /\ phase' = "process"
        /\ UNCHANGED <<cur, adder, inputs, lastBatch, beingChunkedReq, outputs, outputIdsLen,
                       finished, isBeingChunked, ppIdx>>
    BY <1>3 DEF DecodeRunning, reqs, out, kept
  <2>8. QED BY <1>1, <2>4, <2>5, <2>6, <2>7 DEF Phases
<1>4. CASE NothingToRun
  <2>1. NoBatch \in Batch /\ <<>> \in Seq(Req) BY DEF NoBatch, Batch, Maybe
  <2>2. QED BY <1>1, <1>4, <2>1 DEF NothingToRun, Phases
<1>5. QED BY <1>2, <1>3, <1>4

\* The batch whose result is applied is the one of the slot that has the next turn.
LEMMA ResultIsBatch ==
  ASSUME ControlType, phase = "process"
  PROVE  /\ ResultOf \in Batch
         /\ ResultOf = IF P = 1 THEN batch ELSE lastBatch[IF cur = P - 1 THEN 0 ELSE cur + 1]
<1>1. P \in Nat \ {0} /\ cur \in -1 .. P - 1 /\ cur \in Slot BY PAssumption DEF ControlType
<1>2. (cur + 1) % P = IF cur = P - 1 THEN 0 ELSE cur + 1 BY <1>1, Neighbours
<1>3. (IF cur = P - 1 THEN 0 ELSE cur + 1) \in Slot BY <1>1 DEF Slot
<1>4. QED BY <1>2, <1>3 DEF ResultOf, ControlType

\* Merging and applying results.
LEMMA TypeResult ==
  ASSUME ControlType, MergeLastBatch \/ ApplyResult
  PROVE  ControlType'
<1> USE DEF ControlType, requests, pools, slots, inputs
<1>1. CASE MergeLastBatch
  <2> DEFINE b == lastBatch[cur]
             c == IF b.mode = "extend" THEN beingChunkedReq[cur] ELSE NoReq
             kept == KeptOf(b.reqs, c)
  <2>1. cur \in Slot /\ phase' = "fetch" BY <1>1 DEF MergeLastBatch
  <2>2. kept \in Seq(Req) BY <2>1, KeptType DEF Batch
  <2>3. runningBatch[cur] \o kept \in Seq(Req) BY <2>1, <2>2
  <2>4. \A x : (IF x THEN 1 ELSE 0) \in Nat OBVIOUS
  <2>5. outputIdsLen' \in [Req -> Nat] BY <1>1, <2>4 DEF MergeLastBatch
  <2>6. \/ runningBatch' = runningBatch
        \/ runningBatch' = [runningBatch EXCEPT ![cur] = runningBatch[cur] \o kept]
    BY <1>1 DEF MergeLastBatch
  <2>7. \/ beingChunkedReq' = beingChunkedReq
        \/ beingChunkedReq' = [beingChunkedReq EXCEPT ![cur] = NoReq]
    BY <1>1 DEF MergeLastBatch
  <2>8. UNCHANGED <<cur, waitingQueue, lastBatch, batch, adder, inputs, outputs, finished,
                    isBeingChunked, ppIdx>> /\ phase # "process"
    BY <1>1 DEF MergeLastBatch
  <2> HIDE DEF kept
  <2>9. runningBatch' \in [Slot -> Seq(Req)] BY <2>1, <2>3, <2>6
  <2>10. beingChunkedReq' \in [Slot -> Maybe] BY <2>1, <2>7 DEF Maybe
  <2>11. QED BY <2>1, <2>5, <2>8, <2>9, <2>10 DEF Phases, Turn
<1>2. CASE ApplyResult
  <2>1. phase = "process" /\ cur \in Slot /\ NoBatch \in Batch
    <3>1. phase = "process" BY <1>2 DEF ApplyResult
    <3>2. NoBatch \in Batch BY DEF NoBatch, Batch, Maybe
    <3>3. QED BY <3>1, <3>2
  <2>2. Sampled(ResultOf) \subseteq Req
    <3>1. ResultOf \in Batch BY <2>1, ResultIsBatch
    <3>2. QED BY <3>1 DEF Sampled, Batch, ToSet
  <2>3. finished' \subseteq Req BY <1>2, <2>2 DEF ApplyResult
  <2>4. outputs' = [r \in Req |-> outputs[r] + (IF r \in Sampled(ResultOf) THEN 1 ELSE 0)]
    BY <1>2 DEF ApplyResult
  <2>5. outputs' \in [Req -> Nat] BY <2>4
  <2>6. isBeingChunked' \in [Req -> Int]
    <3>1. isBeingChunked' = [r \in Req |-> isBeingChunked[r]
            - (IF r \in ToSet(ResultOf.reqs) \ Sampled(ResultOf) THEN 1 ELSE 0)]
      BY <1>2 DEF ApplyResult
    <3>2. QED BY <3>1
  <2>7. lastBatch' \in [Slot -> Batch] BY <1>2, <2>1 DEF ApplyResult
  <2>8. QED BY <1>2, <2>1, <2>3, <2>5, <2>6, <2>7 DEF ApplyResult, Phases
<1>3. QED BY <1>1, <1>2

\* Every step keeps the types, if the running batch of the slot has no request twice.
LEMMA TypeStep ==
  ASSUME ControlType, [Next]_vars, phase = "decode" \/ AdmittedAll => IsInjective(runningBatch[cur])
  PROVE  ControlType'
<1> USE DEF requests, pools, slots, inputs
<1>1. CASE BeginIteration
  <2>1. cur' \in Slot
    <3>1. P \in Nat \ {0} /\ cur \in -1 .. P - 1 BY PAssumption DEF ControlType
    <3>2. QED BY <1>1, <3>1, Neighbours DEF BeginIteration, Slot
  <2>2. cur' \in -1 .. P - 1 BY <2>1 DEF Slot
  <2>3. QED BY <1>1, <2>1, <2>2 DEF BeginIteration, ControlType, Phases
<1>2. CASE FetchChunked
  <2>1. /\ phase = "fetch" /\ phase' = "prefill"
        /\ UNCHANGED <<cur, waitingQueue, runningBatch, lastBatch, batch, adder, inputs, outputs,
                       outputIdsLen, finished, isBeingChunked, ppIdx>>
        /\ \/ beingChunkedReq' = beingChunkedReq
           \/ P # 1 /\ beingChunkedReq' = [beingChunkedReq EXCEPT ![cur] = beingChunkedReq[(cur - 1) % P]]
    BY <1>2 DEF FetchChunked
  <2>2. cur \in Slot /\ (cur - 1) % P \in Slot
    <3>1. P \in Nat \ {0} /\ cur \in Slot BY <2>1, PAssumption DEF ControlType
    <3>2. QED BY <3>1, Neighbours DEF Slot
  <2>3. beingChunkedReq' \in [Slot -> Maybe] BY <2>1, <2>2 DEF ControlType
  <2>4. QED BY <2>1, <2>2, <2>3 DEF ControlType, Phases, Turn
<1>3. CASE SkipPrefill BY <1>3 DEF SkipPrefill, ControlType, Phases, Turn
<1>4. CASE StartPrefill
  <2>1. cur \in Slot BY <1>4 DEF StartPrefill, ControlType
  <2>2. beingChunkedReq' \in [Slot -> Maybe] BY <1>4, <2>1, StartedAdder DEF ControlType, Maybe
  <2>3. IsAdder(adder') BY <1>4, StartedAdder
  <2>4. QED BY <1>4, <2>1, <2>2, <2>3 DEF StartPrefill, ControlType, Phases, Turn
<1>5. CASE AdmitOne
  <2>1. IsAdder(adder') /\ phase' \in {"admit", "launch"}
    BY <1>5, AdmittedAdder DEF ControlType
  <2>2. QED BY <1>5, <2>1 DEF AdmitOne, ControlType, Phases, Turn
<1>6. CASE NothingAdmitted
  <2>1. IsAdder(NoAdder) BY DEF IsAdder, NoAdder, Maybe
  <2>2. QED BY <1>6, <2>1 DEF NothingAdmitted, AdmittedAll, ControlType, Phases, Turn
<1>7. CASE ExitOnPrefill BY <1>7 DEF ExitOnPrefill, AdmittedAll, ControlType, Phases
<1>8. CASE ExitOnDecode BY <1>8 DEF ExitOnDecode, ControlType, Phases
<1>9. CASE LaunchPrefill \/ DecodeRunning \/ NothingToRun
  BY <1>9, TypeLaunch DEF LaunchPrefill, DecodeRunning, NothingToRun
<1>10. CASE MergeLastBatch \/ ApplyResult BY <1>10, TypeResult
<1>11. CASE Receive BY <1>11, TypeReceive
<1>12. CASE UNCHANGED vars BY <1>12 DEF vars, ControlType
<1>13. QED BY <1>1, <1>2, <1>3, <1>4, <1>5, <1>6, <1>7, <1>8, <1>9, <1>10, <1>11, <1>12
         DEF Next, Iterate

-----------------------------------------------------------------------------
(* The invariant.  Slots launch their batches in turn, so a batch is known   *)
(* by its age; what has become of it since differs with the age.             *)

\* The slot that launched a batch last, and how many slots have launched since s did.
Newest == IF phase \in {"recv", "process"} THEN cur ELSE cur - 1
Age == [s \in Slot |-> IF s <= Newest THEN Newest - s ELSE Newest - s + P]

\* The last batch each slot launched; those of which the result is not applied yet; the
\* slot, if any, whose last batch is merged and whose next one is not launched yet.
Launched == [s \in Slot |-> IF phase = "process" /\ s = cur THEN batch ELSE lastBatch[s]]
Awaited == {s \in Slot : phase = "process" \/ Age[s] # P - 1}
Joined == IF phase \in Turn THEN {cur} ELSE {}

\* Where requests are: in the queue, in a running batch, or prefilled by a batch that is
\* not merged yet.  Chain is the request that is being chunked.
Waiting == ToSet(waitingQueue)
Running == [s \in Slot |-> ToSet(runningBatch[s])]
Whole(b) == ToSet(b.reqs) \ {b.partial}
Fresh == [s \in Slot |-> IF Launched[s].mode = "extend" /\ s \notin Joined
                         THEN Whole(Launched[s]) ELSE {}]
InSlot == [s \in Slot |-> Running[s] \cup Fresh[s]]
Chain == Launched[IF Newest = -1 THEN P - 1 ELSE Newest].partial

\* The awaited batches that compute a chunk of r that is not the last.
Chunks == [r \in Req |-> {s \in Awaited : Launched[s].partial = r}]

\* The requests that got a token which merging their batch will count.
Ahead == {r \in Req : \E s \in Slot \ (Awaited \cup Joined) : r \in Whole(Launched[s])}

\* The batches: a decoded one is still running when its result arrives.
BatchShape ==
  \A s \in Slot : LET b == Launched[s] IN
    /\ IsInjective(b.reqs)
    /\ b.mode = "none" => b.reqs = <<>>
    /\ b.partial # NoReq => b.mode = "extend" /\ b.partial \in ToSet(b.reqs)
    /\ b.mode = "decode" => ToSet(b.reqs) \subseteq Running[s]

\* _being_chunked_req, which a slot takes over from the previous one.
ChunkHeld ==
  /\ \A s \in Slot \ Joined : beingChunkedReq[s] = Launched[s].partial
  /\ phase = "fetch" => beingChunkedReq[cur] = IF P = 1 THEN Chain ELSE NoReq
  /\ phase = "prefill" => beingChunkedReq[cur] = Chain
  /\ phase \in {"admit", "launch"} => beingChunkedReq[cur] \in {NoReq, Chain}
  /\ phase = "decode" => beingChunkedReq[cur] = NoReq /\ Chain = NoReq

\* The adder takes the chunked request and a prefix of the queue.
Admitted ==
  phase \in {"admit", "launch"} =>
    /\ IsInjective(adder.canRun)
    /\ \A r \in ToSet(adder.canRun) :
         r = Chain \/ \E i \in DOMAIN waitingQueue : i < adder.next /\ waitingQueue[i] = r
    /\ Chain # NoReq => Chain \in ToSet(adder.canRun)
    /\ adder.newChunked # NoReq => adder.newChunked \in ToSet(adder.canRun)

\* No request is in two places.
Exclusive ==
  /\ IsInjective(waitingQueue) /\ \A s \in Slot : IsInjective(runningBatch[s])
  /\ Chain \notin Waiting
  /\ \A s \in Slot : /\ Chain \notin InSlot[s] /\ Waiting \cap InSlot[s] = {}
                     /\ Running[s] \cap Fresh[s] = {}
  /\ \A s, t \in Slot : s # t => InSlot[s] \cap InSlot[t] = {}

\* Every unfinished request is in some place.
Covered ==
  /\ finished \cup removed \subseteq arrived
  /\ Waiting \subseteq arrived \ removed
  /\ Chain # NoReq => Chain \in arrived \ removed
  /\ \A s \in Slot : InSlot[s] \subseteq arrived \ removed
  /\ \A r \in arrived \ (finished \cup removed) :
       r \in Waiting \/ r = Chain \/ \E s \in Slot : r \in InSlot[s]

\* No result is awaited of a request that is finished.
Unended ==
  /\ Waiting \cap finished = {} /\ Chain \notin finished
  /\ \A s \in Awaited : ToSet(Launched[s].reqs) \cap finished = {}

\* The chunks of a request are launched before its last chunk.
ChunksBefore ==
  \A s, t \in Slot : Launched[t].partial \in InSlot[s] => Age[t] > Age[s]

\* pp_idx tells the newest chunk of a request.
Owned ==
  \A s \in Slot : Launched[s].partial # NoReq => (ppIdx[Launched[s].partial] = s <=> Age[s] = 0)

Counted == \A r \in Req : isBeingChunked[r] = Cardinality(Chunks[r])

LenAgrees ==
  \A r \in Req \ finished : outputs[r] = outputIdsLen[r] + (IF r \in Ahead THEN 1 ELSE 0)

ControlInv ==
  phase # "exited" =>
    /\ BatchShape /\ ChunkHeld /\ Admitted /\ Exclusive /\ Covered /\ Unended
    /\ ChunksBefore /\ Owned /\ Counted /\ LenAgrees

\* A slot that takes over a chunked request has room for it.  Nothing in the code makes
\* sure of it: the room the request had in the slot it comes from says nothing about this
\* one.  When it fails, the request is skipped, and the invariant with it.
SlotHasRoom ==
  phase = "prefill" /\ beingChunkedReq[cur] # NoReq => Len(runningBatch[cur]) < MaxRunning

-----------------------------------------------------------------------------
\* Ages, by phase.
LEMMA Ages ==
  ASSUME ControlType
  PROVE  /\ Age \in [Slot -> 0 .. P - 1]
         /\ \A s, t \in Slot : Age[s] = Age[t] => s = t
         /\ (IF Newest = -1 THEN P - 1 ELSE Newest) \in Slot
         /\ \A s \in Slot : Age[s] = 0 <=> s = IF Newest = -1 THEN P - 1 ELSE Newest
         /\ phase \in Turn \cup {"handle"} => \A s \in Slot : Age[s] = P - 1 <=> s = cur
         /\ phase = "process" =>
              \A s \in Slot : Age[s] = P - 1 <=> s = IF cur = P - 1 THEN 0 ELSE cur + 1
         /\ phase = "recv" =>
              \A s \in Slot : Age[s] = P - 1 <=> s = IF cur = P - 1 THEN 0 ELSE cur + 1
<1>1. /\ P \in Nat \ {0} /\ cur \in -1 .. P - 1 /\ (phase # "recv" => cur \in 0 .. P - 1)
      /\ Slot = 0 .. P - 1
  BY PAssumption DEF ControlType, Slot
<1>2. /\ Newest \in -1 .. P - 1
      /\ phase \in Turn \cup {"handle"} => Newest = cur - 1
      /\ phase \in {"recv", "process"} => Newest = cur
  BY <1>1 DEF Newest, Turn
<1>3. \A s \in Slot : Age[s] = IF s <= Newest THEN Newest - s ELSE Newest - s + P BY DEF Age
<1>4. Age = [s \in Slot |-> IF s <= Newest THEN Newest - s ELSE Newest - s + P] BY DEF Age
<1> HIDE DEF Newest, Age
<1>5. Age \in [Slot -> 0 .. P - 1] BY <1>1, <1>2, <1>4
<1>6. \A s, t \in Slot : Age[s] = Age[t] => s = t BY <1>1, <1>2, <1>3
<1>7. \A s \in Slot : Age[s] = 0 <=> s = IF Newest = -1 THEN P - 1 ELSE Newest
  BY <1>1, <1>2, <1>3
<1>8. \A s \in Slot : Age[s] = P - 1 <=> s = IF Newest = P - 1 THEN 0 ELSE Newest + 1
  BY <1>1, <1>2, <1>3
<1>9. QED BY <1>1, <1>2, <1>5, <1>6, <1>7, <1>8

\* The types of the views.
LEMMA Views ==
  ASSUME ControlType
  PROVE  /\ Launched \in [Slot -> Batch] /\ Chain \in Maybe /\ Waiting \subseteq Req
         /\ Running \in [Slot -> SUBSET Req] /\ Fresh \in [Slot -> SUBSET Req]
         /\ InSlot \in [Slot -> SUBSET Req]
         /\ Awaited \subseteq Slot /\ Joined \subseteq Slot
         /\ \A b \in Batch : ToSet(b.reqs) \subseteq Req
<1>1. \A q \in Seq(Req) : ToSet(q) \subseteq Req BY DEF ToSet
<1>2. Launched \in [Slot -> Batch] BY DEF Launched, ControlType
<1>3. \A b \in Batch : b.reqs \in Seq(Req) /\ b.partial \in Maybe BY DEF Batch
<1>4. Chain \in Maybe BY <1>2, <1>3, Ages DEF Chain
<1>5. Running \in [Slot -> SUBSET Req] BY <1>1 DEF Running, ControlType
<1>6. Fresh \in [Slot -> SUBSET Req] BY <1>1, <1>2, <1>3 DEF Fresh, Whole
<1>7. InSlot \in [Slot -> SUBSET Req] BY <1>5, <1>6 DEF InSlot
<1>8. Joined \subseteq Slot BY DEF Joined, ControlType, Turn
<1>9. Waiting \subseteq Req BY <1>1 DEF Waiting, ControlType
<1>10. QED BY <1>1, <1>2, <1>3, <1>4, <1>5, <1>6, <1>7, <1>8, <1>9 DEF Awaited

\* The slots whose last batch still awaits its result: all while a batch is processed,
\* else all but the one whose turn it is or will be next.
LEMMA AwaitedSlots ==
  ASSUME ControlType
  PROVE  /\ phase = "process" => Awaited = Slot
         /\ phase \in Turn \cup {"handle"} => Awaited = Slot \ {cur}
         /\ phase = "recv" => Awaited = Slot \ {IF cur = P - 1 THEN 0 ELSE cur + 1}
BY Ages DEF Awaited, Turn

\* Parts of the state that most steps leave alone.
batches == <<runningBatch, lastBatch>>
placement == <<batches, waitingQueue, outputs, outputIdsLen, finished, isBeingChunked, ppIdx,
               arrived, removed>>

\* Ages and views are the same then, whichever slot is said to have the turn.
SameTurn ==
  /\ phase # "process" /\ phase' # "process" /\ (phase \in Turn <=> phase' \in Turn)
  /\ \/ cur' = cur /\ Newest' = Newest
     \/ phase = "recv" /\ phase' = "handle" /\ cur' = (cur + 1) % P

LEMMA SteadyViews ==
  ASSUME ControlType, ControlType', UNCHANGED batches, SameTurn
  PROVE  /\ Age' = Age /\ Launched' = Launched /\ Awaited' = Awaited /\ Joined' = Joined
         /\ Running' = Running /\ Fresh' = Fresh /\ InSlot' = InSlot
         /\ Chain' = Chain /\ Chunks' = Chunks /\ Ahead' = Ahead
<1>1. Joined' = Joined BY DEF SameTurn, Joined, Turn
<1>2. /\ Age' = Age
      /\ (IF Newest' = -1 THEN P - 1 ELSE Newest') = IF Newest = -1 THEN P - 1 ELSE Newest
  <2>1. CASE cur' = cur /\ Newest' = Newest BY <2>1 DEF Age
  <2>2. CASE phase = "recv" /\ phase' = "handle" /\ cur' = (cur + 1) % P
    <3>1. /\ P \in Nat \ {0} /\ cur \in -1 .. P - 1
          /\ cur' = IF cur = P - 1 THEN 0 ELSE cur + 1
      BY <2>2, PAssumption, Neighbours DEF ControlType
    <3>2. Newest = cur /\ Newest' = cur' - 1 BY <2>2 DEF Newest
    <3>3. \A s \in Slot : (IF s <= Newest THEN Newest - s ELSE Newest - s + P)
                            = IF s <= Newest' THEN Newest' - s ELSE Newest' - s + P
      BY <3>1, <3>2 DEF Slot
    <3>4. QED BY <3>1, <3>2, <3>3 DEF Age
  <2>3. QED BY <2>1, <2>2 DEF SameTurn
<1>3. Launched' = Launched BY DEF Launched, batches, SameTurn
<1>4. Chain' = Chain BY <1>2, <1>3 DEF Chain
<1>5. Awaited' = Awaited BY <1>2 DEF Awaited, SameTurn
<1>6. Running' = Running BY DEF Running, batches
<1>7. Fresh' = Fresh /\ InSlot' = InSlot BY <1>1, <1>3, <1>6 DEF Fresh, InSlot
<1>8. Chunks' = Chunks /\ Ahead' = Ahead BY <1>1, <1>3, <1>5 DEF Chunks, Ahead
<1>9. QED BY <1>1, <1>2, <1>3, <1>4, <1>5, <1>6, <1>7, <1>8

\* A step that leaves them alone keeps every part of the invariant that does not speak of
\* the phase.
LEMMA SteadyParts ==
  ASSUME ControlType, ControlType', UNCHANGED placement, SameTurn,
         phase # "exited", ControlInv
  PROVE  (BatchShape /\ Exclusive /\ Covered /\ Unended /\ ChunksBefore /\ Owned /\ Counted
           /\ LenAgrees)'
<1>1. /\ Age' = Age /\ Launched' = Launched /\ Awaited' = Awaited /\ Joined' = Joined
      /\ Waiting' = Waiting /\ Running' = Running /\ Fresh' = Fresh /\ InSlot' = InSlot
      /\ Chain' = Chain /\ Chunks' = Chunks /\ Ahead' = Ahead
  BY SteadyViews DEF placement, Waiting
<1>2. BatchShape' BY <1>1 DEF ControlInv, BatchShape
<1>3. Exclusive' BY <1>1 DEF ControlInv, Exclusive, placement, batches
<1>4. Covered' BY <1>1 DEF ControlInv, Covered, placement
<1>5. Unended' BY <1>1 DEF ControlInv, Unended, placement
<1>6. ChunksBefore' /\ Owned' BY <1>1 DEF ControlInv, ChunksBefore, Owned, placement
<1>7. Counted' /\ LenAgrees' BY <1>1 DEF ControlInv, Counted, LenAgrees, placement
<1>8. QED BY <1>2, <1>3, <1>4, <1>5, <1>6, <1>7

\* The steps that only move on, measure or allocate.
LEMMA ControlQuiet ==
  ASSUME ControlType, ControlType', ControlInv, BeginIteration \/ HandleFlush
  PROVE  ControlInv'
<1>1. UNCHANGED placement /\ SameTurn /\ phase # "exited" /\ phase' = "handle"
      /\ UNCHANGED beingChunkedReq
  BY DEF BeginIteration, HandleFlush, placement, batches, inputs, slots, requests, SameTurn, Turn, Newest
<1>2. Joined' = Joined /\ Launched' = Launched BY <1>1, SteadyViews DEF placement
<1>3. ChunkHeld' BY <1>1, <1>2 DEF ControlInv, ChunkHeld
<1>4. Admitted' BY <1>1 DEF Admitted
<1>5. QED BY <1>1, <1>3, <1>4, SteadyParts DEF ControlInv

\* A slot takes over the chunked request.
LEMMA ControlFetch ==
  ASSUME ControlType, ControlType', ControlInv, FetchChunked
  PROVE  ControlInv'
<1>1. UNCHANGED placement /\ SameTurn /\ phase = "fetch" /\ phase' = "prefill" /\ cur' = cur
  BY DEF FetchChunked, placement, batches, inputs, SameTurn, Turn, Newest
<1>2. Joined' = Joined /\ Joined = {cur} /\ Launched' = Launched /\ Chain' = Chain /\ cur \in Slot
  BY <1>1, SteadyViews DEF placement, Joined, Turn, ControlType
<1>3. ChunkHeld /\ \A s \in Slot \ Joined : beingChunkedReq[s] = Launched[s].partial
  BY <1>1 DEF ControlInv, ChunkHeld
<1>4. ChunkHeld'
  <2>1. CASE P = 1
    <3>1. UNCHANGED beingChunkedReq BY <2>1 DEF FetchChunked
    <3>2. QED BY <1>1, <1>2, <1>3, <2>1, <3>1 DEF ChunkHeld
  <2>2. CASE P # 1
    <3> DEFINE s == (cur - 1) % P
    <3>1. P \in Nat \ {0} /\ cur \in 0 .. P - 1 BY <1>2, PAssumption DEF Slot
    <3>2. s = (IF cur = 0 THEN P - 1 ELSE cur - 1) /\ Newest = cur - 1
      BY <1>1, <3>1, Neighbours DEF Newest
    <3>3. s \in Slot \ {cur} /\ Launched[s].partial = Chain
      BY <2>2, <3>1, <3>2 DEF Slot, Chain
    <3>4. beingChunkedReq[s] = Chain BY <1>2, <1>3, <3>3
    <3>5. beingChunkedReq[cur] = NoReq BY <1>1, <1>3, <2>2 DEF ChunkHeld
    <3> HIDE DEF s
    <3>6. \/ Chain = NoReq /\ beingChunkedReq' = beingChunkedReq
          \/ beingChunkedReq' = [beingChunkedReq EXCEPT ![cur] = Chain]
      BY <2>2, <3>4 DEF FetchChunked, s
    <3>7. /\ beingChunkedReq'[cur] = Chain
          /\ \A t \in Slot \ {cur} : beingChunkedReq'[t] = beingChunkedReq[t]
      BY <1>2, <3>5, <3>6 DEF ControlType
    <3>8. QED BY <1>1, <1>2, <1>3, <3>7 DEF ChunkHeld
  <2>3. QED BY <2>1, <2>2
<1>5. Admitted' BY <1>1 DEF Admitted
<1>6. QED BY <1>1, <1>4, <1>5, SteadyParts DEF ControlInv

\* The steps of get_new_batch_prefill up to the launch.
LEMMA ControlPrefill ==
  ASSUME ControlType, ControlType', ControlInv, SlotHasRoom,
         SkipPrefill \/ StartPrefill \/ AdmitOne \/ NothingAdmitted
  PROVE  ControlInv'
<1>1. /\ UNCHANGED placement /\ SameTurn /\ phase \in {"prefill", "admit", "launch"}
      /\ phase' \in {"admit", "launch", "decode"} /\ cur' = cur /\ cur \in Slot
  BY DEF SkipPrefill, StartPrefill, AdmitOne, NothingAdmitted, AdmittedAll, placement, batches, inputs,
         slots, requests, SameTurn, Turn, Newest, ControlType
<1>2. Joined' = Joined /\ Joined = {cur} /\ Launched' = Launched /\ Chain' = Chain
  BY <1>1, SteadyViews DEF placement, Joined, Turn
<1>3. ChunkHeld /\ Admitted BY <1>1 DEF ControlInv
<1>4. CASE SkipPrefill
  <2>1. phase = "prefill" /\ phase' = "decode" /\ UNCHANGED beingChunkedReq
    BY <1>4 DEF SkipPrefill, slots
  <2>2. beingChunkedReq[cur] = NoReq
    <3>1. SUFFICES ASSUME beingChunkedReq[cur] # NoReq PROVE FALSE OBVIOUS
    <3>2. Len(runningBatch[cur]) >= MaxRunning /\ Len(runningBatch[cur]) < MaxRunning
      BY <1>4, <2>1, <3>1 DEF SkipPrefill, PrefillWanted, SlotHasRoom
    <3>3. Len(runningBatch[cur]) \in Nat /\ MaxRunning \in Nat
      BY <1>1, ChunkAssumption, PoolAssumption DEF ControlType
    <3>4. QED BY <3>2, <3>3
  <2>3. ChunkHeld' BY <1>1, <1>2, <1>3, <2>1, <2>2 DEF ChunkHeld
  <2>4. Admitted' BY <2>1 DEF Admitted
  <2>5. QED BY <1>1, <2>3, <2>4, SteadyParts DEF ControlInv
<1>5. CASE StartPrefill
  <2>1. phase = "prefill" /\ phase' = "admit" BY <1>5 DEF StartPrefill
  <2>2. beingChunkedReq[cur] = Chain BY <1>3, <2>1 DEF ChunkHeld
  <2>3. /\ adder'.newChunked = NoReq
        /\ adder'.canRun = IF Chain = NoReq THEN <<>> ELSE <<Chain>>
        /\ \/ beingChunkedReq' = beingChunkedReq
           \/ beingChunkedReq' = [beingChunkedReq EXCEPT ![cur] = NoReq]
    BY <1>5, <2>2, StartedAdder
  <2>4. /\ beingChunkedReq'[cur] \in {NoReq, Chain}
        /\ \A s \in Slot \ {cur} : beingChunkedReq'[s] = beingChunkedReq[s]
    <3>1. beingChunkedReq \in [Slot -> Maybe] BY DEF ControlType
    <3>2. QED BY <1>1, <2>2, <2>3, <3>1
  <2>5. ChunkHeld' BY <1>1, <1>2, <1>3, <2>1, <2>4 DEF ChunkHeld
  <2>6. Admitted'
    <3>1. /\ IsInjective(<<>>) /\ ToSet(<<>>) = {}
          /\ \A x : IsInjective(<<x>>) /\ ToSet(<<x>>) = {x}
      BY DEF IsInjective, ToSet
    <3>2. QED BY <1>2, <2>3, <3>1 DEF Admitted
  <2>7. QED BY <1>1, <2>5, <2>6, SteadyParts DEF ControlInv
<1>6. CASE AdmitOne
  <2>1. phase \in {"admit", "launch"} /\ phase' \in {"admit", "launch"}
        /\ UNCHANGED <<beingChunkedReq, waitingQueue>>
    BY <1>1, <1>6, AdmittedAdder DEF AdmitOne, slots
  <2>2. ChunkHeld' BY <1>1, <1>2, <1>3, <2>1 DEF ChunkHeld
  <2>3. Admitted'
    <3>1. CASE adder' = adder BY <1>2, <1>3, <2>1, <3>1 DEF Admitted
    <3>2. CASE adder' # adder
      <4> DEFINE r == waitingQueue[adder.next]
      <4>1. /\ adder.next \in DOMAIN waitingQueue /\ adder'.next = adder.next + 1
            /\ adder'.canRun = Append(adder.canRun, r)
            /\ adder'.newChunked \in {adder.newChunked, r}
        BY <1>6, <3>2, AdmittedAdder
      <4>2. /\ r \in Req /\ r \in Waiting /\ adder.canRun \in Seq(Req) /\ adder.next \in Nat
            /\ DOMAIN waitingQueue \subseteq Nat
        <5>1. waitingQueue \in Seq(Req) BY DEF ControlType
        <5>2. DOMAIN waitingQueue = 1 .. Len(waitingQueue) /\ Len(waitingQueue) \in Nat BY <5>1
        <5>3. r \in Req /\ r \in Waiting BY <4>1, <5>1 DEF Waiting, ToSet
        <5>4. adder.canRun \in Seq(Req) /\ adder.next \in Nat BY DEF ControlType, IsAdder
        <5>5. QED BY <5>2, <5>3, <5>4
      <4>3. IsInjective(waitingQueue) /\ Chain \notin Waiting BY <1>1 DEF ControlInv, Exclusive
      <4>4. \A x \in ToSet(adder.canRun) :
              x = Chain \/ \E i \in DOMAIN waitingQueue : i < adder.next /\ waitingQueue[i] = x
        BY <1>3, <2>1 DEF Admitted
      <4>5. r \notin ToSet(adder.canRun)
        <5>1. \A i \in DOMAIN waitingQueue : waitingQueue[i] = r => i = adder.next
          BY <4>1, <4>3 DEF IsInjective
        <5>2. \A i \in DOMAIN waitingQueue : i < adder.next => waitingQueue[i] # r
          BY <4>2, <5>1
        <5>3. QED BY <4>2, <4>3, <4>4, <5>2
      <4>6. /\ ToSet(adder'.canRun) = ToSet(adder.canRun) \cup {r}
            /\ IsInjective(adder.canRun) => IsInjective(adder'.canRun)
        BY <4>1, <4>2, <4>5, AppendedElement
      <4>7. \A x \in ToSet(adder'.canRun) :
              x = Chain \/ \E i \in DOMAIN waitingQueue : i < adder'.next /\ waitingQueue[i] = x
        <5>1. \A i \in DOMAIN waitingQueue : i < adder.next \/ i = adder.next => i < adder.next + 1
          BY <4>2
        <5>2. QED BY <4>1, <4>4, <4>6, <5>1
      <4> HIDE DEF r
      <4>8. QED BY <1>2, <1>3, <2>1, <4>1, <4>6, <4>7 DEF Admitted
    <3>3. QED BY <3>1, <3>2
  <2>4. QED BY <1>1, <2>2, <2>3, SteadyParts DEF ControlInv
<1>7. CASE NothingAdmitted
  <2>1. /\ phase \in {"admit", "launch"} /\ phase' = "decode" /\ UNCHANGED beingChunkedReq
        /\ adder.canRun = <<>>
    BY <1>7 DEF NothingAdmitted, AdmittedAll, slots
  <2>2. Chain = NoReq BY <1>3, <2>1 DEF Admitted, ToSet
  <2>3. ChunkHeld' BY <1>1, <1>2, <1>3, <2>1, <2>2 DEF ChunkHeld
  <2>4. Admitted' BY <2>1 DEF Admitted
  <2>5. QED BY <1>1, <2>3, <2>4, SteadyParts DEF ControlInv
<1>8. QED BY <1>4, <1>5, <1>6, <1>7

\* A request arrives, or is aborted while it waits.
LEMMA ControlReceive ==
  ASSUME ControlType, ControlType', ControlInv, NEW r \in Req, HandleGenerate(r) \/ HandleAbort(r)
  PROVE  ControlInv'
<1>1. /\ phase = "handle" /\ phase' = "handle" /\ SameTurn /\ UNCHANGED batches
      /\ UNCHANGED <<beingChunkedReq, outputs, outputIdsLen, finished, isBeingChunked, ppIdx>>
  BY DEF HandleGenerate, HandleAbort, batches, inputs, slots, requests, SameTurn, Turn, Newest
<1>2. /\ Age' = Age /\ Launched' = Launched /\ Awaited' = Awaited /\ Joined' = Joined
      /\ Running' = Running /\ Fresh' = Fresh /\ InSlot' = InSlot
      /\ Chain' = Chain /\ Chunks' = Chunks /\ Ahead' = Ahead
  BY <1>1, SteadyViews
<1>3. /\ BatchShape /\ ChunkHeld /\ Exclusive /\ Covered /\ Unended
      /\ ChunksBefore /\ Owned /\ Counted /\ LenAgrees
  BY <1>1 DEF ControlInv
<1>4. waitingQueue \in Seq(Req) BY DEF ControlType
<1>5. \/ /\ r \notin arrived /\ arrived' = arrived \cup {r} /\ removed' = removed
         /\ Waiting' = Waiting \cup {r} /\ IsInjective(waitingQueue')
      \/ /\ arrived' = arrived /\ r \in arrived
         /\ removed' = IF r \in Waiting THEN removed \cup {r} ELSE removed
         /\ Waiting' = Waiting \ {r} /\ IsInjective(waitingQueue')
  <2>1. CASE HandleGenerate(r)
    <3>1. r \notin Waiting BY <1>3, <2>1 DEF Covered, HandleGenerate
    <3>2. QED BY <1>3, <1>4, <2>1, <3>1, AppendedElement DEF HandleGenerate, Waiting, Exclusive
  <2>2. CASE HandleAbort(r)
    <3>1. Contains(waitingQueue, r) <=> r \in Waiting BY <1>4 DEF Contains, Waiting, ToSet
    <3>2. QED BY <1>3, <1>4, <2>2, <3>1, WithoutElements DEF HandleAbort, Waiting, Exclusive
  <2>3. QED BY <2>1, <2>2
<1>6. Chain \in Maybe /\ Waiting \subseteq Req /\ NoReq \notin Req BY Views, ReqAssumption
<1>7. BatchShape' BY <1>2, <1>3 DEF BatchShape
<1>8. ChunkHeld' /\ Admitted' BY <1>1, <1>2, <1>3 DEF ChunkHeld, Admitted
<1>9. Exclusive'
  <2>1. r \in arrived \/ (r # Chain /\ \A s \in Slot : r \notin InSlot[s])
    BY <1>3, <1>6 DEF Covered, Maybe
  <2>2. Chain \notin Waiting' /\ \A s \in Slot : Waiting' \cap InSlot[s] = {}
    BY <1>3, <1>5, <2>1 DEF Exclusive
  <2>3. QED BY <1>1, <1>2, <1>3, <1>5, <2>2 DEF Exclusive, batches
<1>10. Covered'
  <2>1. CASE r \notin arrived BY <1>1, <1>2, <1>3, <1>5, <2>1 DEF Covered
  <2>2. CASE r \in arrived
    <3>1. r \in Waiting => r # Chain /\ \A s \in Slot : r \notin InSlot[s]
      BY <1>3 DEF Exclusive
    <3>2. QED BY <1>1, <1>2, <1>3, <1>5, <2>2, <3>1 DEF Covered
  <2>3. QED BY <2>1, <2>2
<1>11. Unended' BY <1>1, <1>2, <1>3, <1>5 DEF Unended, Covered
<1>12. ChunksBefore' /\ Owned' BY <1>1, <1>2, <1>3 DEF ChunksBefore, Owned
<1>13. Counted' /\ LenAgrees' BY <1>1, <1>2, <1>3 DEF Counted, LenAgrees
<1>14. QED BY <1>7, <1>8, <1>9, <1>10, <1>11, <1>12, <1>13 DEF ControlInv

\* What the slot's last batch adds to its running requests, and what becomes of the request
\* it was chunking.
LEMMA MergedBatch ==
  ASSUME ControlType, ControlInv, MergeLastBatch
  PROVE  LET b == lastBatch[cur] IN
         /\ b = Launched[cur] /\ cur \in Slot /\ cur \notin Joined
         /\ ToSet(runningBatch'[cur]) \subseteq InSlot[cur]
         /\ Running[cur] \subseteq ToSet(runningBatch'[cur])
         /\ InSlot[cur] \ finished \subseteq ToSet(runningBatch'[cur])
         /\ IsInjective(runningBatch'[cur])
         /\ \A s \in Slot \ {cur} : /\ runningBatch'[s] = runningBatch[s]
                                    /\ beingChunkedReq'[s] = beingChunkedReq[s]
         /\ beingChunkedReq'[cur] = IF P = 1 THEN Chain ELSE NoReq
         /\ \A r \in Req \ finished :
              outputIdsLen'[r] = outputIdsLen[r] + (IF r \in Whole(b) THEN 1 ELSE 0)
<1> DEFINE b == lastBatch[cur]
           c == IF b.mode = "extend" THEN beingChunkedReq[cur] ELSE NoReq
           kept == KeptOf(b.reqs, c)
<1>1. /\ phase = "handle" /\ cur \in Slot /\ Joined = {} /\ Awaited = Slot \ {cur}
      /\ BatchShape /\ ChunkHeld /\ Exclusive /\ Owned
      /\ lastBatch \in [Slot -> Batch] /\ beingChunkedReq \in [Slot -> Maybe]
      /\ runningBatch \in [Slot -> Seq(Req)] /\ b \in Batch /\ runningBatch[cur] \in Seq(Req)
      /\ NoReq \notin Req
  BY AwaitedSlots, ReqAssumption DEF MergeLastBatch, ControlType, ControlInv, Joined, Turn
<1>2. b = Launched[cur] BY <1>1 DEF Launched
<1>3. beingChunkedReq[cur] = b.partial /\ (b.partial # NoReq => b.mode = "extend")
  BY <1>1, <1>2 DEF ChunkHeld, BatchShape
<1>4. c = b.partial BY <1>3
<1>5. /\ IsInjective(b.reqs) /\ b.reqs \in Seq(Req) /\ ToSet(b.reqs) \subseteq Req
      /\ b.partial \in Maybe /\ b.mode \in {"none", "extend", "decode"}
  BY <1>1, <1>2, Views DEF BatchShape, Batch
<1> HIDE DEF b, c
<1>6. /\ kept \in Seq(Req) /\ IsInjective(kept)
      /\ ToSet(kept) \subseteq Whole(b) /\ Whole(b) \ finished \subseteq ToSet(kept)
  <2>1. CASE c = NoReq
    <3>1. kept = b.reqs /\ Whole(b) = ToSet(b.reqs) BY <1>1, <1>4, <1>5, <2>1 DEF KeptOf, Whole
    <3>2. QED BY <1>5, <3>1
  <2>2. CASE c # NoReq
    <3>1. kept = Without(b.reqs, finished \cup {c}) BY <2>2 DEF KeptOf
    <3>2. /\ kept \in Seq(Req) /\ IsInjective(kept)
          /\ ToSet(kept) = ToSet(b.reqs) \ (finished \cup {c})
      BY <1>5, <3>1, WithoutElements
    <3>3. QED BY <1>4, <3>2 DEF Whole
  <2>3. QED BY <2>1, <2>2
<1>7. /\ runningBatch' = IF b.mode = "extend" THEN [runningBatch EXCEPT ![cur] = @ \o kept]
                         ELSE runningBatch
      /\ outputIdsLen' = [r \in Req |-> outputIdsLen[r] + (IF Contains(kept, r) THEN 1 ELSE 0)]
      /\ IF c # NoReq /\ ChunkedHere(c) THEN UNCHANGED beingChunkedReq
         ELSE beingChunkedReq' = IF c = NoReq THEN beingChunkedReq
                                 ELSE [beingChunkedReq EXCEPT ![cur] = NoReq]
  BY DEF MergeLastBatch, b, c
<1>8. \A r : Contains(kept, r) <=> r \in ToSet(kept) BY <1>6 DEF Contains, ToSet
<1> HIDE DEF kept
<1>9. Fresh[cur] = IF b.mode = "extend" THEN Whole(b) ELSE {} BY <1>1, <1>2 DEF Fresh
<1>10. Running[cur] = ToSet(runningBatch[cur]) /\ InSlot[cur] = Running[cur] \cup Fresh[cur]
  BY <1>1 DEF Running, InSlot
<1>11. /\ ToSet(runningBatch'[cur]) \subseteq InSlot[cur]
       /\ Running[cur] \subseteq ToSet(runningBatch'[cur])
       /\ InSlot[cur] \ finished \subseteq ToSet(runningBatch'[cur])
       /\ IsInjective(runningBatch'[cur])
  <2>1. IsInjective(runningBatch[cur]) /\ Running[cur] \cap Fresh[cur] = {}
    BY <1>1 DEF Exclusive
  <2>2. CASE b.mode = "extend"
    <3>1. runningBatch'[cur] = runningBatch[cur] \o kept BY <1>1, <1>7, <2>2
    <3>2. ToSet(runningBatch[cur]) \cap ToSet(kept) = {} BY <1>6, <1>9, <1>10, <2>1, <2>2
    <3>3. /\ ToSet(runningBatch'[cur]) = ToSet(runningBatch[cur]) \cup ToSet(kept)
          /\ IsInjective(runningBatch'[cur])
      BY <1>1, <1>6, <2>1, <3>1, <3>2, JoinedElements
    <3>4. QED BY <1>6, <1>9, <1>10, <2>2, <3>3
  <2>3. CASE b.mode # "extend" BY <1>7, <1>9, <1>10, <2>1, <2>3
  <2>4. QED BY <2>2, <2>3
<1>12. /\ \A s \in Slot \ {cur} : /\ runningBatch'[s] = runningBatch[s]
                                  /\ beingChunkedReq'[s] = beingChunkedReq[s]
  BY <1>1, <1>7
<1>13. beingChunkedReq'[cur] = IF P = 1 THEN Chain ELSE NoReq
  <2>1. P = 1 => Chain = c
    <3>1. SUFFICES ASSUME P = 1 PROVE Chain = c OBVIOUS
    <3>2. cur = 0 /\ Newest = -1 BY <1>1, <3>1 DEF Slot, Newest
    <3>3. QED BY <1>2, <1>4, <3>1, <3>2 DEF Chain
  <2>2. CASE c = NoReq BY <1>3, <1>4, <1>7, <2>1, <2>2
  <2>3. CASE c # NoReq
    <3>1. ChunkedHere(c) <=> Age[cur] = 0 BY <1>1, <1>2, <1>4, <2>3 DEF Owned, ChunkedHere
    <3>2. Age[cur] = P - 1 /\ P \in Nat \ {0} BY <1>1, Ages, PAssumption
    <3>3. ChunkedHere(c) <=> P = 1 BY <3>1, <3>2
    <3>4. QED BY <1>1, <1>3, <1>4, <1>7, <2>1, <2>3, <3>3
  <2>4. QED BY <2>2, <2>3
<1>14. \A r \in Req \ finished :
         outputIdsLen'[r] = outputIdsLen[r] + (IF r \in Whole(b) THEN 1 ELSE 0)
  BY <1>6, <1>7, <1>8
<1>15. QED BY <1>1, <1>2, <1>11, <1>12, <1>13, <1>14 DEF b

\* The views after a merge.
LEMMA MergeViews ==
  ASSUME ControlType, ControlInv, MergeLastBatch
  PROVE  /\ Joined = {} /\ Joined' = {cur} /\ Awaited = Slot \ {cur} /\ Awaited' = Awaited
         /\ Age' = Age /\ Launched' = Launched /\ Chain' = Chain /\ Waiting' = Waiting
         /\ Chunks' = Chunks /\ Running'[cur] = ToSet(runningBatch'[cur])
         /\ \A s \in Slot : /\ s # cur => Running'[s] = Running[s]
                            /\ Fresh'[s] = IF s = cur THEN {} ELSE Fresh[s]
                            /\ InSlot'[s] \subseteq InSlot[s]
                            /\ InSlot[s] \ finished \subseteq InSlot'[s]
<1>1. /\ phase = "handle" /\ phase' = "fetch" /\ cur' = cur /\ UNCHANGED <<waitingQueue, lastBatch>>
  BY DEF MergeLastBatch
<1>2. /\ cur \in Slot /\ ToSet(runningBatch'[cur]) \subseteq InSlot[cur]
      /\ InSlot[cur] \ finished \subseteq ToSet(runningBatch'[cur])
      /\ \A s \in Slot \ {cur} : runningBatch'[s] = runningBatch[s]
  BY MergedBatch
<1>3. Newest' = Newest /\ Joined = {} /\ Joined' = {cur}
  BY <1>1 DEF Newest, Joined, Turn
<1>4. Age' = Age /\ Launched' = Launched /\ Chain' = Chain /\ Waiting' = Waiting
  BY <1>1, <1>3 DEF Age, Launched, Chain, Waiting
<1>5. Awaited = Slot \ {cur} /\ Awaited' = Awaited /\ Chunks' = Chunks
  BY <1>1, <1>4, AwaitedSlots DEF Awaited, Chunks, Turn
<1>6. /\ Running'[cur] = ToSet(runningBatch'[cur]) /\ Fresh'[cur] = {}
      /\ InSlot'[cur] = Running'[cur]
      /\ \A s \in Slot \ {cur} : /\ Running'[s] = Running[s] /\ Fresh'[s] = Fresh[s]
                                 /\ InSlot'[s] = InSlot[s]
  BY <1>2, <1>3, <1>4 DEF Running, Fresh, InSlot
<1>7. QED BY <1>2, <1>3, <1>4, <1>5, <1>6

LEMMA ControlMerge ==
  ASSUME ControlType, ControlType', ControlInv, MergeLastBatch
  PROVE  ControlInv'
<1>1. /\ phase = "handle" /\ phase' = "fetch" /\ cur' = cur
      /\ UNCHANGED <<waitingQueue, lastBatch, inputs, outputs, finished, isBeingChunked, ppIdx>>
  BY DEF MergeLastBatch
<1>2. /\ cur \in Slot /\ Running[cur] \subseteq ToSet(runningBatch'[cur])
      /\ IsInjective(runningBatch'[cur])
      /\ \A s \in Slot \ {cur} : /\ runningBatch'[s] = runningBatch[s]
                                 /\ beingChunkedReq'[s] = beingChunkedReq[s]
      /\ beingChunkedReq'[cur] = IF P = 1 THEN Chain ELSE NoReq
      /\ \A r \in Req \ finished :
           outputIdsLen'[r] = outputIdsLen[r] + (IF r \in Whole(Launched[cur]) THEN 1 ELSE 0)
  BY MergedBatch
<1>3. /\ BatchShape /\ ChunkHeld /\ Exclusive /\ Covered /\ Unended
      /\ ChunksBefore /\ Owned /\ Counted /\ LenAgrees
  BY <1>1 DEF ControlInv
<1>4. /\ Joined = {} /\ Joined' = {cur} /\ Awaited = Slot \ {cur} /\ Awaited' = Awaited
      /\ Age' = Age /\ Launched' = Launched /\ Chain' = Chain /\ Waiting' = Waiting
      /\ Chunks' = Chunks /\ Running'[cur] = ToSet(runningBatch'[cur])
      /\ \A s \in Slot : /\ s # cur => Running'[s] = Running[s]
                         /\ Fresh'[s] = IF s = cur THEN {} ELSE Fresh[s]
                         /\ InSlot'[s] \subseteq InSlot[s]
                         /\ InSlot[s] \ finished \subseteq InSlot'[s]
  BY MergeViews
<1>5. BatchShape'
  <2>1. \A s \in Slot : Running[s] \subseteq Running'[s] BY <1>2, <1>4
  <2>2. QED BY <1>3, <1>4, <2>1 DEF BatchShape
<1>6. ChunkHeld' BY <1>1, <1>2, <1>3, <1>4 DEF ChunkHeld
<1>7. Admitted' BY <1>1 DEF Admitted
<1>8. Exclusive'
  <2>1. \A s \in Slot : IsInjective(runningBatch'[s]) BY <1>2, <1>3 DEF Exclusive
  <2>2. \A s \in Slot : Running'[s] \cap Fresh'[s] = {} BY <1>3, <1>4 DEF Exclusive
  <2>3. QED BY <1>1, <1>3, <1>4, <2>1, <2>2 DEF Exclusive
<1>9. Covered'
  <2>1. UNCHANGED <<arrived, removed, finished>> BY <1>1 DEF inputs
  <2>2. \A r \in arrived \ (finished \cup removed) :
          r \in Waiting \/ r = Chain \/ \E s \in Slot : r \in InSlot'[s]
    BY <1>3, <1>4 DEF Covered
  <2>3. QED BY <1>3, <1>4, <2>1, <2>2 DEF Covered
<1>10. Unended' BY <1>1, <1>3, <1>4 DEF Unended
<1>11. ChunksBefore' BY <1>3, <1>4 DEF ChunksBefore
<1>12. Owned' /\ Counted' BY <1>1, <1>3, <1>4 DEF Owned, Counted
<1>13. LenAgrees'
  <2>1. \A r \in Req : r \in Ahead <=> r \in Whole(Launched[cur])
    BY <1>2, <1>4 DEF Ahead
  <2>2. \A r \in Req : r \notin Ahead' BY <1>4 DEF Ahead
  <2>3. \A r \in Req : outputIdsLen[r] \in Nat BY DEF ControlType
  <2>4. ASSUME NEW r \in Req \ finished PROVE outputs[r] = outputIdsLen'[r] + 0
    BY <1>2, <1>3, <2>1, <2>3 DEF LenAgrees
  <2>5. QED BY <1>1, <2>2, <2>4 DEF LenAgrees
<1>14. QED BY <1>5, <1>6, <1>7, <1>8, <1>9, <1>10, <1>11, <1>12, <1>13 DEF ControlInv

-----------------------------------------------------------------------------
\* What the launches have in common: requests of the queue, the slot's running batch and
\* the chain are dealt out again to the three and to the new batch.
Prefilled(b) == IF b.mode = "extend" THEN Whole(b) ELSE {}
Left(s, b) == ToSet(s) \cup Prefilled(b)

\* Who is queued, runs, prefills or is chunked after a launch was so before it, and only
\* the finished leave.
Placed ==
  /\ ToSet(runningBatch'[cur]) \cap Prefilled(batch') = {}
  /\ Waiting' \cap Left(runningBatch'[cur], batch') = {}
  /\ batch'.partial \notin Waiting' \cup Left(runningBatch'[cur], batch')
  /\ Waiting' \cup Left(runningBatch'[cur], batch') \cup {batch'.partial}
       \subseteq Waiting \cup Running[cur] \cup {Chain, NoReq}
  /\ (Waiting \cup Running[cur] \cup {Chain}) \ finished
       \subseteq Waiting' \cup Left(runningBatch'[cur], batch') \cup {batch'.partial, NoReq}
  /\ Waiting' \cap finished = {} /\ ToSet(batch'.reqs) \cap finished = {} /\ Chain \notin Waiting'

Launches ==
  /\ phase \in Turn /\ phase' = "process" /\ cur' = cur
  /\ UNCHANGED <<lastBatch, arrived, removed, outputs, outputIdsLen, finished>>
  /\ \A s \in Slot \ {cur} : /\ runningBatch'[s] = runningBatch[s]
                             /\ beingChunkedReq'[s] = beingChunkedReq[s]
  /\ beingChunkedReq'[cur] = batch'.partial
  /\ IsInjective(waitingQueue') /\ IsInjective(runningBatch'[cur]) /\ IsInjective(batch'.reqs)
  /\ batch'.mode = "none" => batch'.reqs = <<>>
  /\ batch'.partial # NoReq => batch'.mode = "extend" /\ batch'.partial \in ToSet(batch'.reqs)
  /\ batch'.mode = "decode" => ToSet(batch'.reqs) \subseteq ToSet(runningBatch'[cur])
  /\ Placed
  /\ \A r \in Req : /\ isBeingChunked'[r] = isBeingChunked[r] + (IF r = batch'.partial THEN 1 ELSE 0)
                    /\ ppIdx'[r] \in {ppIdx[r], cur}
                    /\ r \in {Chain, batch'.partial} => ppIdx'[r] = cur

LEMMA LaunchViews ==
  ASSUME ControlType, ControlType', Launches
  PROVE  /\ cur \in Slot /\ Joined = {cur} /\ Joined' = {} /\ Awaited = Slot \ {cur} /\ Awaited' = Slot
         /\ Age'[cur] = 0 /\ \A s \in Slot \ {cur} : Age'[s] = Age[s] + 1 /\ Age[s] \in Nat
         /\ Launched'[cur] = batch' /\ Chain' = batch'.partial
         /\ \A s \in Slot \ {cur} : Launched'[s] = Launched[s]
         /\ Running'[cur] = ToSet(runningBatch'[cur]) /\ Fresh'[cur] = Prefilled(batch')
         /\ InSlot'[cur] = Left(runningBatch'[cur], batch') /\ InSlot[cur] = Running[cur]
         /\ \A s \in Slot \ {cur} : /\ Running'[s] = Running[s] /\ Fresh'[s] = Fresh[s]
                                    /\ InSlot'[s] = InSlot[s]
<1>1. /\ phase # "process" /\ phase' = "process" /\ cur' = cur /\ lastBatch' = lastBatch
      /\ phase \notin {"recv", "process", "handle"} /\ Joined = {cur} /\ Joined' = {}
      /\ \A s \in Slot \ {cur} : runningBatch'[s] = runningBatch[s]
  BY DEF Launches, Placed, Turn, Joined
<1>2. P \in Nat \ {0} /\ cur \in 0 .. P - 1 /\ Slot = 0 .. P - 1 /\ cur \in Slot
  BY <1>1, PAssumption DEF ControlType, Slot
<1>3. Awaited = Slot \ {cur} /\ Awaited' = Slot
  BY <1>1, AwaitedSlots DEF Awaited, Launches, Placed
<1>4. Newest = cur - 1 /\ Newest' = cur BY <1>1 DEF Newest
<1>5. /\ \A s \in Slot : Age[s] = IF s <= Newest THEN Newest - s ELSE Newest - s + P
      /\ \A s \in Slot : Age'[s] = IF s <= Newest' THEN Newest' - s ELSE Newest' - s + P
  BY DEF Age
<1>6. Age'[cur] = 0 /\ \A s \in Slot \ {cur} : Age'[s] = Age[s] + 1 /\ Age[s] \in Nat
  <2> HIDE DEF Newest, Age
  <2>1. Age'[cur] = 0 BY <1>2, <1>4, <1>5
  <2>2. ASSUME NEW s \in Slot \ {cur} PROVE Age'[s] = Age[s] + 1 /\ Age[s] \in Nat
    BY <1>2, <1>4, <1>5
  <2>3. QED BY <2>1, <2>2
<1>7. /\ Launched'[cur] = batch' /\ \A s \in Slot \ {cur} : Launched'[s] = Launched[s]
  BY <1>1, <1>2 DEF Launched
<1>8. Chain' = batch'.partial BY <1>2, <1>4, <1>7 DEF Chain
<1>9. /\ Running'[cur] = ToSet(runningBatch'[cur]) /\ Fresh'[cur] = Prefilled(batch')
      /\ InSlot'[cur] = Left(runningBatch'[cur], batch') /\ InSlot[cur] = Running[cur]
  BY <1>1, <1>2, <1>7 DEF Running, Fresh, InSlot, Prefilled, Left
<1>10. \A s \in Slot \ {cur} : /\ Running'[s] = Running[s] /\ Fresh'[s] = Fresh[s]
                               /\ InSlot'[s] = InSlot[s]
  BY <1>1, <1>7 DEF Running, Fresh, InSlot
<1>11. QED BY <1>1, <1>2, <1>3, <1>6, <1>7, <1>8, <1>9, <1>10

\* Sets of slots are finite.
LEMMA SlotsFinite ==
  ASSUME NEW S \in SUBSET Slot
  PROVE  IsFiniteSet(S)
<1>1. 0 \in Int /\ P - 1 \in Int BY PAssumption
<1>2. IsFiniteSet(Slot) BY <1>1, FS_Interval DEF Slot
<1>3. QED BY <1>2, FS_Subset

\* The counters of a launch.
LEMMA LaunchCounters ==
  ASSUME ControlType, ControlType', ControlInv, Launches
  PROVE  (Owned /\ Counted /\ LenAgrees)'
<1>1. /\ cur \in Slot /\ Joined = {cur} /\ Joined' = {} /\ Awaited = Slot \ {cur} /\ Awaited' = Slot
      /\ Age'[cur] = 0 /\ \A s \in Slot \ {cur} : Age'[s] = Age[s] + 1 /\ Age[s] \in Nat
      /\ Launched'[cur] = batch' /\ \A s \in Slot \ {cur} : Launched'[s] = Launched[s]
  BY LaunchViews
<1>2. /\ Launched \in [Slot -> Batch] /\ Launched' \in [Slot -> Batch]
      /\ \A b \in Batch : b.partial \in Maybe
  <2>1. Launched \in [Slot -> Batch] BY Views
  <2>2. Launched' \in [Slot -> Batch] BY DEF Launched, ControlType
  <2>3. QED BY <2>1, <2>2 DEF Batch
<1>3. Owned /\ Counted /\ LenAgrees BY DEF ControlInv, Launches, Placed, Turn
<1>4. \A r \in Req : /\ isBeingChunked'[r] = isBeingChunked[r] + (IF r = batch'.partial THEN 1 ELSE 0)
                     /\ ppIdx'[r] \in {ppIdx[r], cur}
                     /\ r \in {Chain, batch'.partial} => ppIdx'[r] = cur
  BY DEF Launches, Placed
<1>5. Owned'
  <2> SUFFICES ASSUME NEW s \in Slot, Launched'[s].partial # NoReq
               PROVE  ppIdx'[Launched'[s].partial] = s <=> Age'[s] = 0
    BY DEF Owned
  <2> DEFINE x == Launched'[s].partial
  <2>1. x \in Req BY <1>2 DEF Maybe
  <2>2. CASE s = cur BY <1>1, <1>4, <2>1, <2>2
  <2>3. CASE s # cur
    <3>1. x = Launched[s].partial /\ Age'[s] # 0 BY <1>1, <2>3
    <3>2. ppIdx[x] = s => x = Chain
      <4>1. ppIdx[x] = s => Age[s] = 0 BY <1>3, <2>1, <3>1 DEF Owned
      <4>2. Age[s] = 0 => s = IF Newest = -1 THEN P - 1 ELSE Newest BY Ages
      <4>3. QED BY <3>1, <4>1, <4>2 DEF Chain
    <3>3. ppIdx'[x] # s BY <1>4, <2>1, <2>3, <3>2
    <3>4. QED BY <3>1, <3>3
  <2>4. QED BY <2>2, <2>3
<1>6. Counted'
  <2> SUFFICES ASSUME NEW r \in Req PROVE isBeingChunked'[r] = Cardinality(Chunks'[r]) BY DEF Counted
  <2>1. /\ Chunks[r] = {s \in Slot \ {cur} : Launched[s].partial = r}
        /\ Chunks'[r] = {s \in Slot : Launched'[s].partial = r}
    BY <1>1 DEF Chunks
  <2>2. /\ Chunks'[r] = IF r = batch'.partial THEN Chunks[r] \cup {cur} ELSE Chunks[r]
        /\ cur \notin Chunks[r] /\ Chunks[r] \in SUBSET Slot
    BY <1>1, <2>1
  <2>3. IsFiniteSet(Chunks[r]) BY <2>2, SlotsFinite
  <2>4. Cardinality(Chunks[r]) \in Nat /\ Cardinality(Chunks[r] \cup {cur}) = Cardinality(Chunks[r]) + 1
    BY <2>2, <2>3, FS_AddElement, FS_CardinalityType
  <2>5. isBeingChunked[r] = Cardinality(Chunks[r]) BY <1>3 DEF Counted
  <2>6. QED BY <1>4, <2>2, <2>4, <2>5
<1>7. LenAgrees'
  <2>1. Ahead = {} /\ Ahead' = {} BY <1>1 DEF Ahead
  <2>2. QED BY <1>3, <2>1 DEF LenAgrees, Launches, Placed
<1>8. QED BY <1>5, <1>6, <1>7

\* A launch keeps the invariant.
LEMMA ControlLaunch ==
  ASSUME ControlType, ControlType', ControlInv, Launches
  PROVE  ControlInv'
<1>1. /\ cur \in Slot /\ Joined = {cur} /\ Joined' = {} /\ Awaited = Slot \ {cur} /\ Awaited' = Slot
      /\ Age'[cur] = 0 /\ \A s \in Slot \ {cur} : Age'[s] = Age[s] + 1 /\ Age[s] \in Nat
      /\ Launched'[cur] = batch' /\ Chain' = batch'.partial
      /\ \A s \in Slot \ {cur} : Launched'[s] = Launched[s]
      /\ Running'[cur] = ToSet(runningBatch'[cur]) /\ Fresh'[cur] = Prefilled(batch')
      /\ InSlot'[cur] = Left(runningBatch'[cur], batch') /\ InSlot[cur] = Running[cur]
      /\ \A s \in Slot \ {cur} : /\ Running'[s] = Running[s] /\ Fresh'[s] = Fresh[s]
                                 /\ InSlot'[s] = InSlot[s]
  BY LaunchViews
<1>2. /\ BatchShape /\ ChunkHeld /\ Exclusive /\ Covered /\ Unended /\ ChunksBefore
  BY DEF ControlInv, Launches, Placed, Turn
<1>3. NoReq \notin Req /\ InSlot \in [Slot -> SUBSET Req] /\ Waiting \subseteq Req /\ Chain \in Maybe
  BY Views, ReqAssumption
<1>4. BatchShape' BY <1>1, <1>2 DEF BatchShape, Launches, Placed
<1>5. ChunkHeld' BY <1>1, <1>2 DEF ChunkHeld, Launches, Placed
<1>6. Admitted' BY DEF Admitted, Launches, Placed
<1>7. Exclusive'
  <2>1. \A s \in Slot \ {cur} : (Waiting \cup Running[cur] \cup {Chain, NoReq}) \cap InSlot[s] = {}
    BY <1>1, <1>2, <1>3 DEF Exclusive
  <2>2. \A s \in Slot \ {cur} : (Waiting' \cup InSlot'[cur] \cup {Chain'}) \cap InSlot'[s] = {}
    BY <1>1, <2>1 DEF Launches, Placed
  <2>3. Waiting' \cap InSlot'[cur] = {} /\ Chain' \notin Waiting' \cup InSlot'[cur]
    BY <1>1 DEF Launches, Placed
  <2>4. \A s \in Slot : IsInjective(runningBatch'[s]) /\ Running'[s] \cap Fresh'[s] = {}
    BY <1>1, <1>2 DEF Exclusive, Launches, Placed
  <2>5. IsInjective(waitingQueue') BY DEF Launches, Placed
  <2>6. \A s, t \in Slot : s # t => InSlot'[s] \cap InSlot'[t] = {}
    BY <1>1, <1>2, <2>2 DEF Exclusive
  <2>7. QED BY <2>2, <2>3, <2>4, <2>5, <2>6 DEF Exclusive
<1>8. Covered'
  <2>1. UNCHANGED <<arrived, removed, finished>> BY DEF Launches, Placed
  <2>2. Waiting \cup Running[cur] \cup {Chain} \subseteq (arrived \ removed) \cup {NoReq}
    BY <1>1, <1>2 DEF Covered
  <2>3. Waiting' \cup InSlot'[cur] \cup {Chain'} \subseteq (arrived \ removed) \cup {NoReq}
    BY <1>1, <2>2 DEF Launches, Placed
  <2>4. Waiting' \subseteq Req /\ InSlot'[cur] \subseteq Req
    <3>1. \A q \in Seq(Req) : ToSet(q) \subseteq Req BY DEF ToSet
    <3>2. QED BY <1>1, <3>1 DEF ControlType, Waiting, Left, Prefilled, Whole, Batch
  <2>5. \A r \in (Waiting \cup Running[cur] \cup {Chain}) \ finished :
          r \in Waiting' \/ r \in InSlot'[cur] \/ r = Chain' \/ r = NoReq
    BY <1>1 DEF Launches, Placed
  <2>6. ASSUME NEW r \in arrived \ (finished \cup removed)
        PROVE  r \in Waiting' \/ r = Chain' \/ \E s \in Slot : r \in InSlot'[s]
    <3>1. r # NoReq BY <1>3 DEF ControlType
    <3>2. CASE r \in Waiting \cup Running[cur] \cup {Chain} BY <1>1, <2>5, <3>1, <3>2
    <3>3. CASE r \notin Waiting \cup Running[cur] \cup {Chain}
      <4>1. PICK s \in Slot : r \in InSlot[s] BY <1>2, <3>3 DEF Covered
      <4>2. QED BY <1>1, <3>3, <4>1
    <3>4. QED BY <3>2, <3>3
  <2>7. QED BY <1>1, <1>2, <1>3, <2>1, <2>3, <2>4, <2>6 DEF Covered
<1>9. Unended'
  <2>1. Chain' \notin finished
    <3>1. Chain' = NoReq \/ Chain' \in ToSet(batch'.reqs) BY <1>1 DEF Launches, Placed
    <3>2. QED BY <1>3, <3>1 DEF Launches, Placed, ControlType
  <2>2. QED BY <1>1, <1>2, <2>1 DEF Unended, Launches, Placed
<1>10. ChunksBefore'
  <2> SUFFICES ASSUME NEW s \in Slot, NEW t \in Slot, Launched'[t].partial \in InSlot'[s]
               PROVE  Age'[t] > Age'[s]
    BY DEF ChunksBefore
  <2>1. t # cur
    <3>1. Chain' \notin InSlot'[s] BY <1>7 DEF Exclusive
    <3>2. QED BY <1>1, <3>1
  <2>2. CASE s = cur BY <1>1, <2>1, <2>2
  <2>3. CASE s # cur
    <3>1. Age[t] > Age[s] BY <1>1, <1>2, <2>1, <2>3 DEF ChunksBefore
    <3>2. QED BY <1>1, <2>1, <2>3, <3>1
  <2>4. QED BY <2>2, <2>3
<1>11. QED BY <1>4, <1>5, <1>6, <1>7, <1>8, <1>9, <1>10, LaunchCounters DEF ControlInv

\* A prefill batch takes its requests from the queue and the chain, and mixes in all
\* running requests or none.
PrefillDealt ==
  LET run == adder.canRun
      mixed == MixedIn
      b == batch'
  IN
  /\ phase \in {"admit", "launch"} /\ cur \in Slot
  /\ run \in Seq(Req) /\ mixed \in Seq(Req) /\ runningBatch[cur] \in Seq(Req)
  /\ b.mode = "extend" /\ b.reqs = run \o mixed /\ b.partial = Partial
  /\ IsInjective(mixed) /\ ToSet(mixed) = IF MixWanted THEN Running[cur] \ finished ELSE {}
  /\ IsInjective(run) /\ ToSet(run) \subseteq Waiting \cup {Chain} /\ ToSet(run) \subseteq Req
  /\ Chain # NoReq => Chain \in ToSet(run)
  /\ Partial # NoReq => Partial \in ToSet(run)
  /\ Waiting' = Waiting \ ToSet(run) /\ IsInjective(waitingQueue')
  /\ Running[cur] = ToSet(runningBatch[cur]) /\ IsInjective(runningBatch[cur])
  /\ (Waiting \cup {Chain}) \cap Running[cur] = {} /\ Chain \notin Waiting
  /\ Running[cur] \subseteq Req /\ Waiting \subseteq Req
  /\ Waiting \cap finished = {} /\ Chain \notin finished
  /\ ToSet(b.reqs) = ToSet(run) \cup ToSet(mixed) /\ IsInjective(b.reqs)
  /\ ToSet(runningBatch'[cur]) = IF MixWanted THEN {} ELSE Running[cur]
  /\ IsInjective(runningBatch'[cur])
  /\ \A s \in Slot \ {cur} : runningBatch'[s] = runningBatch[s]
  /\ beingChunkedReq'[cur] = Partial
  /\ \A s \in Slot \ {cur} : beingChunkedReq'[s] = beingChunkedReq[s]
  /\ \A r : Contains(run, r) <=> r \in ToSet(run)

LEMMA PrefillDeals ==
  ASSUME ControlType, ControlType', ControlInv, LaunchPrefill
  PROVE  PrefillDealt
<1> DEFINE run == adder.canRun
           mixed == MixedIn
           b == batch'
<1>1. /\ phase \in {"admit", "launch"} /\ phase' = "process" /\ cur' = cur /\ cur \in Slot
      /\ UNCHANGED <<lastBatch, arrived, removed, outputs, outputIdsLen, finished>>
      /\ waitingQueue' = Without(waitingQueue, ToSet(run))
      /\ ppIdx' = [r \in Req |-> IF Contains(run, r) THEN cur ELSE ppIdx[r]]
      /\ beingChunkedReq' = [beingChunkedReq EXCEPT ![cur] = Partial]
      /\ isBeingChunked' = [r \in Req |-> isBeingChunked[r] + (IF r = Partial THEN 1 ELSE 0)]
      /\ runningBatch' = IF MixWanted THEN [runningBatch EXCEPT ![cur] = <<>>] ELSE runningBatch
      /\ b = [mode |-> "extend", reqs |-> run \o mixed, decoding |-> ToSet(mixed),
              partial |-> Partial]
  BY DEF LaunchPrefill, AdmittedAll, inputs, ControlType
<1>2. /\ waitingQueue \in Seq(Req) /\ runningBatch \in [Slot -> Seq(Req)] /\ run \in Seq(Req)
      /\ beingChunkedReq \in [Slot -> Maybe] /\ finished \subseteq Req /\ NoReq \notin Req
      /\ runningBatch[cur] \in Seq(Req) /\ batch' \in Batch
  BY <1>1, ReqAssumption DEF ControlType, IsAdder
<1>3. /\ ChunkHeld /\ Admitted /\ Exclusive /\ Unended
      /\ Joined = {cur}
  BY <1>1 DEF ControlInv, Joined, Turn
<1>4. /\ b.mode = "extend" /\ b.reqs = run \o mixed /\ b.partial = Partial BY <1>1
<1> HIDE DEF b
<1>5. /\ mixed \in Seq(Req) /\ IsInjective(mixed)
      /\ ToSet(mixed) = IF MixWanted THEN Running[cur] \ finished ELSE {}
  <2>1. /\ Unfinished(runningBatch[cur]) \in Seq(Req) /\ IsInjective(Unfinished(runningBatch[cur]))
        /\ ToSet(Unfinished(runningBatch[cur])) = ToSet(runningBatch[cur]) \ finished
    BY <1>1, <1>2, <1>3, WithoutElements DEF Unfinished, Exclusive
  <2>2. <<>> \in Seq(Req) /\ IsInjective(<<>>) /\ ToSet(<<>>) = {} BY DEF IsInjective, ToSet
  <2>3. QED BY <1>1, <2>1, <2>2 DEF MixedIn, Running
<1> HIDE DEF mixed
<1>6. /\ IsInjective(run) /\ ToSet(run) \subseteq Waiting \cup {Chain} /\ ToSet(run) \subseteq Req
      /\ Chain # NoReq => Chain \in ToSet(run)
      /\ Partial # NoReq => Partial \in ToSet(run)
  <2>1. /\ IsInjective(run)
        /\ \A r \in ToSet(run) :
             r = Chain \/ \E i \in DOMAIN waitingQueue : i < adder.next /\ waitingQueue[i] = r
        /\ Chain # NoReq => Chain \in ToSet(run)
        /\ adder.newChunked # NoReq => adder.newChunked \in ToSet(run)
    BY <1>1, <1>3 DEF Admitted
  <2>2. beingChunkedReq[cur] \in {NoReq, Chain} BY <1>1, <1>3 DEF ChunkHeld
  <2>3. Partial # NoReq => Partial \in ToSet(run) BY <2>1, <2>2 DEF Partial
  <2>4. ToSet(run) \subseteq Waiting \cup {Chain} BY <2>1 DEF Waiting, ToSet
  <2>5. ToSet(run) \subseteq Req BY <1>2 DEF ToSet
  <2>6. QED BY <2>1, <2>3, <2>4, <2>5
<1>7. \A r : Contains(run, r) <=> r \in ToSet(run) BY <1>2 DEF Contains, ToSet
<1> HIDE DEF run
<1>8. /\ Waiting' = Waiting \ ToSet(run) /\ IsInjective(waitingQueue')
  BY <1>1, <1>2, <1>3, WithoutElements DEF Waiting, Exclusive
<1>9. /\ Running[cur] = ToSet(runningBatch[cur]) /\ IsInjective(runningBatch[cur])
      /\ (Waiting \cup {Chain}) \cap Running[cur] = {} /\ Chain \notin Waiting
      /\ Running[cur] \subseteq Req /\ Waiting \subseteq Req
      /\ Waiting \cap finished = {} /\ Chain \notin finished
  <2>1. Running[cur] \subseteq InSlot[cur] BY <1>1 DEF InSlot
  <2>2. Running[cur] = ToSet(runningBatch[cur]) BY <1>1 DEF Running
  <2>3. Running[cur] \subseteq Req /\ Waiting \subseteq Req BY <1>1, Views
  <2>4. QED BY <1>1, <1>3, <2>1, <2>2, <2>3 DEF Exclusive, Unended
<1>10. /\ ToSet(b.reqs) = ToSet(run) \cup ToSet(mixed) /\ IsInjective(b.reqs)
  <2>1. ToSet(run) \cap ToSet(mixed) = {} BY <1>5, <1>6, <1>9
  <2>2. QED BY <1>2, <1>4, <1>5, <1>6, <2>1, JoinedElements
<1>11. /\ ToSet(runningBatch'[cur]) = IF MixWanted THEN {} ELSE Running[cur]
       /\ IsInjective(runningBatch'[cur])
       /\ \A s \in Slot \ {cur} : runningBatch'[s] = runningBatch[s]
  <2>1. ToSet(<<>>) = {} /\ IsInjective(<<>>) BY DEF ToSet, IsInjective
  <2>2. QED BY <1>1, <1>2, <1>9, <2>1
<1>12. beingChunkedReq'[cur] = Partial /\ \A s \in Slot \ {cur} : beingChunkedReq'[s] = beingChunkedReq[s]
  BY <1>1, <1>2
<1>13. QED BY <1>1, <1>2, <1>4, <1>5, <1>6, <1>7, <1>8, <1>9, <1>10, <1>11, <1>12
           DEF PrefillDealt, run, mixed, b

LEMMA PrefillLaunches ==
  ASSUME ControlType, ControlType', ControlInv, LaunchPrefill
  PROVE  Launches
<1> DEFINE run == adder.canRun
           mixed == MixedIn
           b == batch'
<1>1. /\ phase' = "process" /\ cur' = cur
      /\ UNCHANGED <<lastBatch, arrived, removed, outputs, outputIdsLen, finished>>
      /\ ppIdx' = [r \in Req |-> IF Contains(run, r) THEN cur ELSE ppIdx[r]]
      /\ isBeingChunked' = [r \in Req |-> isBeingChunked[r] + (IF r = Partial THEN 1 ELSE 0)]
  BY DEF LaunchPrefill, inputs
<1>2. PrefillDealt /\ NoReq \notin Req BY PrefillDeals, ReqAssumption
<1>3. /\ phase \in {"admit", "launch"} /\ cur \in Slot
      /\ b.mode = "extend" /\ b.partial = Partial
  BY <1>2 DEF PrefillDealt
<1>4. /\ ToSet(mixed) = IF MixWanted THEN Running[cur] \ finished ELSE {}
      /\ ToSet(run) \subseteq Waiting \cup {Chain} /\ ToSet(run) \subseteq Req
      /\ Chain # NoReq => Chain \in ToSet(run)
      /\ Partial # NoReq => Partial \in ToSet(run)
      /\ Waiting' = Waiting \ ToSet(run) /\ IsInjective(waitingQueue')
  BY <1>2 DEF PrefillDealt
<1>5. /\ (Waiting \cup {Chain}) \cap Running[cur] = {} /\ Chain \notin Waiting
      /\ Running[cur] \subseteq Req /\ Waiting \subseteq Req
      /\ Waiting \cap finished = {} /\ Chain \notin finished
  BY <1>2 DEF PrefillDealt
<1>6. /\ ToSet(b.reqs) = ToSet(run) \cup ToSet(mixed) /\ IsInjective(b.reqs)
      /\ ToSet(runningBatch'[cur]) = IF MixWanted THEN {} ELSE Running[cur]
      /\ IsInjective(runningBatch'[cur])
  BY <1>2 DEF PrefillDealt
<1>7. /\ \A s \in Slot \ {cur} : /\ runningBatch'[s] = runningBatch[s]
                                 /\ beingChunkedReq'[s] = beingChunkedReq[s]
      /\ beingChunkedReq'[cur] = Partial
      /\ \A r : Contains(run, r) <=> r \in ToSet(run)
  BY <1>2 DEF PrefillDealt
<1> HIDE DEF run, mixed, b
<1>8. /\ Prefilled(b) = (ToSet(run) \cup ToSet(mixed)) \ {Partial}
      /\ Left(runningBatch'[cur], b) = ToSet(runningBatch'[cur]) \cup Prefilled(b)
  BY <1>3, <1>6 DEF Prefilled, Whole, Left
<1>9. /\ ToSet(runningBatch'[cur]) \cap Prefilled(b) = {}
      /\ Waiting' \cap Left(runningBatch'[cur], b) = {}
      /\ Partial \notin Waiting' \cup Left(runningBatch'[cur], b)
  <2>1. ToSet(run) \cap Running[cur] = {} BY <1>4, <1>5
  <2>2. Partial = NoReq \/ Partial \in ToSet(run) BY <1>4
  <2>3. QED BY <1>2, <1>4, <1>5, <1>6, <1>8, <2>1, <2>2
<1>10. Waiting' \cup Left(runningBatch'[cur], b) \cup {Partial}
         \subseteq Waiting \cup Running[cur] \cup {Chain, NoReq}
  BY <1>4, <1>6, <1>8
<1>11. (Waiting \cup Running[cur] \cup {Chain}) \ finished
         \subseteq Waiting' \cup Left(runningBatch'[cur], b) \cup {Partial, NoReq}
  BY <1>4, <1>6, <1>8
<1>12. Waiting' \cap finished = {} /\ ToSet(b.reqs) \cap finished = {} /\ Chain \notin Waiting'
  BY <1>4, <1>5, <1>6
<1>13. \A r \in Req : /\ isBeingChunked'[r] = isBeingChunked[r] + (IF r = Partial THEN 1 ELSE 0)
                      /\ ppIdx'[r] \in {ppIdx[r], cur}
                      /\ r \in {Chain, Partial} => ppIdx'[r] = cur
  <2>1. \A r \in Req : r \in {Chain, Partial} => r \in ToSet(run) BY <1>2, <1>4
  <2>2. QED BY <1>1, <1>7, <2>1
<1>14. phase \in Turn BY <1>3 DEF Turn
<1>15. Partial # NoReq => Partial \in ToSet(b.reqs) BY <1>4, <1>6
<1>16. QED BY <1>1, <1>3, <1>4, <1>6, <1>7, <1>9, <1>10, <1>11, <1>12, <1>13, <1>14, <1>15
           DEF Launches, Placed, b

\* What the slot and the queue are when it decodes.
LEMMA BeforeDecode ==
  ASSUME ControlType, ControlInv, phase = "decode"
  PROVE  LET reqs == Unfinished(runningBatch[cur]) IN
         /\ cur \in Slot /\ Chain = NoReq /\ beingChunkedReq[cur] = NoReq /\ NoReq \notin Req
         /\ reqs \in Seq(Req) /\ IsInjective(reqs) /\ ToSet(reqs) = Running[cur] \ finished
         /\ Running[cur] \subseteq Req /\ Waiting \subseteq Req /\ Waiting \cap Running[cur] = {}
         /\ Waiting \cap finished = {} /\ waitingQueue \in Seq(Req) /\ IsInjective(waitingQueue)
<1>1. /\ cur \in Slot /\ Chain = NoReq /\ beingChunkedReq[cur] = NoReq /\ NoReq \notin Req
      /\ Exclusive /\ Unended
  BY ReqAssumption DEF ControlInv, ChunkHeld, ControlType
<1>2. runningBatch[cur] \in Seq(Req) /\ waitingQueue \in Seq(Req) BY <1>1 DEF ControlType
<1>3. Running[cur] = ToSet(runningBatch[cur]) /\ Running[cur] \subseteq InSlot[cur]
  BY <1>1 DEF Running, InSlot
<1>4. Running[cur] \subseteq Req /\ Waiting \subseteq Req BY <1>1, Views
<1>5. /\ Unfinished(runningBatch[cur]) \in Seq(Req) /\ IsInjective(Unfinished(runningBatch[cur]))
      /\ ToSet(Unfinished(runningBatch[cur])) = ToSet(runningBatch[cur]) \ finished
  BY <1>1, <1>2, WithoutElements DEF Unfinished, Exclusive
<1>6. QED BY <1>1, <1>2, <1>3, <1>4, <1>5 DEF Exclusive, Unended

\* A decode batch keeps the running requests that are neither finished nor retracted.
DecodeDealt ==
  LET reqs == Unfinished(runningBatch[cur])
      out  == Retracted(reqs)
      kept == Without(reqs, ToSet(out))
      b == batch'
  IN
  /\ phase = "decode" /\ cur \in Slot /\ Chain = NoReq /\ beingChunkedReq[cur] = NoReq
  /\ NoReq \notin Req
  /\ reqs \in Seq(Req) /\ IsInjective(reqs) /\ ToSet(reqs) = Running[cur] \ finished
  /\ Running[cur] \subseteq Req /\ Waiting \subseteq Req /\ Waiting \cap Running[cur] = {}
  /\ Waiting \cap finished = {}
  /\ out \in Seq(Req) /\ ToSet(out) \subseteq ToSet(reqs) /\ IsInjective(out)
  /\ kept \in Seq(Req) /\ ToSet(kept) = ToSet(reqs) \ ToSet(out) /\ IsInjective(kept)
  /\ b.mode = "decode" /\ b.reqs = kept /\ b.partial = NoReq
  /\ Waiting' = Waiting \cup ToSet(out) /\ IsInjective(waitingQueue')
  /\ runningBatch'[cur] = kept /\ \A s \in Slot \ {cur} : runningBatch'[s] = runningBatch[s]

LEMMA DecodeDeals ==
  ASSUME ControlType, ControlType', ControlInv, DecodeRunning
  PROVE  DecodeDealt
<1> DEFINE reqs == Unfinished(runningBatch[cur])
           out  == Retracted(reqs)
           kept == Without(reqs, ToSet(out))
           b == batch'
<1>1. /\ phase = "decode" /\ phase' = "process" /\ cur' = cur /\ reqs # <<>>
      /\ UNCHANGED <<lastBatch, arrived, removed, outputs, outputIdsLen, finished,
                     beingChunkedReq, isBeingChunked, ppIdx>>
      /\ waitingQueue' = waitingQueue \o out
      /\ runningBatch' = [runningBatch EXCEPT ![cur] = kept]
      /\ b = [NoBatch EXCEPT !.mode = "decode", !.reqs = kept]
  BY DEF DecodeRunning, inputs
<1>2. /\ cur \in Slot /\ Chain = NoReq /\ beingChunkedReq[cur] = NoReq /\ NoReq \notin Req
      /\ reqs \in Seq(Req) /\ IsInjective(reqs) /\ ToSet(reqs) = Running[cur] \ finished
      /\ Running[cur] \subseteq Req /\ Waiting \subseteq Req /\ Waiting \cap Running[cur] = {}
      /\ Waiting \cap finished = {} /\ waitingQueue \in Seq(Req) /\ IsInjective(waitingQueue)
  BY <1>1, BeforeDecode
<1>3. /\ out \in Seq(Req) /\ ToSet(out) \subseteq ToSet(reqs) /\ IsInjective(out)
  BY <1>1, <1>2, RetractedElements DEF ControlType
<1>4. /\ kept \in Seq(Req) /\ ToSet(kept) = ToSet(reqs) \ ToSet(out) /\ IsInjective(kept)
  BY <1>2, WithoutElements
<1>5. /\ b.mode = "decode" /\ b.reqs = kept /\ b.partial = NoReq BY <1>1 DEF NoBatch
<1> HIDE DEF reqs, out, kept, b
<1>6. Waiting' = Waiting \cup ToSet(out) /\ IsInjective(waitingQueue')
  <2>1. ToSet(waitingQueue) \cap ToSet(out) = {} BY <1>2, <1>3 DEF Waiting
  <2>2. QED BY <1>1, <1>2, <1>3, <2>1, JoinedElements DEF Waiting
<1>7. runningBatch'[cur] = kept /\ \A s \in Slot \ {cur} : runningBatch'[s] = runningBatch[s]
  BY <1>1, <1>2 DEF ControlType
<1>8. QED BY <1>1, <1>2, <1>3, <1>4, <1>5, <1>6, <1>7 DEF DecodeDealt, reqs, out, kept, b

LEMMA DecodeLaunches ==
  ASSUME ControlType, ControlType', ControlInv, DecodeRunning
  PROVE  Launches
<1> DEFINE reqs == Unfinished(runningBatch[cur])
           out  == Retracted(reqs)
           kept == Without(reqs, ToSet(out))
           b == batch'
<1>1. /\ phase' = "process" /\ cur' = cur
      /\ UNCHANGED <<lastBatch, arrived, removed, outputs, outputIdsLen, finished,
                     beingChunkedReq, isBeingChunked, ppIdx>>
  BY DEF DecodeRunning, inputs
<1>2. DecodeDealt BY DecodeDeals
<1>3. /\ phase = "decode" /\ cur \in Slot /\ Chain = NoReq /\ beingChunkedReq[cur] = NoReq
      /\ NoReq \notin Req /\ ToSet(reqs) = Running[cur] \ finished
      /\ Running[cur] \subseteq Req /\ Waiting \subseteq Req /\ Waiting \cap Running[cur] = {}
      /\ Waiting \cap finished = {} /\ ToSet(out) \subseteq ToSet(reqs)
  BY <1>2 DEF DecodeDealt
<1>4. /\ ToSet(kept) = ToSet(reqs) \ ToSet(out) /\ IsInjective(kept)
      /\ b.mode = "decode" /\ b.reqs = kept /\ b.partial = NoReq
      /\ Waiting' = Waiting \cup ToSet(out) /\ IsInjective(waitingQueue')
      /\ runningBatch'[cur] = kept /\ \A s \in Slot \ {cur} : runningBatch'[s] = runningBatch[s]
  BY <1>2 DEF DecodeDealt
<1> HIDE DEF reqs, out, kept, b
<1>5. Prefilled(b) = {} /\ Left(runningBatch'[cur], b) = ToSet(kept)
  BY <1>4 DEF Prefilled, Left
<1>6. /\ Waiting' \cap ToSet(kept) = {} /\ NoReq \notin Waiting' \cup ToSet(kept)
      /\ Waiting' \cup ToSet(kept) \cup {NoReq} \subseteq Waiting \cup Running[cur] \cup {NoReq}
      /\ (Waiting \cup Running[cur] \cup {NoReq}) \ finished
           \subseteq Waiting' \cup ToSet(kept) \cup {NoReq}
      /\ Waiting' \cap finished = {} /\ ToSet(kept) \cap finished = {}
  BY <1>3, <1>4
<1>7. \A r \in Req : /\ isBeingChunked'[r] = isBeingChunked[r] + (IF r = NoReq THEN 1 ELSE 0)
                     /\ ppIdx'[r] \in {ppIdx[r], cur}
                     /\ r \in {NoReq} => ppIdx'[r] = cur
  <2>1. \A r \in Req : isBeingChunked[r] \in Int BY DEF ControlType
  <2>2. QED BY <1>1, <1>3, <2>1
<1>8. phase \in Turn BY <1>3 DEF Turn
<1>9. /\ Waiting' \cap Left(runningBatch'[cur], b) = {}
      /\ b.partial \notin Waiting' \cup Left(runningBatch'[cur], b)
      /\ Waiting' \cup Left(runningBatch'[cur], b) \cup {b.partial}
           \subseteq Waiting \cup Running[cur] \cup {Chain, NoReq}
      /\ (Waiting \cup Running[cur] \cup {Chain}) \ finished
           \subseteq Waiting' \cup Left(runningBatch'[cur], b) \cup {b.partial, NoReq}
      /\ ToSet(b.reqs) \cap finished = {} /\ ToSet(runningBatch'[cur]) \cap Prefilled(b) = {}
  BY <1>3, <1>4, <1>5, <1>6
<1>10. \A r \in Req : /\ isBeingChunked'[r] = isBeingChunked[r] + (IF r = b.partial THEN 1 ELSE 0)
                      /\ ppIdx'[r] \in {ppIdx[r], cur}
                      /\ r \in {Chain, b.partial} => ppIdx'[r] = cur
  BY <1>3, <1>4, <1>7
<1>11. /\ \A s \in Slot \ {cur} : /\ runningBatch'[s] = runningBatch[s]
                                  /\ beingChunkedReq'[s] = beingChunkedReq[s]
       /\ beingChunkedReq'[cur] = b.partial /\ IsInjective(runningBatch'[cur]) /\ IsInjective(b.reqs)
       /\ b.mode = "decode" => ToSet(b.reqs) \subseteq ToSet(runningBatch'[cur])
       /\ Chain \notin Waiting'
  BY <1>1, <1>3, <1>4, <1>6
<1>12. /\ phase \in Turn /\ cur \in Slot /\ Waiting' \cap finished = {} /\ IsInjective(waitingQueue')
       /\ b.mode = "decode" /\ b.partial = NoReq
  BY <1>3, <1>4, <1>6, <1>8
<1>13. /\ phase \in Turn /\ phase' = "process" /\ cur' = cur
       /\ UNCHANGED <<lastBatch, arrived, removed, outputs, outputIdsLen, finished>>
  BY <1>1, <1>12
<1>14. /\ \A s \in Slot \ {cur} : /\ runningBatch'[s] = runningBatch[s]
                                  /\ beingChunkedReq'[s] = beingChunkedReq[s]
       /\ beingChunkedReq'[cur] = batch'.partial
       /\ IsInjective(waitingQueue') /\ IsInjective(runningBatch'[cur]) /\ IsInjective(batch'.reqs)
       /\ batch'.mode = "none" => batch'.reqs = <<>>
       /\ batch'.partial # NoReq => batch'.mode = "extend" /\ batch'.partial \in ToSet(batch'.reqs)
       /\ batch'.mode = "decode" => ToSet(batch'.reqs) \subseteq ToSet(runningBatch'[cur])
  BY <1>11, <1>12 DEF b
<1>15. Placed BY <1>9, <1>11, <1>12 DEF Placed, b
<1>18. \A r \in Req : /\ isBeingChunked'[r] = isBeingChunked[r] + (IF r = batch'.partial THEN 1 ELSE 0)
                      /\ ppIdx'[r] \in {ppIdx[r], cur}
                      /\ r \in {Chain, batch'.partial} => ppIdx'[r] = cur
  BY ONLY <1>10 DEF b
<1>19. QED BY ONLY <1>13, <1>14, <1>15, <1>18 DEF Launches

\* Without a batch only finished requests leave.
LEMMA IdleLaunches ==
  ASSUME ControlType, ControlType', ControlInv, NothingToRun
  PROVE  Launches
<1> DEFINE reqs == Unfinished(runningBatch[cur])
           b == batch'
<1>1. /\ phase = "decode" /\ phase' = "process" /\ cur' = cur /\ reqs = <<>>
      /\ UNCHANGED <<lastBatch, arrived, removed, outputs, outputIdsLen, finished, waitingQueue,
                     beingChunkedReq, isBeingChunked, ppIdx>>
      /\ runningBatch' = [runningBatch EXCEPT ![cur] = <<>>]
      /\ b = NoBatch
  BY DEF NothingToRun, inputs, requests
<1>2. /\ cur \in Slot /\ Chain = NoReq /\ beingChunkedReq[cur] = NoReq /\ NoReq \notin Req
      /\ ToSet(reqs) = Running[cur] \ finished
      /\ Running[cur] \subseteq Req /\ Waiting \subseteq Req /\ Waiting \cap Running[cur] = {}
      /\ Waiting \cap finished = {} /\ waitingQueue \in Seq(Req) /\ IsInjective(waitingQueue)
  BY <1>1, BeforeDecode
<1>3. ToSet(<<>>) = {} /\ IsInjective(<<>>) BY DEF ToSet, IsInjective
<1>4. /\ b.mode = "none" /\ b.reqs = <<>> /\ b.partial = NoReq BY <1>1 DEF NoBatch
<1> HIDE DEF b, reqs
<1>5. runningBatch'[cur] = <<>> /\ \A s \in Slot \ {cur} : runningBatch'[s] = runningBatch[s]
  BY <1>1, <1>2 DEF ControlType
<1>6. Prefilled(b) = {} /\ Left(runningBatch'[cur], b) = {} /\ Waiting' = Waiting
  BY <1>1, <1>3, <1>4, <1>5 DEF Prefilled, Left, Waiting
<1>7. Running[cur] \subseteq finished BY <1>1, <1>2, <1>3
<1>8. \A r \in Req : /\ isBeingChunked'[r] = isBeingChunked[r] + (IF r = NoReq THEN 1 ELSE 0)
                     /\ ppIdx'[r] \in {ppIdx[r], cur}
                     /\ r \in {NoReq} => ppIdx'[r] = cur
  <2>1. \A r \in Req : isBeingChunked[r] \in Int BY DEF ControlType
  <2>2. QED BY <1>1, <1>2, <2>1
<1>9. phase \in Turn BY <1>1 DEF Turn
<1>10. QED BY <1>1, <1>2, <1>3, <1>4, <1>5, <1>6, <1>7, <1>8, <1>9 DEF Launches, Placed, b

-----------------------------------------------------------------------------
\* The slot that has the next turn, whose result is applied now.
NextTurn == IF cur = P - 1 THEN 0 ELSE cur + 1

\* A token is sampled for the requests of a batch but the one whose chunk it computed: a
\* request that has its last chunk in the batch has no older chunk that is still awaited.
LEMMA SampledWhole ==
  ASSUME ControlType, ControlInv, phase = "process"
  PROVE  /\ NextTurn \in Slot /\ ResultOf = Launched[NextTurn] /\ Age[NextTurn] = P - 1
         /\ Awaited = Slot /\ \A s \in Slot : Whole(Launched[s]) \subseteq InSlot[s]
         /\ Sampled(Launched[NextTurn]) = Whole(Launched[NextTurn])
<1> DEFINE o == NextTurn
           b == Launched[o]
<1>1. P \in Nat \ {0} /\ cur \in 0 .. P - 1 /\ Slot = 0 .. P - 1
  BY PAssumption DEF ControlType, Slot
<1>2. o \in Slot /\ (o = cur <=> P = 1) BY <1>1 DEF NextTurn
<1>3. ResultOf = b BY <1>2, ResultIsBatch DEF Launched, NextTurn
<1>4. Age[o] = P - 1 /\ Age \in [Slot -> 0 .. P - 1] BY <1>2, Ages DEF NextTurn
<1>5. Awaited = Slot /\ Joined = {} BY AwaitedSlots DEF Joined, Turn
<1>6. BatchShape /\ ChunksBefore /\ Counted BY DEF ControlInv
<1>7. Launched \in [Slot -> Batch] BY Views
<1>8. /\ \A x \in Batch : /\ ToSet(x.reqs) \subseteq Req /\ NoReq \notin ToSet(x.reqs)
                          /\ x.mode \in {"none", "extend", "decode"}
      /\ ToSet(<<>>) = {}
  BY Views, ReqAssumption DEF Batch, ToSet
<1>9. ASSUME NEW s \in Slot
      PROVE  /\ Whole(Launched[s]) \subseteq InSlot[s]
             /\ Launched[s].mode = "extend" => Fresh[s] = Whole(Launched[s])
  <2>1. Launched[s] \in Batch BY <1>7
  <2>2. CASE Launched[s].mode = "none"
    <3>1. Whole(Launched[s]) = {} BY <1>6, <1>8, <2>2 DEF BatchShape, Whole
    <3>2. QED BY <2>2, <3>1
  <2>3. CASE Launched[s].mode = "decode" BY <1>5, <1>6, <2>3 DEF BatchShape, InSlot, Whole
  <2>4. CASE Launched[s].mode = "extend"
    <3>1. Fresh[s] = Whole(Launched[s]) BY <1>5, <2>4 DEF Fresh
    <3>2. QED BY <3>1 DEF InSlot
  <2>5. QED BY <1>8, <2>1, <2>2, <2>3, <2>4
<1>10. \A r \in Req : /\ isBeingChunked[r] = Cardinality(Chunks[r])
                      /\ Chunks[r] = {s \in Slot : Launched[s].partial = r}
                      /\ IsFiniteSet(Chunks[r]) /\ Cardinality(Chunks[r]) \in Nat
                      /\ Cardinality(Chunks[r]) = 0 <=> Chunks[r] = {}
  <2> TAKE r \in Req
  <2>1. Chunks[r] = {s \in Slot : Launched[s].partial = r} BY <1>5 DEF Chunks
  <2>2. IsFiniteSet(Chunks[r]) BY <2>1, SlotsFinite
  <2>3. QED BY <1>6, <2>1, <2>2, FS_CardinalityType, FS_EmptySet DEF Counted
<1> HIDE DEF o, b
<1>11. b \in Batch BY <1>2, <1>7 DEF b
<1>12. ASSUME NEW r \in ToSet(b.reqs)
       PROVE  (b.mode = "decode" \/ isBeingChunked[r] <= 0) <=> r # b.partial
  <2>1. r \in Req /\ r # NoReq BY <1>8, <1>11
  <2>2. b.mode # "none" BY <1>2, <1>6, <1>8 DEF BatchShape, b
  <2>3. CASE b.mode = "decode"
    <3>1. b.partial = NoReq BY <1>2, <1>6, <2>3 DEF BatchShape, b
    <3>2. QED BY <2>1, <2>3, <3>1
  <2>4. CASE b.mode = "extend"
    <3>1. CASE r = b.partial
      <4>1. o \in Chunks[r] BY <1>2, <1>10, <2>1, <3>1 DEF b
      <4>2. isBeingChunked[r] \in Nat /\ isBeingChunked[r] # 0 BY <1>10, <2>1, <4>1
      <4>3. QED BY <2>4, <3>1, <4>2
    <3>2. CASE r # b.partial
      <4>1. r \in InSlot[o] BY <1>2, <1>9, <3>2 DEF Whole, b
      <4>2. ASSUME NEW t \in Chunks[r] PROVE FALSE
        <5>1. t \in Slot /\ Launched[t].partial = r BY <1>10, <2>1
        <5>2. Age[t] > Age[o] BY <1>2, <1>6, <4>1, <5>1 DEF ChunksBefore
        <5>3. QED BY <1>1, <1>4, <5>1, <5>2
      <4>3. Chunks[r] = {} BY <4>2
      <4>4. isBeingChunked[r] = 0 BY <1>10, <2>1, <4>3
      <4>5. QED BY <3>2, <4>4
    <3>3. QED BY <3>1, <3>2
  <2>5. QED BY <1>8, <1>11, <2>2, <2>3, <2>4
<1>13. Sampled(b) = Whole(b)
  <2>1. Sampled(b) = {r \in ToSet(b.reqs) : b.mode = "decode" \/ isBeingChunked[r] <= 0}
    BY DEF Sampled
  <2>2. Whole(b) = {r \in ToSet(b.reqs) : r # b.partial} BY DEF Whole
  <2>3. \A r : r \in Sampled(b) <=> r \in Whole(b) BY <1>12, <2>1, <2>2
  <2>4. QED BY <2>3
<1>14. QED BY <1>2, <1>3, <1>4, <1>5, <1>9, <1>13 DEF o, b

\* Applying a result, in terms of the batch it is of.
Results(b) ==
  /\ phase = "process" /\ phase' = "recv" /\ cur' = cur
  /\ UNCHANGED <<waitingQueue, runningBatch, beingChunkedReq, outputIdsLen, ppIdx, arrived, removed>>
  /\ lastBatch' = [lastBatch EXCEPT ![cur] = batch]
  /\ finished \subseteq finished' /\ finished' \ finished \subseteq Whole(b)
  /\ \A r \in Req : outputs'[r] = outputs[r] + (IF r \in Whole(b) THEN 1 ELSE 0)
  /\ \A r \in Req : isBeingChunked'[r] = isBeingChunked[r] - (IF r = b.partial THEN 1 ELSE 0)

LEMMA ApplyResults ==
  ASSUME ControlType, ControlInv, ApplyResult
  PROVE  Results(Launched[NextTurn])
<1> DEFINE b == Launched[NextTurn]
<1>1. phase = "process" BY DEF ApplyResult
<1>2. ResultOf = b /\ Sampled(b) = Whole(b) /\ NextTurn \in Slot BY <1>1, SampledWhole
<1>3. b \in Batch /\ ToSet(b.reqs) \subseteq Req /\ BatchShape /\ NoReq \notin Req
  BY <1>1, <1>2, Views, ReqAssumption DEF ControlInv
<1>4. b.partial = NoReq \/ b.partial \in ToSet(b.reqs) BY <1>2, <1>3 DEF BatchShape
<1> HIDE DEF b
<1>5. \A r \in Req : r \in ToSet(b.reqs) \ Whole(b) <=> r = b.partial
  BY <1>3, <1>4 DEF Whole
<1>6. finished \subseteq finished' /\ finished' \ finished \subseteq Whole(b)
  <2>1. PICK certain, stopped :
          /\ certain \subseteq Sampled(ResultOf) /\ stopped \subseteq Sampled(ResultOf)
          /\ finished' = finished \cup (certain \cup stopped)
    BY DEF ApplyResult
  <2>2. QED BY <1>2, <2>1 DEF b
<1>7. \A r \in Req : outputs'[r] = outputs[r] + (IF r \in Whole(b) THEN 1 ELSE 0)
  <2>1. outputs' = [r \in Req |-> outputs[r] + (IF r \in Sampled(ResultOf) THEN 1 ELSE 0)]
    BY DEF ApplyResult
  <2>2. QED BY <1>2, <2>1 DEF b
<1>8. \A r \in Req : isBeingChunked'[r] = isBeingChunked[r] - (IF r = b.partial THEN 1 ELSE 0)
  <2>1. isBeingChunked' = [r \in Req |-> isBeingChunked[r]
          - (IF r \in ToSet(ResultOf.reqs) \ Sampled(ResultOf) THEN 1 ELSE 0)]
    BY DEF ApplyResult
  <2>2. QED BY <1>2, <1>5, <2>1 DEF b
<1>9. QED BY <1>6, <1>7, <1>8 DEF ApplyResult, Results, inputs, b

\* The views after a result was applied.
LEMMA ResultViews ==
  ASSUME ControlType, ControlType', NEW b, Results(b)
  PROVE  /\ Age' = Age /\ Launched' = Launched /\ Joined = {} /\ Joined' = {}
         /\ Awaited' = Slot \ {NextTurn} /\ Chain' = Chain /\ Waiting' = Waiting
         /\ Running' = Running /\ Fresh' = Fresh /\ InSlot' = InSlot
<1>1. /\ phase = "process" /\ phase' = "recv" /\ cur' = cur /\ cur \in Slot
      /\ lastBatch' = [lastBatch EXCEPT ![cur] = batch]
      /\ UNCHANGED <<waitingQueue, runningBatch>> /\ lastBatch \in [Slot -> Batch]
  BY DEF Results, ControlType
<1>2. Joined = {} /\ Joined' = {} BY <1>1 DEF Joined, Turn
<1>3. Newest' = Newest BY <1>1 DEF Newest
<1>4. Age' = Age BY <1>3 DEF Age
<1>5. Launched' = Launched
  <2>1. \A s \in Slot : lastBatch'[s] = IF s = cur THEN batch ELSE lastBatch[s] BY <1>1
  <2>2. QED BY <1>1, <2>1 DEF Launched
<1>6. Chain' = Chain BY <1>3, <1>5 DEF Chain
<1>7. Awaited' = Slot \ {NextTurn}
  <2>1. \A s \in Slot : Age[s] = P - 1 <=> s = NextTurn BY <1>1, Ages DEF NextTurn
  <2>2. Awaited' = {s \in Slot : phase' = "process" \/ Age'[s] # P - 1} BY DEF Awaited
  <2>3. QED BY <1>1, <1>4, <2>1, <2>2
<1>8. Waiting' = Waiting /\ Running' = Running BY <1>1 DEF Waiting, Running
<1>9. Fresh' = Fresh BY <1>2, <1>5 DEF Fresh
<1>10. InSlot' = InSlot BY <1>8, <1>9 DEF InSlot
<1>11. QED BY <1>2, <1>4, <1>5, <1>6, <1>7, <1>8, <1>9, <1>10

\* Applying a result keeps the invariant.
LEMMA ControlResult ==
  ASSUME ControlType, ControlType', ControlInv, ApplyResult
  PROVE  ControlInv'
<1> DEFINE o == NextTurn
           b == Launched[o]
<1>1. /\ phase = "process" /\ phase' = "recv" /\ cur' = cur
      /\ UNCHANGED <<waitingQueue, runningBatch, beingChunkedReq, outputIdsLen, ppIdx, arrived, removed>>
      /\ finished \subseteq finished' /\ finished' \ finished \subseteq Whole(b)
      /\ \A r \in Req : outputs'[r] = outputs[r] + (IF r \in Whole(b) THEN 1 ELSE 0)
      /\ \A r \in Req : isBeingChunked'[r] = isBeingChunked[r] - (IF r = b.partial THEN 1 ELSE 0)
  BY ApplyResults DEF Results
<1>2. /\ Age' = Age /\ Launched' = Launched /\ Joined = {} /\ Joined' = {}
      /\ Awaited' = Slot \ {o} /\ Chain' = Chain /\ Waiting' = Waiting
      /\ Running' = Running /\ Fresh' = Fresh /\ InSlot' = InSlot
  BY ApplyResults, ResultViews
<1>3. /\ BatchShape /\ ChunkHeld /\ Exclusive /\ Covered /\ Unended
      /\ ChunksBefore /\ Owned /\ Counted /\ LenAgrees
  BY <1>1 DEF ControlInv
<1>4. /\ o \in Slot /\ Age[o] = P - 1 /\ Awaited = Slot
      /\ \A s \in Slot : Whole(Launched[s]) \subseteq InSlot[s]
  BY <1>1, SampledWhole
<1>5. /\ Age \in [Slot -> 0 .. P - 1] /\ \A s, t \in Slot : Age[s] = Age[t] => s = t
      /\ Launched \in [Slot -> Batch] /\ NoReq \notin Req /\ InSlot \in [Slot -> SUBSET Req]
  BY Ages, Views, ReqAssumption
<1> HIDE DEF o, b
<1>6. Whole(b) \subseteq InSlot[o] /\ finished' \ finished \subseteq InSlot[o] BY <1>1, <1>4 DEF b
<1>7. BatchShape' BY <1>2, <1>3, <1>1, <1>4 DEF BatchShape
<1>8. ChunkHeld' /\ Admitted' BY <1>1, <1>2, <1>3 DEF ChunkHeld, Admitted
<1>9. Exclusive' BY <1>1, <1>2, <1>3 DEF Exclusive
<1>10. Covered'
  <2>1. finished' \subseteq arrived BY <1>1, <1>3, <1>4, <1>6 DEF Covered
  <2>2. arrived \ (finished' \cup removed) \subseteq arrived \ (finished \cup removed) BY <1>1
  <2>3. QED BY <1>1, <1>2, <1>3, <2>1, <2>2 DEF Covered
<1>11. Unended'
  <2>1. Waiting \cap finished' = {} /\ Chain \notin finished'
    BY <1>3, <1>4, <1>6 DEF Exclusive, Unended
  <2>2. ASSUME NEW s \in Slot, s # o PROVE ToSet(Launched[s].reqs) \cap finished' = {}
    <3>1. SUFFICES ASSUME NEW x \in ToSet(Launched[s].reqs), x \in finished' \ finished
                   PROVE  FALSE
      BY <1>3, <1>4 DEF Unended
    <3>2. x \in InSlot[o] BY <1>6, <3>1
    <3>3. CASE x = Launched[s].partial
      <4>1. Age[s] > Age[o] BY <1>3, <1>4, <3>2, <3>3 DEF ChunksBefore
      <4>2. Age[s] \in 0 .. P - 1 /\ P \in Nat BY <1>5, PAssumption
      <4>3. QED BY <1>4, <4>1, <4>2
    <3>4. CASE x # Launched[s].partial
      <4>1. x \in InSlot[s] BY <1>4, <3>4 DEF Whole
      <4>2. QED BY <1>3, <1>4, <2>2, <3>2, <4>1 DEF Exclusive
    <3>5. QED BY <3>3, <3>4
  <2>3. QED BY <1>2, <2>1, <2>2 DEF Unended
<1>12. ChunksBefore' /\ Owned' BY <1>1, <1>2, <1>3 DEF ChunksBefore, Owned
<1>13. Counted'
  <2> SUFFICES ASSUME NEW r \in Req PROVE isBeingChunked'[r] = Cardinality(Chunks'[r]) BY DEF Counted
  <2>1. /\ Chunks[r] = {s \in Slot : Launched[s].partial = r}
        /\ Chunks'[r] = {s \in Slot \ {o} : Launched[s].partial = r}
    BY <1>2, <1>4 DEF Chunks
  <2>2. /\ Chunks'[r] = IF r = b.partial THEN Chunks[r] \ {o} ELSE Chunks[r]
        /\ r = b.partial => o \in Chunks[r]
    BY <1>4, <2>1 DEF b
  <2>3. IsFiniteSet(Chunks[r]) BY <2>1, SlotsFinite
  <2>4. /\ Cardinality(Chunks[r]) \in Nat
        /\ o \in Chunks[r] => Cardinality(Chunks[r] \ {o}) = Cardinality(Chunks[r]) - 1
    BY <2>3, FS_RemoveElement, FS_CardinalityType
  <2>5. isBeingChunked[r] = Cardinality(Chunks[r]) BY <1>3 DEF Counted
  <2>6. QED BY <1>1, <2>2, <2>4, <2>5
<1>14. LenAgrees'
  <2>1. Ahead = {} BY <1>2, <1>4 DEF Ahead
  <2>2. Ahead' = Req \cap Whole(b) BY <1>2, <1>4 DEF Ahead, b
  <2>3. \A r \in Req : outputs[r] \in Nat /\ outputIdsLen[r] \in Nat BY DEF ControlType
  <2>4. ASSUME NEW r \in Req \ finished'
        PROVE  outputs'[r] = outputIdsLen'[r] + (IF r \in Ahead' THEN 1 ELSE 0)
    BY <1>1, <1>3, <2>1, <2>2, <2>3 DEF LenAgrees
  <2>5. QED BY <2>4 DEF LenAgrees
<1>15. QED BY <1>7, <1>8, <1>9, <1>10, <1>11, <1>12, <1>13, <1>14 DEF ControlInv

-----------------------------------------------------------------------------
LEMMA ControlInit == Init => ControlInv
<1> SUFFICES ASSUME Init PROVE ControlInv OBVIOUS
<1>1. /\ phase = "recv" /\ cur = -1 /\ waitingQueue = <<>> /\ finished = {}
      /\ runningBatch = [s \in Slot |-> <<>>] /\ lastBatch = [s \in Slot |-> NoBatch]
      /\ beingChunkedReq = [s \in Slot |-> NoReq]
      /\ outputs = [r \in Req |-> 0] /\ outputIdsLen = [r \in Req |-> 0]
      /\ isBeingChunked = [r \in Req |-> 0] /\ arrived = {} /\ removed = {}
  BY DEF Init
<1>2. /\ NoBatch.mode = "none" /\ NoBatch.reqs = <<>> /\ NoBatch.partial = NoReq
      /\ ToSet(<<>>) = {} /\ IsInjective(<<>>) /\ NoReq \notin Req
  BY ReqAssumption DEF NoBatch, ToSet, IsInjective
<1>3. ControlType /\ P \in Nat \ {0} BY TypeInit, PAssumption
<1>4. Newest = -1 /\ Joined = {} BY <1>1 DEF Newest, Joined, Turn
<1>5. P - 1 \in Slot BY <1>3 DEF Slot
<1>6. Launched = [s \in Slot |-> NoBatch] BY <1>1 DEF Launched
<1>7. Chain = NoReq BY <1>2, <1>4, <1>5, <1>6 DEF Chain
<1>8. /\ Waiting = {} /\ Running = [s \in Slot |-> {}] BY <1>1, <1>2 DEF Waiting, Running
<1>9. Fresh = [s \in Slot |-> {}] BY <1>2, <1>6 DEF Fresh
<1>10. InSlot = [s \in Slot |-> {}] BY <1>8, <1>9 DEF InSlot
<1>11. \A r \in Req : Chunks[r] = {} BY <1>2, <1>6 DEF Chunks, Awaited
<1>12. Ahead = {} BY <1>2, <1>6 DEF Ahead, Whole
<1>13. BatchShape BY <1>2, <1>6 DEF BatchShape
<1>14. ChunkHeld /\ Admitted BY <1>1, <1>2, <1>6 DEF ChunkHeld, Admitted
<1>15. Exclusive BY <1>1, <1>2, <1>7, <1>8, <1>9, <1>10 DEF Exclusive
<1>16. Covered BY <1>1, <1>7, <1>8, <1>10 DEF Covered
<1>17. Unended BY <1>1, <1>2 DEF Unended
<1>18. ChunksBefore /\ Owned BY <1>2, <1>6, <1>10 DEF ChunksBefore, Owned
<1>19. Counted BY <1>1, <1>11, FS_EmptySet DEF Counted
<1>20. LenAgrees BY <1>1, <1>12 DEF LenAgrees
<1>21. QED BY <1>13, <1>14, <1>15, <1>16, <1>17, <1>18, <1>19, <1>20 DEF ControlInv

\* The invariant is inductive as long as the slots have room.
LEMMA ControlStep ==
  ASSUME ControlType, ControlInv, SlotHasRoom, [Next]_vars
  PROVE  ControlType' /\ ControlInv'
<1>1. ControlType'
  <2>1. phase = "decode" \/ AdmittedAll => IsInjective(runningBatch[cur])
    BY DEF ControlInv, Exclusive, ControlType, AdmittedAll
  <2>2. QED BY <2>1, TypeStep
<1>2. CASE BeginIteration \/ HandleFlush BY <1>1, <1>2, ControlQuiet
<1>3. CASE MergeLastBatch BY <1>1, <1>3, ControlMerge
<1>4. CASE FetchChunked BY <1>1, <1>4, ControlFetch
<1>5. CASE SkipPrefill \/ StartPrefill \/ AdmitOne \/ NothingAdmitted BY <1>1, <1>5, ControlPrefill
<1>6. CASE LaunchPrefill BY <1>1, <1>6, PrefillLaunches, ControlLaunch
<1>7. CASE DecodeRunning BY <1>1, <1>7, DecodeLaunches, ControlLaunch
<1>8. CASE NothingToRun BY <1>1, <1>8, IdleLaunches, ControlLaunch
<1>9. CASE ApplyResult BY <1>1, <1>9, ControlResult
<1>10. CASE ExitOnPrefill \/ ExitOnDecode
  <2>1. phase' = "exited" BY <1>10 DEF ExitOnPrefill, ExitOnDecode
  <2>2. QED BY <1>1, <2>1 DEF ControlInv
<1>11. ASSUME NEW r \in Req, HandleGenerate(r) \/ HandleAbort(r) PROVE ControlInv'
  BY <1>1, <1>11, ControlReceive
<1>12. CASE UNCHANGED vars
  <2>1. UNCHANGED <<phase, cur, waitingQueue, batch, adder, arrived, removed, runningBatch,
                    lastBatch, beingChunkedReq, outputs, outputIdsLen, finished,
                    isBeingChunked, ppIdx>>
    BY <1>12 DEF vars, inputs, slots, requests
  <2>2. /\ Newest' = Newest /\ Age' = Age /\ Launched' = Launched /\ Awaited' = Awaited
        /\ Joined' = Joined /\ Waiting' = Waiting /\ Running' = Running
    BY <2>1 DEF Newest, Age, Launched, Awaited, Joined, Waiting, Running
  <2>3. Fresh' = Fresh /\ Chain' = Chain BY <2>2 DEF Fresh, Chain
  <2>4. InSlot' = InSlot /\ Chunks' = Chunks /\ Ahead' = Ahead
    BY <2>2, <2>3 DEF InSlot, Chunks, Ahead
  <2>5. SUFFICES ASSUME phase # "exited"
                 PROVE  /\ BatchShape' /\ ChunkHeld' /\ Admitted' /\ Exclusive' /\ Covered'
                        /\ Unended' /\ ChunksBefore' /\ Owned' /\ Counted' /\ LenAgrees'
    BY <1>1, <2>1 DEF ControlInv
  <2>6. BatchShape' /\ ChunkHeld' /\ Admitted'
    BY <2>1, <2>2, <2>3, <2>5 DEF ControlInv, BatchShape, ChunkHeld, Admitted
  <2>7. Exclusive' /\ Covered' /\ Unended'
    BY <2>1, <2>2, <2>3, <2>4, <2>5 DEF ControlInv, Exclusive, Covered, Unended
  <2>8. ChunksBefore' /\ Owned' /\ Counted' /\ LenAgrees'
    BY <2>1, <2>2, <2>3, <2>4, <2>5 DEF ControlInv, ChunksBefore, Owned, Counted, LenAgrees
  <2>9. QED BY <2>6, <2>7, <2>8
<1>13. QED BY <1>1, <1>2, <1>3, <1>4, <1>5, <1>6, <1>7, <1>8, <1>9, <1>10, <1>11, <1>12
           DEF Next, Iterate, Receive

\* As long as every slot that takes over a chunked request has room for it, every request
\* is in one place, whatever is chunked, mixed in, retracted or aborted, in however many
\* slots.
THEOREM ControlHolds == SafeSpec /\ []SlotHasRoom => [](ControlType /\ ControlInv)
<1>1. Init => ControlType /\ ControlInv BY TypeInit, ControlInit
<1>2. (ControlType /\ ControlInv) /\ SlotHasRoom /\ [Next]_vars => (ControlType /\ ControlInv)'
  BY ControlStep
<1>3. QED BY <1>1, <1>2, PTL DEF SafeSpec

-----------------------------------------------------------------------------
\* The places OnePlace counts are the queue, the slots and the chain.
LEMMA PlacesAreOne ==
  ASSUME ControlType, ControlInv
  PROVE  OnePlace
<1> SUFFICES ASSUME phase = "recv", NEW r \in arrived \ (finished \cup removed)
             PROVE  LET queued  == {i \in DOMAIN waitingQueue : waitingQueue[i] = r}
                        running == {s \in Slot : \/ Contains(runningBatch[s], r)
                                                 \/ /\ lastBatch[s].mode = "extend"
                                                    /\ Contains(lastBatch[s].reqs, r)
                                                    /\ lastBatch[s].partial # r}
                        chunked == {s \in Slot : lastBatch[s].partial = r /\ s = ppIdx[r]}
                    IN Cardinality(queued) + Cardinality(running) + Cardinality(chunked) = 1
  BY DEF OnePlace
<1> DEFINE queued  == {i \in DOMAIN waitingQueue : waitingQueue[i] = r}
           running == {s \in Slot : \/ Contains(runningBatch[s], r)
                                    \/ /\ lastBatch[s].mode = "extend"
                                       /\ Contains(lastBatch[s].reqs, r)
                                       /\ lastBatch[s].partial # r}
           chunked == {s \in Slot : lastBatch[s].partial = r /\ s = ppIdx[r]}
           head == IF Newest = -1 THEN P - 1 ELSE Newest
<1>1. /\ Exclusive /\ Covered /\ Owned /\ Joined = {} /\ r \in Req /\ NoReq \notin Req
  BY ReqAssumption DEF ControlInv, Joined, Turn, ControlType
<1>2. Launched = lastBatch BY DEF Launched, ControlType
<1>3. /\ waitingQueue \in Seq(Req) /\ runningBatch \in [Slot -> Seq(Req)]
      /\ lastBatch \in [Slot -> Batch] /\ \A b \in Batch : b.reqs \in Seq(Req)
  BY DEF ControlType, Batch
<1>4. \A q \in Seq(Req) : Contains(q, r) <=> r \in ToSet(q) BY DEF Contains, ToSet
<1>5. running = {s \in Slot : r \in InSlot[s]}
  <2>1. ASSUME NEW s \in Slot
        PROVE  s \in running <=> r \in InSlot[s]
    <3>1. r \in Running[s] <=> Contains(runningBatch[s], r) BY <1>3, <1>4 DEF Running
    <3>2. r \in Fresh[s] <=> /\ lastBatch[s].mode = "extend" /\ Contains(lastBatch[s].reqs, r)
                             /\ lastBatch[s].partial # r
      BY <1>1, <1>2, <1>3, <1>4 DEF Fresh, Whole
    <3>3. QED BY <3>1, <3>2 DEF InSlot
  <2>2. QED BY <2>1
<1>6. Cardinality(queued) = IF r \in Waiting THEN 1 ELSE 0
  <2>1. r \in Waiting <=> \E i \in DOMAIN waitingQueue : waitingQueue[i] = r
    BY DEF Waiting, ToSet
  <2>2. CASE r \in Waiting
    <3>1. PICK i \in DOMAIN waitingQueue : waitingQueue[i] = r BY <2>1, <2>2
    <3>2. queued = {i} BY <1>1, <3>1 DEF Exclusive, IsInjective
    <3>3. QED BY <2>2, <3>2, FS_Singleton
  <2>3. CASE r \notin Waiting
    <3>1. queued = {} BY <2>1, <2>3
    <3>2. QED BY <2>3, <3>1, FS_EmptySet
  <2>4. QED BY <2>2, <2>3
<1>7. Cardinality(running) = IF \E s \in Slot : r \in InSlot[s] THEN 1 ELSE 0
  <2>1. CASE \E s \in Slot : r \in InSlot[s]
    <3>1. PICK s \in Slot : r \in InSlot[s] BY <2>1
    <3>2. running = {s} BY <1>1, <1>5, <3>1 DEF Exclusive
    <3>3. QED BY <2>1, <3>2, FS_Singleton
  <2>2. CASE ~ \E s \in Slot : r \in InSlot[s]
    <3>1. running = {} BY <1>5, <2>2
    <3>2. QED BY <2>2, <3>1, FS_EmptySet
  <2>3. QED BY <2>1, <2>2
<1>8. Cardinality(chunked) = IF r = Chain THEN 1 ELSE 0
  <2>1. \A s \in Slot : Age[s] = 0 <=> s = head BY Ages
  <2>2. head \in Slot /\ Chain = lastBatch[head].partial BY <1>2, Ages DEF Chain
  <2>3. \A s \in Slot : lastBatch[s].partial = r => (ppIdx[r] = s <=> Age[s] = 0)
    BY <1>1, <1>2 DEF Owned
  <2> HIDE DEF head
  <2>4. chunked \subseteq {head} /\ (head \in chunked <=> r = Chain) BY <2>1, <2>2, <2>3
  <2>5. QED BY <2>4, OneElement
<1>9. /\ r \in Waiting \/ r = Chain \/ \E s \in Slot : r \in InSlot[s]
      /\ r \in Waiting => r # Chain /\ ~ \E s \in Slot : r \in InSlot[s]
      /\ r = Chain => ~ \E s \in Slot : r \in InSlot[s]
  BY <1>1 DEF Exclusive, Covered
<1> HIDE DEF queued, running, chunked
<1>10. Cardinality(queued) + Cardinality(running) + Cardinality(chunked) = 1
  BY <1>6, <1>7, <1>8, <1>9
<1>11. QED BY <1>10 DEF queued, running, chunked

\* is_being_chunked counts the awaited chunks.
LEMMA AwaitedChunksCounted ==
  ASSUME ControlType, ControlInv
  PROVE  ChunksCounted
<1> SUFFICES ASSUME phase = "recv", NEW r \in Req
             PROVE  isBeingChunked[r] = Cardinality({s \in Pending : lastBatch[s].partial = r})
  BY DEF ChunksCounted
<1>1. P \in Nat \ {0} /\ cur \in -1 .. P - 1 BY PAssumption DEF ControlType
<1>2. (cur + 1) % P = IF cur = P - 1 THEN 0 ELSE cur + 1 BY <1>1, Neighbours
<1>3. Pending = Awaited
  <2>1. Awaited = Slot \ {(cur + 1) % P} BY <1>2, AwaitedSlots
  <2>2. P = 1 => Slot \ {(cur + 1) % P} = {} BY <1>1, <1>2 DEF Slot
  <2>3. QED BY <2>1, <2>2 DEF Pending
<1>4. Launched = lastBatch BY DEF Launched, ControlType
<1>5. Chunks[r] = {s \in Pending : lastBatch[s].partial = r} BY <1>3, <1>4 DEF Chunks
<1>6. QED BY <1>5 DEF ControlInv, Counted

\* After its last batch is merged, no token of a slot's running request is uncounted.
LEMMA LengthsAgree ==
  ASSUME ControlType, ControlInv
  PROVE  OutputLenAgrees
<1> SUFFICES ASSUME phase = "fetch", NEW r \in ToSet(runningBatch[cur]) \ finished
             PROVE  outputIdsLen[r] = outputs[r]
  BY DEF OutputLenAgrees
<1>1. cur \in Slot /\ Awaited = Slot \ {cur} /\ Joined = {cur} /\ LenAgrees
  BY AwaitedSlots DEF ControlType, Joined, Turn, ControlInv
<1>2. r \in Req
  <2>1. runningBatch[cur] \in Seq(Req) BY <1>1 DEF ControlType
  <2>2. QED BY <2>1 DEF ToSet
<1>3. r \notin Ahead BY <1>1 DEF Ahead
<1>4. outputIdsLen[r] \in Nat BY <1>2 DEF ControlType
<1>5. QED BY <1>1, <1>2, <1>3, <1>4 DEF LenAgrees

\* What FinishedForGood says of one step.
FinishedStays == \A r \in finished : outputs'[r] = outputs[r] /\ ~Contains(batch'.reqs, r)

LEMMA FinishedStay ==
  ASSUME ControlType, ControlInv, ControlType', [Next]_vars
  PROVE  [FinishedStays]_vars
<1> SUFFICES ASSUME Next PROVE FinishedStays OBVIOUS
<1>1. \A b \in Batch : \A r : Contains(b.reqs, r) <=> r \in ToSet(b.reqs)
  BY DEF Contains, ToSet, Batch
<1>2. batch' \in Batch /\ (phase' # "process" => batch' = NoBatch) /\ finished \subseteq Req
  BY DEF ControlType
<1>3. ToSet(NoBatch.reqs) = {} BY DEF NoBatch, ToSet
<1>4. CASE LaunchPrefill \/ DecodeRunning \/ NothingToRun
  <2>1. Launches BY <1>4, PrefillLaunches, DecodeLaunches, IdleLaunches
  <2>2. QED BY <1>1, <1>2, <2>1 DEF Launches, Placed, FinishedStays
<1>5. CASE ApplyResult
  <2> DEFINE b == Launched[NextTurn]
  <2>1. Results(b) /\ phase = "process" /\ phase' = "recv" BY <1>5, ApplyResults DEF ApplyResult
  <2>2. /\ NextTurn \in Slot /\ Awaited = Slot /\ Unended /\ Launched \in [Slot -> Batch]
    BY <2>1, SampledWhole, Views DEF ControlInv
  <2>3. Whole(b) \cap finished = {} BY <2>2 DEF Unended, Whole
  <2> HIDE DEF b
  <2>4. \A r \in finished : outputs'[r] = outputs[r] + 0 /\ outputs[r] \in Nat
    BY <1>2, <2>1, <2>3 DEF Results, ControlType
  <2>5. QED BY <1>1, <1>2, <1>3, <2>1, <2>4 DEF FinishedStays
<1>6. CASE ~(LaunchPrefill \/ DecodeRunning \/ NothingToRun \/ ApplyResult)
  <2>1. phase' # "process" /\ UNCHANGED outputs
    <3>1. CASE BeginIteration \/ MergeLastBatch \/ FetchChunked
      BY <3>1 DEF BeginIteration, MergeLastBatch, FetchChunked, requests
    <3>2. CASE SkipPrefill \/ StartPrefill \/ NothingAdmitted
      BY <3>2 DEF SkipPrefill, StartPrefill, NothingAdmitted, requests
    <3>3. CASE AdmitOne
      <4>1. phase' \in {"admit", "launch"} BY <3>3, AdmittedAdder
      <4>2. QED BY <3>3, <4>1 DEF AdmitOne
    <3>4. CASE ExitOnPrefill \/ ExitOnDecode BY <3>4 DEF ExitOnPrefill, ExitOnDecode, requests
    <3>5. CASE Receive BY <3>5 DEF Receive, HandleGenerate, HandleAbort, HandleFlush, requests
    <3>6. QED BY <1>6, <3>1, <3>2, <3>3, <3>4, <3>5 DEF Next, Iterate
  <2>2. QED BY <1>1, <1>2, <1>3, <2>1 DEF FinishedStays
<1>7. QED BY <1>4, <1>5, <1>6

-----------------------------------------------------------------------------
(* When there is room.  A slot's own requests, with the one it chunks, never *)
(* exceed max_running_requests, so a slot that takes over its own chunked    *)
(* request has room for it; one that takes over another slot's may not.      *)
Load == [s \in Slot |-> InSlot[s] \cup ({Launched[s].partial} \ {NoReq})]

RoomInv ==
  phase # "exited" =>
    /\ \A s \in Slot : Cardinality(Load[s]) <= MaxRunning
    /\ phase \in {"admit", "launch"} /\ adder.canRun # <<>>
         => Len(runningBatch[cur]) + Len(adder.canRun) <= MaxRunning

LEMMA MaxRunningNat == MaxRunning \in Nat \ {0}
BY ChunkAssumption, PoolAssumption

LEMMA RequestsFinite ==
  ASSUME NEW S \in SUBSET Req
  PROVE  IsFiniteSet(S) /\ Cardinality(S) \in Nat /\ \A T \in SUBSET S : Cardinality(T) <= Cardinality(S)
<1>1. IsFiniteSet(S) BY ReqAssumption, FS_Subset
<1>2. QED BY <1>1, FS_Subset, FS_CardinalityType

LEMMA LoadType ==
  ASSUME ControlType
  PROVE  Load \in [Slot -> SUBSET Req]
<1>1. /\ InSlot \in [Slot -> SUBSET Req] /\ Launched \in [Slot -> Batch]
      /\ \A b \in Batch : b.partial \in Maybe
  BY Views DEF Batch
<1>2. QED BY <1>1 DEF Load, Maybe

LEMMA RoomInit == Init => RoomInv
<1> SUFFICES ASSUME Init PROVE RoomInv OBVIOUS
<1>1. /\ phase = "recv" /\ runningBatch = [s \in Slot |-> <<>>]
      /\ lastBatch = [s \in Slot |-> NoBatch]
  BY DEF Init
<1>2. NoBatch.mode = "none" /\ NoBatch.partial = NoReq /\ ToSet(<<>>) = {}
  BY DEF NoBatch, ToSet
<1>3. \A s \in Slot : Load[s] = {}
  BY <1>1, <1>2 DEF Load, InSlot, Running, Fresh, Launched
<1>4. \A s \in Slot : Cardinality(Load[s]) = 0 BY <1>3, FS_EmptySet
<1>5. QED BY <1>1, <1>4, MaxRunningNat DEF RoomInv

\* A step that does not add to any slot keeps the bound.
LEMMA NoMoreLoad ==
  ASSUME ControlType, RoomInv, phase # "exited", \A s \in Slot : Load'[s] \subseteq Load[s]
  PROVE  \A s \in Slot : Cardinality(Load'[s]) <= MaxRunning
<1> TAKE s \in Slot
<1>1. Load[s] \in SUBSET Req /\ Load'[s] \in SUBSET Req BY LoadType
<1>2. /\ Cardinality(Load[s]) \in Nat /\ Cardinality(Load'[s]) \in Nat
      /\ Cardinality(Load'[s]) <= Cardinality(Load[s])
  BY <1>1, RequestsFinite
<1>3. Cardinality(Load[s]) <= MaxRunning BY DEF RoomInv
<1>4. QED BY <1>2, <1>3, MaxRunningNat

\* Sums of natural numbers.
LEMMA Sums ==
  ASSUME NEW a \in Nat, NEW b \in Nat, NEW m \in Nat
  PROVE  /\ ~(a + b >= m) => a + b < m
         /\ a + b < m => a + (b + 1) <= m
         /\ \A c, d : c \in Nat /\ d = b + a - c /\ a + b <= m => d <= m
OBVIOUS

\* add_one_req admits a request only if the slot has room for it.
LEMMA AdmittedHasRoom ==
  ASSUME ControlType, AdmitOne, adder' # adder
  PROVE  Len(runningBatch[cur]) + Len(adder.canRun) < MaxRunning
<1> DEFINE r == waitingQueue[adder.next]
           extend == FullLen(r) - Matched(r)
           n == Len(runningBatch[cur]) + Len(adder.canRun)
<1>1. Verdict(r, extend) \in {"whole", "chunk"} BY DEF AdmitOne
<1>2. ~(n >= MaxRunning) BY <1>1 DEF Verdict
<1>3. Len(runningBatch[cur]) \in Nat /\ Len(adder.canRun) \in Nat
  <2>0. phase = "admit" BY Zenon DEF AdmitOne
  <2>1. cur \in Slot /\ runningBatch \in [Slot -> Seq(Req)] /\ adder.canRun \in Seq(Req)
    BY <2>0 DEF ControlType, IsAdder
  <2>2. QED BY <2>1
<1>4. QED BY <1>2, <1>3, MaxRunningNat, Sums

\* The steps before a batch is launched, and the messages.
LEMMA RoomPrefill ==
  ASSUME ControlType, ControlType', ControlInv, RoomInv,
         \/ BeginIteration \/ Receive \/ FetchChunked
         \/ SkipPrefill \/ StartPrefill \/ AdmitOne \/ NothingAdmitted
  PROVE  RoomInv'
<1>1. phase # "exited" /\ SameTurn /\ UNCHANGED batches
  <2>1. CASE BeginIteration \/ FetchChunked
    BY <2>1 DEF BeginIteration, FetchChunked, batches, slots, SameTurn, Turn, Newest
  <2>2. CASE Receive
    BY <2>2 DEF Receive, HandleGenerate, HandleAbort, HandleFlush, batches, slots, SameTurn, Turn, Newest
  <2>3. CASE SkipPrefill \/ StartPrefill \/ NothingAdmitted
    BY <2>3 DEF SkipPrefill, StartPrefill, NothingAdmitted, AdmittedAll, batches, slots, SameTurn, Turn, Newest
  <2>4. CASE AdmitOne
    <3>1. phase' \in {"admit", "launch"} BY <2>4, AdmittedAdder
    <3>2. QED BY <2>4, <3>1 DEF AdmitOne, batches, slots, SameTurn, Turn, Newest
  <2>5. QED BY <2>1, <2>2, <2>3, <2>4
<1>2. Load' = Load BY <1>1, SteadyViews DEF Load
<1>3. \A s \in Slot : Cardinality(Load'[s]) <= MaxRunning BY <1>1, <1>2, NoMoreLoad
<1>4. phase' \in {"admit", "launch"} /\ adder'.canRun # <<>>
        => Len(runningBatch'[cur']) + Len(adder'.canRun) <= MaxRunning
  <2> SUFFICES ASSUME phase' \in {"admit", "launch"}, adder'.canRun # <<>>
               PROVE  Len(runningBatch'[cur']) + Len(adder'.canRun) <= MaxRunning
    OBVIOUS
  <2>1. CASE BeginIteration \/ FetchChunked \/ Receive
    BY <2>1 DEF BeginIteration, FetchChunked, Receive, HandleGenerate, HandleAbort, HandleFlush
  <2>2. CASE SkipPrefill \/ NothingAdmitted BY <2>2 DEF SkipPrefill, NothingAdmitted
  <2>3. CASE StartPrefill
    <3>1. /\ cur' = cur /\ cur \in Slot /\ runningBatch' = runningBatch
          /\ Len(runningBatch[cur]) < MaxRunning
      BY <2>3 DEF StartPrefill, ControlType
    <3>2. \E x : adder'.canRun = <<x>> BY <2>3, StartedAdder
    <3>3. Len(adder'.canRun) = 1 /\ Len(runningBatch[cur]) \in Nat
      BY <3>1, <3>2 DEF ControlType
    <3>4. QED BY <3>1, <3>3, MaxRunningNat
  <2>4. CASE AdmitOne
    <3>1. /\ phase \in {"admit", "launch"} /\ cur' = cur /\ cur \in Slot
          /\ runningBatch' = runningBatch
      BY <2>4 DEF AdmitOne, slots, ControlType
    <3>2. CASE adder' = adder BY <1>1, <3>1, <3>2 DEF RoomInv
    <3>3. CASE adder' # adder
      <4>1. Len(runningBatch[cur]) + Len(adder.canRun) < MaxRunning BY <2>4, <3>3, AdmittedHasRoom
      <4>2. adder'.canRun = Append(adder.canRun, waitingQueue[adder.next])
        BY <2>4, <3>3, AdmittedAdder
      <4>3. adder.canRun \in Seq(Req) /\ runningBatch[cur] \in Seq(Req)
        BY <3>1 DEF ControlType, IsAdder
      <4>4. /\ Len(adder'.canRun) = Len(adder.canRun) + 1
            /\ Len(adder.canRun) \in Nat /\ Len(runningBatch[cur]) \in Nat
        BY <4>2, <4>3
      <4>5. QED BY <3>1, <4>1, <4>4, MaxRunningNat, Sums
    <3>4. QED BY <3>2, <3>3
  <2>5. QED BY <2>1, <2>2, <2>3, <2>4
<1>5. QED BY <1>3, <1>4 DEF RoomInv

LEMMA RoomResult ==
  ASSUME ControlType, ControlType', ControlInv, RoomInv, MergeLastBatch \/ ApplyResult
  PROVE  RoomInv'
<1>1. phase # "exited" /\ phase' \notin {"admit", "launch"} BY DEF MergeLastBatch, ApplyResult
<1>2. \A s \in Slot : InSlot'[s] \subseteq InSlot[s] /\ Launched' = Launched
  <2>1. CASE MergeLastBatch BY <2>1, MergeViews
  <2>2. CASE ApplyResult BY <2>2, ApplyResults, ResultViews
  <2>3. QED BY <2>1, <2>2
<1>3. \A s \in Slot : Load'[s] \subseteq Load[s] BY <1>2 DEF Load
<1>4. \A s \in Slot : Cardinality(Load'[s]) <= MaxRunning BY <1>1, <1>3, NoMoreLoad
<1>5. QED BY <1>1, <1>4 DEF RoomInv

\* A new batch is made of the slot's running requests and those the adder took.
LEMMA RoomLaunch ==
  ASSUME ControlType, ControlType', ControlInv, RoomInv,
         LaunchPrefill \/ DecodeRunning \/ NothingToRun
  PROVE  RoomInv'
<1>1. Launches BY PrefillLaunches, DecodeLaunches, IdleLaunches
<1>2. /\ cur \in Slot /\ Launched'[cur] = batch' /\ InSlot'[cur] = Left(runningBatch'[cur], batch')
      /\ \A s \in Slot \ {cur} : InSlot'[s] = InSlot[s] /\ Launched'[s] = Launched[s]
      /\ InSlot[cur] = Running[cur]
  BY <1>1, LaunchViews
<1>3. phase # "exited" /\ phase' = "process" BY <1>1 DEF Launches, Placed, Turn
<1>4. runningBatch[cur] \in Seq(Req) /\ IsInjective(runningBatch[cur]) /\ Running[cur] = ToSet(runningBatch[cur])
  BY <1>2, <1>3 DEF ControlType, ControlInv, Exclusive, Running
<1>5. CASE LaunchPrefill
  <2>1. /\ phase \in {"admit", "launch"} /\ adder.canRun # <<>> /\ adder.canRun \in Seq(Req)
        /\ IsInjective(adder.canRun)
        /\ Partial # NoReq => Partial \in ToSet(adder.canRun)
        /\ Len(runningBatch[cur]) + Len(adder.canRun) <= MaxRunning
    <3>1. phase \in {"admit", "launch"} /\ adder.canRun # <<>> BY <1>5 DEF LaunchPrefill, AdmittedAll
    <3>2. adder.canRun \in Seq(Req) BY DEF ControlType, IsAdder
    <3>3. Admitted /\ ChunkHeld BY <3>1 DEF ControlInv
    <3>4. QED BY <3>1, <3>2, <3>3 DEF Admitted, ChunkHeld, Partial, RoomInv
  <2> DEFINE run == ToSet(adder.canRun)
             U == run \cup Running[cur]
  <2>2. Load'[cur] \subseteq U
    <3>1. ToSet(MixedIn) \subseteq Running[cur]
      <4>1. ToSet(Unfinished(runningBatch[cur])) \subseteq ToSet(runningBatch[cur])
        BY <1>4, WithoutElements DEF Unfinished
      <4>2. ToSet(<<>>) = {} BY DEF ToSet
      <4>3. QED BY <1>4, <4>1, <4>2 DEF MixedIn
    <3>2. MixedIn \in Seq(Req) BY <1>4, KeptType DEF MixedIn
    <3>3. /\ runningBatch' = IF MixWanted THEN [runningBatch EXCEPT ![cur] = <<>>] ELSE runningBatch
          /\ batch'.reqs = adder.canRun \o MixedIn /\ batch'.partial = Partial
      BY <1>5 DEF LaunchPrefill
    <3>4. ToSet(batch'.reqs) \subseteq U BY <2>1, <3>1, <3>2, <3>3, JoinedElements
    <3>5. ToSet(runningBatch'[cur]) \subseteq Running[cur]
      <4>1. ToSet(<<>>) = {} BY DEF ToSet
      <4>2. runningBatch \in [Slot -> Seq(Req)] BY DEF ControlType
      <4>3. runningBatch'[cur] \in {<<>>, runningBatch[cur]} BY <1>2, <3>3, <4>2
      <4>4. QED BY <1>4, <4>1, <4>3
    <3>6. Left(runningBatch'[cur], batch') \subseteq U BY <3>4, <3>5 DEF Left, Prefilled, Whole
    <3>7. Load'[cur] = InSlot'[cur] \cup ({batch'.partial} \ {NoReq}) BY <1>2 DEF Load
    <3> HIDE DEF U
    <3>8. Partial # NoReq => Partial \in U BY <2>1 DEF U
    <3>9. QED BY <1>2, <3>3, <3>6, <3>7, <3>8
  <2>3. /\ IsFiniteSet(run) /\ Cardinality(run) = Len(adder.canRun)
        /\ IsFiniteSet(Running[cur]) /\ Cardinality(Running[cur]) = Len(runningBatch[cur])
    BY <1>4, <2>1, InjectiveLen
  <2>4. run \in SUBSET Req /\ Running[cur] \in SUBSET Req BY <1>4, <2>1 DEF ToSet
  <2> HIDE DEF run
  <2>5. /\ IsFiniteSet(U) /\ Cardinality(U) = Cardinality(run) + Cardinality(Running[cur]) - Cardinality(run \cap Running[cur])
        /\ Cardinality(run \cap Running[cur]) \in Nat /\ Cardinality(U) \in Nat
    <3>1. run \cap Running[cur] \in SUBSET Req BY <2>4
    <3>2. QED BY <2>3, <2>4, <3>1, FS_Union, FS_CardinalityType, RequestsFinite
  <2>6. Len(adder.canRun) \in Nat /\ Len(runningBatch[cur]) \in Nat BY <1>4, <2>1
  <2> HIDE DEF U
  <2>7. Cardinality(U) <= MaxRunning BY <2>1, <2>3, <2>5, <2>6, MaxRunningNat, Sums
  <2>8. Cardinality(Load'[cur]) <= MaxRunning
    <3>1. Load'[cur] \in SUBSET U /\ Load'[cur] \in SUBSET Req /\ U \in SUBSET Req BY <2>2, <2>4 DEF U
    <3>2. /\ Cardinality(Load'[cur]) \in Nat /\ Cardinality(Load'[cur]) <= Cardinality(U)
      BY <3>1, RequestsFinite
    <3>3. QED BY <2>5, <2>7, <3>2, MaxRunningNat
  <2>9. \A s \in Slot \ {cur} : Load'[s] = Load[s] BY <1>2 DEF Load
  <2>10. \A s \in Slot : Cardinality(Load'[s]) <= MaxRunning BY <1>3, <2>8, <2>9 DEF RoomInv
  <2>11. QED BY <1>3, <2>10 DEF RoomInv
<1>6. CASE DecodeRunning \/ NothingToRun
  <2>1. batch'.partial = NoReq /\ Left(runningBatch'[cur], batch') \subseteq Running[cur]
    <3>1. phase = "decode" /\ cur \in Slot /\ runningBatch \in [Slot -> Seq(Req)]
      BY <1>2, <1>6 DEF DecodeRunning, NothingToRun, ControlType
    <3>2. CASE DecodeRunning
      <4> DEFINE reqs == Unfinished(runningBatch[cur])
                 kept == Without(reqs, ToSet(Retracted(reqs)))
      <4>1. runningBatch' = [runningBatch EXCEPT ![cur] = kept]
            /\ batch' = [NoBatch EXCEPT !.mode = "decode", !.reqs = kept]
        BY <3>2 DEF DecodeRunning
      <4>2. reqs \in Seq(Req) /\ ToSet(reqs) = Running[cur] \ finished BY <3>1, BeforeDecode
      <4>3. ToSet(kept) \subseteq Running[cur] BY <4>2, WithoutElements
      <4> HIDE DEF kept
      <4>4. runningBatch'[cur] = kept /\ batch'.mode = "decode" /\ batch'.partial = NoReq
        BY <3>1, <4>1 DEF NoBatch
      <4>5. QED BY <4>3, <4>4 DEF Left, Prefilled
    <3>3. CASE NothingToRun
      <4>1. runningBatch'[cur] = <<>> /\ batch' = NoBatch BY <3>1, <3>3 DEF NothingToRun
      <4>2. QED BY <4>1 DEF Left, Prefilled, NoBatch, ToSet
    <3>4. QED BY <1>6, <3>2, <3>3
  <2>2. \A s \in Slot : Load'[s] \subseteq Load[s] BY <1>2, <2>1 DEF Load
  <2>3. \A s \in Slot : Cardinality(Load'[s]) <= MaxRunning BY <1>3, <2>2, NoMoreLoad
  <2>4. QED BY <1>3, <2>3 DEF RoomInv
<1>7. QED BY <1>5, <1>6

LEMMA RoomStep ==
  ASSUME ControlType, ControlType', ControlInv, RoomInv, [Next]_vars
  PROVE  RoomInv'
<1>1. CASE \/ BeginIteration \/ Receive \/ FetchChunked
           \/ SkipPrefill \/ StartPrefill \/ AdmitOne \/ NothingAdmitted
  BY <1>1, RoomPrefill
<1>2. CASE MergeLastBatch \/ ApplyResult BY <1>2, RoomResult
<1>3. CASE LaunchPrefill \/ DecodeRunning \/ NothingToRun BY <1>3, RoomLaunch
<1>4. CASE ExitOnPrefill \/ ExitOnDecode
  <2>1. phase' = "exited" BY <1>4 DEF ExitOnPrefill, ExitOnDecode
  <2>2. QED BY <2>1 DEF RoomInv
<1>5. CASE UNCHANGED vars
  <2>1. UNCHANGED <<phase, cur, batch, adder, runningBatch, lastBatch>>
    BY <1>5 DEF vars, slots
  <2>2. Load' = Load
    BY <2>1 DEF Load, InSlot, Running, Fresh, Launched, Joined
  <2>3. QED BY <2>1, <2>2 DEF RoomInv
<1>6. QED BY <1>1, <1>2, <1>3, <1>4, <1>5 DEF Next, Iterate

\* With one slot, the chunked request is the slot's own.
LEMMA RoomForOwn ==
  ASSUME ControlType, ControlInv, RoomInv, P = 1
  PROVE  SlotHasRoom
<1> SUFFICES ASSUME phase = "prefill", beingChunkedReq[cur] # NoReq
             PROVE  Len(runningBatch[cur]) < MaxRunning
  BY DEF SlotHasRoom
<1>1. /\ cur \in Slot /\ beingChunkedReq[cur] = Chain /\ Exclusive
      /\ runningBatch[cur] \in Seq(Req) /\ IsInjective(runningBatch[cur])
      /\ Cardinality(Load[cur]) <= MaxRunning
  BY DEF ControlType, ControlInv, ChunkHeld, Exclusive, RoomInv
<1>2. cur = 0 /\ Newest = -1 BY <1>1 DEF Slot, Newest
<1>3. Chain = Launched[cur].partial BY <1>2 DEF Chain
<1>4. Chain \notin Running[cur] /\ Running[cur] \cup {Chain} \subseteq Load[cur]
  BY <1>1, <1>3 DEF Exclusive, Load, InSlot
<1>5. Running[cur] = ToSet(runningBatch[cur]) BY <1>1 DEF Running
<1>6. IsFiniteSet(Running[cur]) /\ Cardinality(Running[cur]) = Len(runningBatch[cur])
  BY <1>1, <1>5, InjectiveLen
<1>7. Cardinality(Running[cur] \cup {Chain}) = Len(runningBatch[cur]) + 1
  BY <1>4, <1>6, FS_AddElement
<1>8. /\ Load[cur] \in SUBSET Req /\ Running[cur] \cup {Chain} \in SUBSET Load[cur]
  BY <1>1, <1>4, LoadType
<1>9. /\ Cardinality(Load[cur]) \in Nat
      /\ Cardinality(Running[cur] \cup {Chain}) <= Cardinality(Load[cur])
  BY <1>8, RequestsFinite
<1>10. Len(runningBatch[cur]) \in Nat BY <1>1
<1>11. QED BY <1>1, <1>7, <1>9, <1>10, MaxRunningNat

\* With no more requests than a slot may run, there is always room.
LEMMA RoomForFew ==
  ASSUME ControlType, ControlInv, Cardinality(Req) <= MaxRunning
  PROVE  SlotHasRoom
<1> SUFFICES ASSUME phase = "prefill", beingChunkedReq[cur] # NoReq
             PROVE  Len(runningBatch[cur]) < MaxRunning
  BY DEF SlotHasRoom
<1>1. /\ cur \in Slot /\ beingChunkedReq[cur] = Chain /\ Exclusive
      /\ runningBatch[cur] \in Seq(Req) /\ IsInjective(runningBatch[cur])
  BY DEF ControlType, ControlInv, ChunkHeld, Exclusive
<1>2. Chain \in Req /\ Chain \notin Running[cur] /\ Running[cur] \subseteq Req
  BY <1>1, Views DEF Exclusive, InSlot, Maybe
<1>3. IsFiniteSet(Running[cur]) /\ Cardinality(Running[cur]) = Len(runningBatch[cur])
  BY <1>1, InjectiveLen DEF Running
<1>4. Cardinality(Running[cur] \cup {Chain}) = Len(runningBatch[cur]) + 1
  BY <1>2, <1>3, FS_AddElement
<1>5. Running[cur] \cup {Chain} \in SUBSET Req /\ Req \in SUBSET Req BY <1>2
<1>6. Cardinality(Req) \in Nat /\ Cardinality(Running[cur] \cup {Chain}) <= Cardinality(Req)
  BY <1>5, RequestsFinite
<1>7. Len(runningBatch[cur]) \in Nat BY <1>1
<1>8. QED BY <1>4, <1>6, <1>7, MaxRunningNat

-----------------------------------------------------------------------------
(* The theorems.  Each has two forms: as long as a slot that takes over a    *)
(* chunked request has room for it, and without that condition when there is *)
(* one slot, or no more requests than a slot may run.                        *)
RoomForAll == P = 1 \/ Cardinality(Req) <= MaxRunning

THEOREM RoomHolds ==
  ASSUME RoomForAll
  PROVE  SafeSpec => []SlotHasRoom
<1>1. Init => ControlType /\ ControlInv /\ RoomInv BY TypeInit, ControlInit, RoomInit
<1>2. ControlType /\ ControlInv /\ RoomInv => SlotHasRoom BY RoomForOwn, RoomForFew DEF RoomForAll
<1>3. ControlType /\ ControlInv /\ RoomInv /\ [Next]_vars => (ControlType /\ ControlInv /\ RoomInv)'
  BY <1>2, ControlStep, RoomStep
<1>4. QED BY <1>1, <1>2, <1>3, PTL DEF SafeSpec

\* A slot never runs more than max_running_requests, the one it is chunking included, even
\* as requests come back from prefills and chunks arrive from other slots.
THEOREM SlotsBounded == SafeSpec /\ []SlotHasRoom => []RoomInv
<1>1. Init => ControlType /\ ControlInv /\ RoomInv BY TypeInit, ControlInit, RoomInit
<1>2. /\ ControlType /\ ControlInv /\ RoomInv /\ SlotHasRoom /\ [Next]_vars
      => (ControlType /\ ControlInv /\ RoomInv)'
  BY ControlStep, RoomStep
<1>3. QED BY <1>1, <1>2, PTL DEF SafeSpec

\* An unfinished request is in the queue, in one slot's batches, or being chunked, and
\* never in two places.
THEOREM OnePlaceHolds == SafeSpec /\ []SlotHasRoom => []OnePlace
<1>1. ControlType /\ ControlInv => OnePlace BY PlacesAreOne
<1>2. QED BY <1>1, ControlHolds, PTL

\* is_being_chunked counts the chunks in flight, so that a prompt's last chunk, and no
\* other, gets a token.
THEOREM ChunksCountedHolds == SafeSpec /\ []SlotHasRoom => []ChunksCounted
<1>1. ControlType /\ ControlInv => ChunksCounted BY AwaitedChunksCounted
<1>2. QED BY <1>1, ControlHolds, PTL

\* output_ids_len, which admission and retraction go by, is len(output_ids).
THEOREM OutputLenAgreesHolds == SafeSpec /\ []SlotHasRoom => []OutputLenAgrees
<1>1. ControlType /\ ControlInv => OutputLenAgrees BY LengthsAgree
<1>2. QED BY <1>1, ControlHolds, PTL

\* A finished request is never launched again and gets no further token, although batches
\* with it may still be in flight in other slots.
THEOREM FinishedForGoodHolds == SafeSpec /\ []SlotHasRoom => FinishedForGood
<1>1. /\ ControlType /\ ControlInv /\ (ControlType /\ ControlInv)' /\ [Next]_vars
      => [FinishedStays]_vars
  BY FinishedStay
<1>2. SafeSpec /\ []SlotHasRoom => [][FinishedStays]_vars
  BY <1>1, ControlHolds, PTL DEF SafeSpec
<1>3. QED BY <1>2 DEF FinishedForGood, FinishedStays

\* The same, without the condition, for one slot or few requests.
THEOREM OneSlotOrFewRequests ==
  ASSUME RoomForAll
  PROVE  SafeSpec => /\ [](OnePlace /\ ChunksCounted /\ OutputLenAgrees /\ RoomInv)
                     /\ FinishedForGood
BY RoomHolds, SlotsBounded, OnePlaceHolds, ChunksCountedHolds, OutputLenAgreesHolds,
   FinishedForGoodHolds, PTL

-----------------------------------------------------------------------------
(* The scheduler implements RequestService, but for the liveness of its      *)
(* specification, which is TLC's.                                            *)

\* A result is delivered to the requests of its batch, or to none.
LEMMA ResultDelivers ==
  ASSUME ControlType, ControlType', ControlInv, ApplyResult
  PROVE  [Service!Next]_(Service!vars)
<1> DEFINE S == Whole(Launched[NextTurn])
<1>1. /\ phase = "process" /\ UNCHANGED <<arrived, removed>> /\ outputs \in [Req -> Nat]
  BY DEF ApplyResult, inputs, ControlType
<1>2. /\ NextTurn \in Slot /\ NextTurn \in Awaited /\ S \subseteq InSlot[NextTurn]
      /\ Sampled(ResultOf) = S
  BY <1>1, SampledWhole
<1>3. S \subseteq arrived \ (removed \cup finished) /\ S \subseteq Req
  <2>1. InSlot[NextTurn] \subseteq arrived \ removed BY <1>1, <1>2 DEF ControlInv, Covered
  <2>2. ToSet(Launched[NextTurn].reqs) \cap finished = {} BY <1>1, <1>2 DEF ControlInv, Unended
  <2>3. InSlot[NextTurn] \subseteq Req BY <1>2, Views
  <2>4. QED BY <1>2, <2>1, <2>2, <2>3 DEF Whole
<1>4. /\ outputs' = [r \in Req |-> outputs[r] + (IF r \in S THEN 1 ELSE 0)]
      /\ \E E \in SUBSET S : /\ {r \in S : outputs[r] + 1 >= MaxNew[r]} \subseteq E
                             /\ finished' = finished \cup E
  <2>1. PICK stopped \in SUBSET (IF EarlyStop THEN S ELSE {}) :
          LET certain == {r \in S : \/ r \in finished \cup toAbort
                                    \/ outputs[r] + 1 >= MaxNew[r]}
          IN finished' = finished \cup (certain \cup stopped)
    BY <1>2 DEF ApplyResult
  <2> DEFINE E == {r \in S : \/ r \in finished \cup toAbort
                             \/ outputs[r] + 1 >= MaxNew[r]} \cup stopped
  <2>2. E \in SUBSET S /\ {r \in S : outputs[r] + 1 >= MaxNew[r]} \subseteq E
        /\ finished' = finished \cup E
    BY <2>1
  <2>3. outputs' = [r \in Req |-> outputs[r] + (IF r \in S THEN 1 ELSE 0)]
    BY <1>2 DEF ApplyResult
  <2>4. QED BY <2>2, <2>3
<1> HIDE DEF S
<1>5. CASE S = {}
  <2>1. finished' = finished BY <1>4, <1>5
  <2>2. outputs' = outputs BY <1>1, <1>4, <1>5
  <2>3. QED BY <1>1, <2>1, <2>2 DEF Service!vars
<1>6. CASE S # {}
  <2>1. outputs' = [r \in Req |-> IF r \in S THEN outputs[r] + 1 ELSE outputs[r]] BY <1>1, <1>4
  <2>2. S \subseteq Service!Open BY <1>3 DEF Service!Open
  <2>3. Service!Deliver(S) BY <1>1, <1>4, <1>6, <2>1, <2>2 DEF Service!Deliver
  <2>4. QED BY <1>3, <2>3 DEF Service!Next
<1>7. QED BY <1>5, <1>6

LEMMA StepServes ==
  ASSUME ControlType, ControlType', ControlInv, [Next]_vars
  PROVE  [Service!Next]_(Service!vars)
<1>1. CASE \E r \in Req : HandleGenerate(r)
  <2>1. PICK r \in Req : HandleGenerate(r) BY <1>1
  <2>2. Service!Accept(r) BY <2>1 DEF HandleGenerate, requests, Service!Accept
  <2>3. QED BY <2>2 DEF Service!Next
<1>2. CASE \E r \in Req : HandleAbort(r)
  <2>1. PICK r \in Req : HandleAbort(r) BY <1>2
  <2>2. /\ UNCHANGED <<arrived, finished, outputs>> /\ phase = "handle"
        /\ removed' = IF Contains(waitingQueue, r) THEN removed \cup {r} ELSE removed
    BY <2>1 DEF HandleAbort
  <2>3. CASE Contains(waitingQueue, r)
    <3>1. r \in Waiting
      <4>1. waitingQueue \in Seq(Req) BY DEF ControlType
      <4>2. QED BY <2>3, <4>1 DEF Contains, Waiting, ToSet
    <3>2. r \in arrived \ removed /\ r \notin finished
      BY <2>2, <3>1 DEF ControlInv, Covered, Unended
    <3>3. {r} \subseteq Service!Open BY <3>2 DEF Service!Open
    <3>4. Service!Withdraw({r})
      <4>1. {r} # {} /\ removed' = removed \cup {r} BY <2>2, <2>3
      <4>2. QED BY <2>2, <3>3, <4>1 DEF Service!Withdraw
    <3>5. QED BY <3>4 DEF Service!Next
  <2>4. CASE ~Contains(waitingQueue, r) BY <2>2, <2>4 DEF Service!vars
  <2>5. QED BY <2>3, <2>4
<1>3. CASE HandleFlush BY <1>3 DEF HandleFlush, requests, Service!vars
<1>4. CASE ApplyResult BY <1>4, ResultDelivers
<1>5. CASE Iterate /\ ~ApplyResult
  <2>1. UNCHANGED <<arrived, removed, finished, outputs>>
    BY <1>5 DEF Iterate, BeginIteration, MergeLastBatch, FetchChunked, SkipPrefill, StartPrefill,
                AdmitOne, NothingAdmitted, LaunchPrefill, ExitOnPrefill, DecodeRunning,
                NothingToRun, ExitOnDecode, inputs, requests
  <2>2. QED BY <2>1 DEF Service!vars
<1>6. CASE UNCHANGED vars BY <1>6 DEF vars, inputs, requests, Service!vars
<1>7. QED BY <1>1, <1>2, <1>3, <1>4, <1>5, <1>6 DEF Next, Receive

\* Every request is accepted once, gets its tokens one by one and none after its end or its
\* withdrawal, and ends with max_new_tokens at the latest.
THEOREM ServesRequests == SafeSpec /\ []SlotHasRoom => Service!SafeSpec
<1>1. Init => Service!Init BY DEF Init, Service!Init
<1>2. ControlType /\ ControlInv /\ (ControlType /\ ControlInv)' /\ [Next]_vars
      => [Service!Next]_(Service!vars)
  BY StepServes
<1>3. QED BY <1>1, <1>2, ControlHolds, PTL DEF SafeSpec, Service!SafeSpec

THEOREM ServesRequestsUnconditionally ==
  ASSUME RoomForAll
  PROVE  SafeSpec => Service!SafeSpec
BY ServesRequests, RoomHolds, PTL

-----------------------------------------------------------------------------
(***************************************************************************)
(* The row pool and the KV pool of the first rank: what each request holds *)
(* while it is chunked, run, retracted and finished, as long as no         *)
(* FlushCacheReq arrives.                                                  *)
(***************************************************************************)
\* Each row is free, once, or the row of one request in S.
RowsRight(free, own, S) ==
  /\ S \subseteq Req /\ free \in Seq(Row) /\ own \in [Req -> Row] /\ IsInjective(free)
  /\ \A q, r \in S : own[q] = own[r] => q = r
  /\ \A x \in Row : x \in ToSet(free) <=> ~ \E r \in S : own[r] = x

\* One row is freed.
LEMMA RowReleased ==
  ASSUME NEW free, NEW own, NEW S, RowsRight(free, own, S), NEW c \in S
  PROVE  RowsRight(Append(free, own[c]), own, S \ {c})
<1>1. /\ S \subseteq Req /\ free \in Seq(Row) /\ own \in [Req -> Row] /\ IsInjective(free)
      /\ \A q, r \in S : own[q] = own[r] => q = r
      /\ \A x \in Row : x \in ToSet(free) <=> ~ \E r \in S : own[r] = x
  BY DEF RowsRight
<1>2. own[c] \in Row /\ own[c] \notin ToSet(free) BY <1>1
<1> DEFINE more == Append(free, own[c])
<1>3. more \in Seq(Row) /\ ToSet(more) = ToSet(free) \cup {own[c]} /\ IsInjective(more)
  BY <1>1, <1>2, AppendedElement
<1> HIDE DEF more
<1>4. \A x \in Row : x \in ToSet(more) <=> ~ \E r \in S \ {c} : own[r] = x
  BY <1>1, <1>3
<1>5. RowsRight(more, own, S \ {c}) BY <1>1, <1>3, <1>4 DEF RowsRight
<1>6. QED BY <1>5 DEF more

\* The rows of several requests are freed.
LEMMA RowsReleased ==
  ASSUME NEW free, NEW own, NEW S, RowsRight(free, own, S),
         NEW out \in Seq(Req), IsInjective(out), ToSet(out) \subseteq S
  PROVE  RowsRight(free \o [i \in DOMAIN out |-> own[out[i]]], own, S \ ToSet(out))
<1>1. /\ S \subseteq Req /\ free \in Seq(Row) /\ own \in [Req -> Row] /\ IsInjective(free)
      /\ \A q, r \in S : own[q] = own[r] => q = r
      /\ \A x \in Row : x \in ToSet(free) <=> ~ \E r \in S : own[r] = x
  BY DEF RowsRight
<1> DEFINE back == [i \in DOMAIN out |-> own[out[i]]]
           all  == free \o back
<1>2. PICK n \in Nat : n = Len(out) /\ DOMAIN out = 1 .. n OBVIOUS
<1>3. \A i \in 1 .. n : out[i] \in Req /\ out[i] \in ToSet(out) BY <1>2 DEF ToSet
<1>4. back \in Seq(Row) /\ DOMAIN back = DOMAIN out /\ \A i \in DOMAIN out : back[i] = own[out[i]]
  <2>1. back \in [1 .. n -> Row] BY <1>1, <1>2, <1>3
  <2>2. QED BY <1>2, <2>1
<1>5. \A x : x \in ToSet(out) <=> \E i \in DOMAIN out : out[i] = x BY <1>2 DEF ToSet
<1> HIDE DEF back
<1>6. \A x : x \in ToSet(back) <=> \E r \in ToSet(out) : own[r] = x
  BY <1>4, <1>5 DEF ToSet
<1>7. IsInjective(back)
  <2>1. \A i, j \in DOMAIN out : out[i] = out[j] => i = j BY DEF IsInjective
  <2>2. \A i \in DOMAIN out : out[i] \in S BY <1>5
  <2>3. \A i, j \in DOMAIN back : back[i] = back[j] => i = j BY <1>1, <1>4, <2>1, <2>2
  <2>4. QED BY <2>3 DEF IsInjective
<1>8. ToSet(free) \cap ToSet(back) = {}
  <2>1. \A x \in ToSet(free) : x \in Row BY <1>1 DEF ToSet
  <2>2. QED BY <1>1, <1>6, <2>1
<1>9. all \in Seq(Row) /\ ToSet(all) = ToSet(free) \cup ToSet(back) /\ IsInjective(all)
  BY <1>1, <1>4, <1>7, <1>8, JoinedElements
<1> HIDE DEF all
<1>10. \A x \in Row : x \in ToSet(all) <=> ~ \E r \in S \ ToSet(out) : own[r] = x
  BY <1>1, <1>6, <1>9
<1>11. RowsRight(all, own, S \ ToSet(out)) BY <1>1, <1>9, <1>10 DEF RowsRight
<1>12. QED BY <1>11 DEF all, back

\* Free rows are given to new requests, in order.
GivenRow(free, own, run, r) ==
  IF r \in ToSet(run) THEN free[CHOOSE i \in DOMAIN run : run[i] = r] ELSE own[r]

LEMMA RowsGiven ==
  ASSUME NEW free, NEW own, NEW S, RowsRight(free, own, S),
         NEW run \in Seq(Req), IsInjective(run), ToSet(run) \cap S = {}, Len(run) <= Len(free),
         NEW given, given = [r \in Req |-> GivenRow(free, own, run, r)]
  PROVE  RowsRight(SubSeq(free, Len(run) + 1, Len(free)), given, S \cup ToSet(run))
<1>1. /\ S \subseteq Req /\ free \in Seq(Row) /\ own \in [Req -> Row] /\ IsInjective(free)
      /\ \A q, r \in S : own[q] = own[r] => q = r
      /\ \A x \in Row : x \in ToSet(free) <=> ~ \E r \in S : own[r] = x
  BY DEF RowsRight
<1> DEFINE rest == SubSeq(free, Len(run) + 1, Len(free))
<1>2. PICK n \in Nat, k \in Nat : /\ n = Len(free) /\ DOMAIN free = 1 .. n /\ k <= n
                                  /\ k = Len(run) /\ DOMAIN run = 1 .. k
  BY <1>1
<1>3. /\ rest \in Seq(Row) /\ DOMAIN rest = 1 .. (n - k)
      /\ \A j \in 1 .. (n - k) : rest[j] = free[k + j]
  BY <1>1, <1>2
<1> HIDE DEF rest
<1>4. /\ \A x : x \in ToSet(free) <=> \E i \in 1 .. n : free[i] = x
      /\ \A i, j \in 1 .. n : free[i] = free[j] => i = j
      /\ \A i \in 1 .. n : free[i] \in Row
  <2>1. \A x : x \in ToSet(free) <=> \E i \in 1 .. n : free[i] = x BY <1>2 DEF ToSet
  <2>2. \A i, j \in 1 .. n : free[i] = free[j] => i = j BY <1>1, <1>2 DEF IsInjective
  <2>3. QED BY <1>1, <1>2, <2>1, <2>2
<1>5. /\ \A r : r \in ToSet(run) <=> \E i \in 1 .. k : run[i] = r
      /\ \A i, j \in 1 .. k : run[i] = run[j] => i = j
      /\ \A i \in 1 .. k : run[i] \in Req
  BY <1>2 DEF ToSet, IsInjective
<1>6. \A i \in 1 .. k : given[run[i]] = free[i]
  <2> TAKE i \in 1 .. k
  <2>1. run[i] \in ToSet(run) /\ run[i] \in Req BY <1>5
  <2>2. (CHOOSE j \in DOMAIN run : run[j] = run[i]) = i BY <1>2, <1>5
  <2>3. QED BY <2>1, <2>2 DEF GivenRow
<1>7. \A r \in S : given[r] = own[r] BY <1>1 DEF GivenRow
<1>8. given \in [Req -> Row]
  <2>1. \A r \in Req : given[r] \in Row
    <3> TAKE r \in Req
    <3>1. CASE r \in ToSet(run)
      <4>1. PICK i \in 1 .. k : run[i] = r BY <1>5, <3>1
      <4>2. i \in 1 .. n BY <1>2
      <4>3. QED BY <1>4, <1>6, <4>1, <4>2
    <3>2. CASE r \notin ToSet(run) BY <1>1, <3>2 DEF GivenRow
    <3>3. QED BY <3>1, <3>2
  <2>2. QED BY <2>1
<1>9. IsInjective(rest)
  <2>1. \A j \in 1 .. (n - k) : k + j \in 1 .. n BY <1>2
  <2>2. \A i, j \in 1 .. (n - k) : k + i = k + j => i = j BY <1>2
  <2>3. \A i, j \in 1 .. (n - k) : rest[i] = rest[j] => i = j BY <1>3, <1>4, <2>1, <2>2
  <2>4. QED BY <1>3, <2>3 DEF IsInjective
<1>10. \A x : x \in ToSet(rest) <=> \E j \in 1 .. n : j > k /\ free[j] = x
  <2>1. \A x : x \in ToSet(rest) <=> \E j \in 1 .. (n - k) : free[k + j] = x
    BY <1>3 DEF ToSet
  <2>2. \A j \in 1 .. (n - k) : k + j \in 1 .. n /\ k + j > k BY <1>2
  <2>3. \A j \in 1 .. n : j > k => j - k \in 1 .. (n - k) /\ k + (j - k) = j BY <1>2
  <2>4. QED BY <2>1, <2>2, <2>3
<1>11. \A q, r \in S \cup ToSet(run) : given[q] = given[r] => q = r
  <2>1. \A q \in S, r \in ToSet(run) : given[q] # given[r]
    <3> TAKE q \in S, r \in ToSet(run)
    <3>1. PICK i \in 1 .. k : run[i] = r BY <1>5
    <3>2. i \in 1 .. n /\ given[r] = free[i] /\ given[r] \in ToSet(free) BY <1>2, <1>4, <1>6, <3>1
    <3>3. given[q] = own[q] /\ own[q] \in Row BY <1>1, <1>7
    <3>4. own[q] \notin ToSet(free) BY <1>1, <3>3
    <3>5. QED BY <3>2, <3>3, <3>4
  <2>2. \A q, r \in ToSet(run) : given[q] = given[r] => q = r
    <3> TAKE q, r \in ToSet(run)
    <3>1. \A i \in 1 .. k : i \in 1 .. n BY <1>2
    <3>2. PICK i \in 1 .. k, j \in 1 .. k : run[i] = q /\ run[j] = r BY <1>5
    <3>3. given[q] = free[i] /\ given[r] = free[j] BY <1>6, <3>2
    <3>4. free[i] = free[j] => i = j BY <1>4, <3>1
    <3>5. QED BY <3>2, <3>3, <3>4
  <2>3. \A q, r \in S : given[q] = given[r] => q = r
    <3>1. \A q, r \in S : own[q] = own[r] => q = r BY <1>1
    <3>2. QED BY <1>7, <3>1
  <2>4. QED BY <2>1, <2>2, <2>3
<1>12. \A x \in Row : x \in ToSet(rest) <=> ~ \E r \in S \cup ToSet(run) : given[r] = x
  <2> TAKE x \in Row
  <2>1. (\E r \in ToSet(run) : given[r] = x) <=> \E i \in 1 .. k : free[i] = x BY <1>5, <1>6
  <2>2. (\E r \in S : given[r] = x) <=> x \notin ToSet(free) BY <1>1, <1>7
  <2>3. (\E i \in 1 .. k : free[i] = x) <=> \E j \in 1 .. n : ~(j > k) /\ free[j] = x
    <3>1. \A j : j \in 1 .. k <=> j \in 1 .. n /\ ~(j > k) BY <1>2
    <3>2. QED BY <3>1
  <2>4. (\E i \in 1 .. n : i > k /\ free[i] = x) => ~ \E i \in 1 .. n : ~(i > k) /\ free[i] = x
    BY <1>4
  <2>5. QED BY <1>4, <1>10, <2>1, <2>2, <2>3, <2>4
<1>13. S \cup ToSet(run) \subseteq Req BY <1>1, <1>5
<1>14. RowsRight(rest, given, S \cup ToSet(run)) BY <1>3, <1>8, <1>9, <1>11, <1>12, <1>13 DEF RowsRight
<1>15. QED BY <1>14 DEF rest

-----------------------------------------------------------------------------
\* The unfinished requests that some slot runs, prefills or chunks.
Owners == {r \in Req \ finished : r = Chain \/ \E s \in Slot : r \in InSlot[s]}

\* Between taking over a chunked request and launching it, its row is free.
ChunkRowFreed == phase \in {"prefill", "admit", "launch"} \/ (phase = "fetch" /\ P = 1)

WithRow == IF ChunkRowFreed THEN Owners \ {Chain} ELSE Owners

\* A request a batch computed a chunk of is still being chunked, or has its last chunk in
\* a batch that is launched later and not merged yet.
ChunkGoesOn ==
  \A s \in Slot : Launched[s].partial # NoReq =>
    \/ Launched[s].partial = Chain
    \/ \E t \in Slot : Launched[s].partial \in InSlot[t] /\ Age[t] < Age[s]

RowsInv == phase # "exited" => ChunkGoesOn /\ RowsRight(freeRows, row, WithRow)

\* The turn passes, and the places of requests are the same.
Steady ==
  /\ UNCHANGED <<batches, finished>> /\ SameTurn

LEMMA SteadyOwners ==
  ASSUME ControlType, ControlType', Steady
  PROVE  Owners' = Owners /\ Chain' = Chain /\ (ChunkGoesOn => ChunkGoesOn')
<1>1. /\ Age' = Age /\ Launched' = Launched /\ InSlot' = InSlot /\ Chain' = Chain
      /\ finished' = finished
  BY SteadyViews DEF Steady
<1>2. QED BY <1>1 DEF Owners, ChunkGoesOn

\* Merging drops only finished requests from the slot.
LEMMA MergeOwners ==
  ASSUME ControlType, ControlInv, MergeLastBatch, ChunkGoesOn
  PROVE  Owners' = Owners /\ Chain' = Chain /\ ChunkGoesOn'
<1>1. /\ Age' = Age /\ Launched' = Launched /\ Chain' = Chain /\ finished' = finished
      /\ \A s \in Slot : /\ InSlot'[s] \subseteq InSlot[s]
                         /\ InSlot[s] \ finished \subseteq InSlot'[s]
      /\ \A s \in Slot \ {cur} : InSlot'[s] = InSlot[s]
  <2>1. /\ \A s \in Slot : /\ s # cur => Running'[s] = Running[s]
                           /\ Fresh'[s] = IF s = cur THEN {} ELSE Fresh[s]
        /\ InSlot = [s \in Slot |-> Running[s] \cup Fresh[s]]
        /\ InSlot' = [s \in Slot |-> Running'[s] \cup Fresh'[s]]
    BY MergeViews DEF InSlot
  <2>2. \A s \in Slot \ {cur} : InSlot'[s] = InSlot[s] BY <2>1
  <2>3. QED BY <2>2, MergeViews DEF MergeLastBatch
<1>2. Owners' = Owners BY <1>1 DEF Owners
<1>3. ChunkGoesOn'
  <2>1. phase = "handle" BY DEF MergeLastBatch
  <2>2. Age \in [Slot -> 0 .. P - 1] /\ \A s \in Slot : Age[s] = P - 1 <=> s = cur
    BY <2>1, Ages
  <2>3. \A s, t \in Slot : Age[t] < Age[s] => t # cur BY <2>2, PAssumption
  <2>4. QED BY <1>1, <2>3 DEF ChunkGoesOn
<1>4. QED BY <1>1, <1>2, <1>3

\* A launch continues the chunked request, or puts its last chunk in the slot.
LEMMA LaunchChunks ==
  ASSUME ControlType, ControlType', ControlInv, Launches, ChunkGoesOn
  PROVE  ChunkGoesOn'
<1>1. /\ cur \in Slot /\ Age'[cur] = 0 /\ Chain' = batch'.partial
      /\ \A s \in Slot \ {cur} : Age'[s] = Age[s] + 1 /\ Age[s] \in Nat
      /\ Launched'[cur] = batch' /\ \A s \in Slot \ {cur} : Launched'[s] = Launched[s]
      /\ InSlot'[cur] = Left(runningBatch'[cur], batch')
      /\ \A s \in Slot \ {cur} : InSlot'[s] = InSlot[s]
  BY LaunchViews
<1>2. phase \in Turn BY DEF Launches
<1>3. Age \in [Slot -> 0 .. P - 1] /\ \A s \in Slot : Age[s] = P - 1 <=> s = cur
  BY <1>2, Ages
<1>4. \A s, t \in Slot : Age[t] < Age[s] => t # cur BY <1>3, PAssumption
<1>5. Chain # NoReq => Chain = Chain' \/ Chain \in InSlot'[cur]
  <2>1. Chain \notin finished BY <1>2 DEF ControlInv, Unended, Turn
  <2>2. QED BY <1>1, <2>1 DEF Launches, Placed
<1>6. ASSUME NEW s \in Slot, Launched'[s].partial # NoReq
      PROVE  \/ Launched'[s].partial = Chain'
             \/ \E t \in Slot : Launched'[s].partial \in InSlot'[t] /\ Age'[t] < Age'[s]
  <2>1. CASE s = cur BY <1>1, <2>1
  <2>2. CASE s # cur
    <3>1. Launched'[s] = Launched[s] /\ 0 < Age'[s] BY <1>1, <2>2
    <3>2. CASE Launched[s].partial = Chain BY <1>1, <1>5, <1>6, <3>1, <3>2
    <3>3. CASE Launched[s].partial # Chain
      <4>1. PICK t \in Slot : Launched[s].partial \in InSlot[t] /\ Age[t] < Age[s]
        BY <1>2, <1>6, <3>1, <3>3 DEF ChunkGoesOn
      <4>2. t # cur /\ InSlot'[t] = InSlot[t] BY <1>1, <1>4, <4>1
      <4>3. Age'[t] < Age'[s] BY <1>1, <2>2, <4>1, <4>2
      <4>4. QED BY <3>1, <4>1, <4>2, <4>3
    <3>4. QED BY <3>2, <3>3
  <2>3. QED BY <2>1, <2>2
<1>7. QED BY <1>6 DEF ChunkGoesOn

\* Who owns what after a prefill: the admitted requests too.
LEMMA PrefillOwners ==
  ASSUME ControlType, ControlType', ControlInv, LaunchPrefill
  PROVE  /\ Owners' = Owners \cup ToSet(adder.canRun)
         /\ Owners' = (Owners \ {Chain}) \cup ToSet(adder.canRun)
         /\ (Owners \ {Chain}) \cap ToSet(adder.canRun) = {}
<1> DEFINE run == ToSet(adder.canRun)
           mixed == ToSet(MixedIn)
<1>1. Launches /\ PrefillDealt BY PrefillLaunches, PrefillDeals
<1>2. /\ mixed = (IF MixWanted THEN Running[cur] \ finished ELSE {})
      /\ run \subseteq (Waiting \cup {Chain}) \cap Req /\ (Chain # NoReq => Chain \in run)
      /\ (Partial # NoReq => Partial \in run)
      /\ Waiting \cap finished = {} /\ Chain \notin finished
      /\ batch'.mode = "extend" /\ batch'.partial = Partial
      /\ ToSet(batch'.reqs) = run \cup mixed
      /\ ToSet(runningBatch'[cur]) = IF MixWanted THEN {} ELSE Running[cur]
  BY <1>1 DEF PrefillDealt
<1>3. /\ cur \in Slot /\ Chain' = Partial /\ InSlot[cur] = Running[cur] /\ finished' = finished
      /\ InSlot'[cur] = ToSet(runningBatch'[cur]) \cup ((run \cup mixed) \ {Partial})
      /\ \A s \in Slot \ {cur} : InSlot'[s] = InSlot[s]
  BY <1>1, <1>2, LaunchViews DEF Launches, Left, Prefilled, Whole
<1>4. /\ NoReq \notin Req /\ (Partial = NoReq \/ Partial \in run)
      /\ \A s \in Slot : Waiting \cap InSlot[s] = {}
  BY <1>1, <1>2, ReqAssumption DEF ControlInv, Exclusive, Launches, Turn
<1> HIDE DEF run, mixed
<1>5. \A r \in Req \ finished :
        (r = Partial \/ \E s \in Slot : r \in InSlot'[s])
          <=> (r = Chain \/ r \in run \/ \E s \in Slot : r \in InSlot[s])
  <2> TAKE r \in Req \ finished
  <2>1. (r = Partial \/ r \in InSlot'[cur]) <=> (r = Chain \/ r \in run \/ r \in InSlot[cur])
    BY <1>2, <1>3, <1>4
  <2>2. \A s \in Slot : s # cur => InSlot'[s] = InSlot[s] BY <1>3
  <2>3. QED BY <1>3, <2>1, <2>2
<1>6. run \subseteq Req /\ run \cap finished = {} BY <1>2
<1>7. Owners' = Owners \cup run BY <1>3, <1>5, <1>6 DEF Owners
<1>8. (Owners \ {Chain}) \cap run = {} BY <1>2, <1>4 DEF Owners
<1>9. Owners' = (Owners \ {Chain}) \cup run BY <1>2, <1>4, <1>7 DEF Owners
<1>10. QED BY <1>7, <1>8, <1>9 DEF run

\* A decode step gives up the retracted requests.
LEMMA DecodeOwners ==
  ASSUME ControlType, ControlType', ControlInv, DecodeRunning
  PROVE  LET reqs == Unfinished(runningBatch[cur])
             out  == Retracted(reqs)
         IN /\ Owners' = Owners \ ToSet(out) /\ ToSet(reqs) \subseteq Owners
            /\ Chain = NoReq /\ Chain' = NoReq
<1> DEFINE reqs == Unfinished(runningBatch[cur])
           out  == Retracted(reqs)
           kept == Without(reqs, ToSet(out))
<1>1. Launches /\ DecodeDealt BY DecodeLaunches, DecodeDeals
<1>2. /\ ToSet(reqs) = Running[cur] \ finished /\ ToSet(out) \subseteq ToSet(reqs)
      /\ ToSet(kept) = ToSet(reqs) \ ToSet(out) /\ Chain = NoReq /\ NoReq \notin Req
      /\ Running[cur] \subseteq Req
      /\ batch'.mode = "decode" /\ batch'.partial = NoReq /\ runningBatch'[cur] = kept
  BY <1>1 DEF DecodeDealt
<1>3. /\ cur \in Slot /\ Chain' = NoReq /\ InSlot[cur] = Running[cur] /\ finished' = finished
      /\ InSlot'[cur] = ToSet(kept) /\ \A s \in Slot \ {cur} : InSlot'[s] = InSlot[s]
  BY <1>1, <1>2, LaunchViews DEF Launches, Left, Prefilled
<1>4. \A s \in Slot \ {cur} : InSlot[s] \cap InSlot[cur] = {}
  BY <1>1, <1>3 DEF ControlInv, Exclusive, Launches, Turn
<1> HIDE DEF reqs, out, kept
<1>5. \A r \in Req \ finished :
        (\E s \in Slot : r \in InSlot'[s]) <=> (r \notin ToSet(out) /\ \E s \in Slot : r \in InSlot[s])
  <2> TAKE r \in Req \ finished
  <2>1. r \in InSlot'[cur] <=> (r \in InSlot[cur] /\ r \notin ToSet(out)) BY <1>2, <1>3
  <2>2. \A s \in Slot \ {cur} : r \in InSlot'[s] <=> r \in InSlot[s] BY <1>3
  <2>3. \A s \in Slot \ {cur} : r \in InSlot[s] => r \notin ToSet(out) BY <1>2, <1>3, <1>4
  <2>4. QED BY <1>3, <2>1, <2>2, <2>3
<1>6. Owners' = Owners \ ToSet(out) BY <1>2, <1>3, <1>5 DEF Owners
<1>7. ToSet(reqs) \subseteq Owners BY <1>2, <1>3 DEF Owners
<1>8. QED BY <1>2, <1>3, <1>6, <1>7 DEF reqs, out

\* Without a batch nothing changes hands.
LEMMA IdleOwners ==
  ASSUME ControlType, ControlType', ControlInv, NothingToRun
  PROVE  Owners' = Owners /\ Chain = NoReq /\ Chain' = NoReq
<1>1. Launches BY IdleLaunches
<1>2. phase = "decode" /\ runningBatch' = [runningBatch EXCEPT ![cur] = <<>>] /\ batch' = NoBatch
      /\ Unfinished(runningBatch[cur]) = <<>>
  BY DEF NothingToRun
<1>3. /\ cur \in Slot /\ Chain = NoReq /\ NoReq \notin Req
      /\ ToSet(Unfinished(runningBatch[cur])) = Running[cur] \ finished
  BY <1>2, BeforeDecode
<1>4. ToSet(<<>>) = {} BY DEF ToSet
<1>5. /\ runningBatch'[cur] = <<>> /\ Prefilled(batch') = {} /\ batch'.partial = NoReq
      /\ Running[cur] \subseteq finished
  BY <1>2, <1>3, <1>4 DEF ControlType, Prefilled, NoBatch
<1>6. /\ Chain' = NoReq /\ InSlot[cur] = Running[cur] /\ finished' = finished
      /\ InSlot'[cur] = {} /\ \A s \in Slot \ {cur} : InSlot'[s] = InSlot[s]
  BY <1>1, <1>4, <1>5, LaunchViews DEF Launches, Left
<1>7. \A r \in Req \ finished : (\E s \in Slot : r \in InSlot'[s]) <=> \E s \in Slot : r \in InSlot[s]
  BY <1>3, <1>5, <1>6
<1>8. Owners' = Owners BY <1>3, <1>6, <1>7 DEF Owners
<1>9. QED BY <1>3, <1>6, <1>8

\* A result gives up the requests that end.
LEMMA ResultOwners ==
  ASSUME ControlType, ControlType', ControlInv, ApplyResult, ChunkGoesOn
  PROVE  /\ Owners' = Owners \ (finished' \ finished) /\ Chain' = Chain /\ ChunkGoesOn'
         /\ Whole(Launched[NextTurn]) \subseteq Owners
<1>1. Results(Launched[NextTurn]) BY ApplyResults
<1>2. Age' = Age /\ Launched' = Launched /\ Chain' = Chain /\ InSlot' = InSlot
  BY <1>1, ResultViews
<1>3. phase = "process" BY DEF ApplyResult
<1>4. /\ NextTurn \in Slot /\ Whole(Launched[NextTurn]) \subseteq InSlot[NextTurn]
      /\ NextTurn \in Awaited
  BY <1>3, SampledWhole
<1>5. ToSet(Launched[NextTurn].reqs) \cap finished = {} BY <1>3, <1>4 DEF ControlInv, Unended
<1>6. InSlot[NextTurn] \subseteq Req BY <1>4, Views
<1>7. Whole(Launched[NextTurn]) \subseteq Owners BY <1>4, <1>5, <1>6 DEF Owners, Whole
<1>8. Owners' = Owners \ (finished' \ finished) BY <1>1, <1>2 DEF Owners, Results
<1>9. QED BY <1>2, <1>7, <1>8 DEF ChunkGoesOn

\* But for the slot that has merged its last batch, the requests of a batch are in its slot.
LEMMA WholeInSlot ==
  ASSUME ControlType, ControlInv, phase # "exited", NEW s \in Slot \ Joined
  PROVE  Whole(Launched[s]) \subseteq InSlot[s]
<1>1. BatchShape /\ Launched[s] \in Batch BY Views DEF ControlInv
<1>2. Launched[s].mode \in {"none", "extend", "decode"} BY <1>1 DEF Batch
<1>3. CASE Launched[s].mode = "none"
  <2>1. ToSet(<<>>) = {} BY DEF ToSet
  <2>2. QED BY <1>1, <1>3, <2>1 DEF BatchShape, Whole
<1>4. CASE Launched[s].mode = "extend" BY <1>4 DEF InSlot, Fresh
<1>5. CASE Launched[s].mode = "decode" BY <1>1, <1>5 DEF BatchShape, Whole, InSlot
<1>6. QED BY <1>2, <1>3, <1>4, <1>5

\* Between iterations the owners are the requests of the batches.
LEMMA BatchesOwners ==
  ASSUME ControlType, ControlInv, phase \in {"recv", "handle"}, ChunkGoesOn
  PROVE  InBatches = Owners
<1>1. /\ Launched = [s \in Slot |-> lastBatch[s]] /\ Launched \in [Slot -> Batch] /\ Joined = {}
      /\ InSlot \in [Slot -> SUBSET Req] /\ NoReq \notin Req /\ phase # "exited"
      /\ \A b \in Batch : ToSet(b.reqs) \subseteq Req
  BY Views, ReqAssumption DEF Launched, Joined, Turn
<1>2. BatchShape BY <1>1 DEF ControlInv
<1> DEFINE newest == IF Newest = -1 THEN P - 1 ELSE Newest
<1>3. newest \in Slot /\ Chain = Launched[newest].partial BY Ages DEF Chain
<1>4. \A s \in Slot : /\ InSlot[s] = ToSet(runningBatch[s]) \cup Fresh[s]
                      /\ Fresh[s] = IF Launched[s].mode = "extend" THEN Whole(Launched[s]) ELSE {}
  BY <1>1 DEF InSlot, Running, Fresh
<1> HIDE DEF newest
<1>5. ASSUME NEW s \in Slot
      PROVE  /\ Whole(Launched[s]) \subseteq InSlot[s]
             /\ \A r \in ToSet(lastBatch[s].reqs) :
                  r \in Req /\ (r \in InSlot[s] \/ (r = Launched[s].partial /\ r # NoReq))
             /\ Launched[s].partial # NoReq => Launched[s].partial \in ToSet(lastBatch[s].reqs)
             /\ Fresh[s] \subseteq ToSet(lastBatch[s].reqs)
  <2>1. /\ Launched[s] \in Batch /\ Launched[s] = lastBatch[s]
        /\ Launched[s].mode \in {"none", "extend", "decode"}
        /\ ToSet(Launched[s].reqs) \subseteq Req
    BY <1>1 DEF Batch
  <2>2. Whole(Launched[s]) \subseteq InSlot[s] BY <1>1, WholeInSlot
  <2>3. QED BY <1>1, <1>2, <1>4, <2>1, <2>2 DEF BatchShape, Whole
<1>6. \A r : r \in InBatches <=>
        /\ r \notin finished
        /\ \E s \in Slot : r \in ToSet(runningBatch[s]) \/ r \in ToSet(lastBatch[s].reqs)
  BY DEF InBatches, RunningReqs
<1>7. ASSUME NEW r \in InBatches PROVE r \in Owners
  <2>1. PICK s \in Slot : r \in ToSet(runningBatch[s]) \/ r \in ToSet(lastBatch[s].reqs) BY <1>6
  <2>2. r \notin finished BY <1>6
  <2>3. r \in Req /\ (r \in InSlot[s] \/ (r = Launched[s].partial /\ r # NoReq))
    BY <1>1, <1>4, <1>5, <2>1
  <2>4. r = Chain \/ \E t \in Slot : r \in InSlot[t] BY <2>3 DEF ChunkGoesOn
  <2>5. QED BY <2>2, <2>3, <2>4 DEF Owners
<1>8. ASSUME NEW r \in Owners PROVE r \in InBatches
  <2>1. r \in Req \ finished /\ (r = Chain \/ \E s \in Slot : r \in InSlot[s]) BY DEF Owners
  <2>2. CASE r = Chain
    <3>1. r = Launched[newest].partial /\ r # NoReq BY <1>1, <1>3, <2>1, <2>2
    <3>2. QED BY <1>3, <1>5, <1>6, <2>1, <3>1
  <2>3. CASE r # Chain
    <3>1. PICK s \in Slot : r \in InSlot[s] BY <2>1, <2>3
    <3>2. r \in ToSet(runningBatch[s]) \/ r \in ToSet(lastBatch[s].reqs) BY <1>4, <1>5, <3>1
    <3>3. QED BY <1>6, <2>1, <3>2
  <2>4. QED BY <2>2, <2>3
<1>9. QED BY <1>7, <1>8

-----------------------------------------------------------------------------
\* The row of the chunked request is freed where its next chunk is taken up: by the merge
\* if there is one slot, else by fetch_chunked_prefill.
FreesChainRow == /\ CacheUnfinished({Chain}) /\ Chain # NoReq
                 /\ freeRows' = Append(freeRows, row[Chain])

LEMMA MergeFrees ==
  ASSUME ControlType, ControlInv, MergeLastBatch
  PROVE  IF P = 1 /\ Chain # NoReq THEN FreesChainRow ELSE UNCHANGED <<prefix, entries, freeRows>>
<1> DEFINE b == lastBatch[cur]
           c == IF b.mode = "extend" THEN beingChunkedReq[cur] ELSE NoReq
<1>1. phase = "handle" /\ b = Launched[cur] /\ cur \in Slot /\ cur \notin Joined
  BY MergedBatch DEF MergeLastBatch
<1>2. BatchShape /\ ChunkHeld /\ Owned BY <1>1 DEF ControlInv
<1>3. beingChunkedReq[cur] = b.partial /\ (b.partial # NoReq => b.mode = "extend")
  BY <1>1, <1>2 DEF ChunkHeld, BatchShape
<1>4. c = b.partial BY <1>3
<1>5. Age[cur] = P - 1 BY <1>1, Ages
<1>6. c # NoReq => (ChunkedHere(c) <=> P = 1)
  <2>1. P - 1 = 0 <=> P = 1 BY PAssumption
  <2>2. c # NoReq => (ppIdx[c] = cur <=> Age[cur] = 0) BY <1>1, <1>2, <1>4 DEF Owned
  <2>3. c # NoReq => (ChunkedHere(c) <=> ppIdx[c] = cur) BY <1>3, <1>4 DEF ChunkedHere
  <2>4. QED BY <1>5, <2>1, <2>2, <2>3
<1>7. P = 1 => Chain = c
  <2> SUFFICES ASSUME P = 1 PROVE Chain = c OBVIOUS
  <2>1. cur = 0 /\ Newest = -1 BY <1>1 DEF Slot, Newest
  <2>2. QED BY <1>1, <1>4, <2>1 DEF Chain
<1>8. IF c # NoReq /\ ChunkedHere(c)
      THEN CacheUnfinished({c}) /\ freeRows' = Append(freeRows, row[c])
      ELSE UNCHANGED <<prefix, entries, freeRows>>
  BY DEF MergeLastBatch
<1> HIDE DEF b, c
<1>9. CASE P = 1 /\ Chain # NoReq BY <1>6, <1>7, <1>8, <1>9 DEF FreesChainRow
<1>10. CASE ~(P = 1 /\ Chain # NoReq) BY <1>6, <1>7, <1>8, <1>10
<1>11. QED BY <1>9, <1>10

LEMMA FetchFrees ==
  ASSUME ControlType, ControlInv, FetchChunked
  PROVE  IF P # 1 /\ Chain # NoReq THEN FreesChainRow ELSE UNCHANGED <<prefix, entries, freeRows>>
<1> DEFINE s == (cur - 1) % P
<1>1. /\ phase = "fetch" /\ P \in Nat \ {0} /\ cur \in 0 .. P - 1 /\ ChunkHeld
      /\ Joined = {cur}
  BY PAssumption DEF FetchChunked, ControlInv, ControlType, Slot, Joined, Turn
<1>2. s = (IF cur = 0 THEN P - 1 ELSE cur - 1) /\ Newest = cur - 1
  BY <1>1, Neighbours DEF Newest
<1>3. IF P = 1 \/ beingChunkedReq[s] = NoReq THEN UNCHANGED <<prefix, entries, freeRows>>
      ELSE /\ CacheUnfinished({beingChunkedReq[s]})
           /\ freeRows' = Append(freeRows, row[beingChunkedReq[s]])
  BY DEF FetchChunked
<1>4. CASE P = 1 BY <1>3, <1>4
<1>5. CASE P # 1
  <2>1. s \in Slot \ {cur} /\ Launched[s].partial = Chain BY <1>1, <1>2, <1>5 DEF Slot, Chain
  <2>2. beingChunkedReq[s] = Chain BY <1>1, <2>1 DEF ChunkHeld
  <2> HIDE DEF s
  <2>3. QED BY <1>3, <1>5, <2>2 DEF FreesChainRow
<1>6. QED BY <1>4, <1>5

\* The chunked request is an owner.
LEMMA ChainOwns ==
  ASSUME ControlType, ControlInv, phase # "exited"
  PROVE  IF Chain = NoReq THEN Owners \ {Chain} = Owners ELSE Chain \in Owners
<1>1. Chain \in Maybe /\ NoReq \notin Req BY Views, ReqAssumption
<1>2. Chain \notin finished BY DEF ControlInv, Unended
<1>3. IF Chain = NoReq THEN Chain \notin Owners ELSE Chain \in Owners
  BY <1>1, <1>2 DEF Owners, Maybe
<1>4. QED BY <1>3

\* flush_cache as its comment has it: "when there are running or waiting requests, the
\* operation will not be performed".
FlushIdle ==
  flushes' # flushes /\ <<freeRows, kvFree, entries>>' # <<freeRows, kvFree, entries>>
    => waitingQueue = <<>> /\ InBatches = {}

\* The steps that leave both pools to their owners.
Quiet ==
  \/ BeginIteration \/ SkipPrefill \/ StartPrefill \/ AdmitOne \/ NothingAdmitted
  \/ \E r \in Req : HandleGenerate(r) \/ HandleAbort(r)
  \/ HandleFlush /\ UNCHANGED <<freeRows, kvFree, entries>>

LEMMA QuietSteady ==
  ASSUME ControlType, ControlInv, ControlType', ControlInv', Quiet
  PROVE  /\ Steady /\ UNCHANGED pools /\ phase' # "exited" /\ phase # "exited"
         /\ Owners' = Owners /\ Chain' = Chain /\ WithRow' = WithRow /\ (ChunkGoesOn => ChunkGoesOn')
<1>1. /\ UNCHANGED <<batches, finished, pools>> /\ phase # "exited" /\ phase' # "exited"
      /\ \/ phase \in {"recv", "handle"} /\ phase' = "handle"
         \/ phase \in {"prefill", "admit", "launch"} /\ phase' \in {"admit", "launch", "decode"}
      /\ SameTurn
  <2>1. CASE BeginIteration
    BY <2>1 DEF BeginIteration, SameTurn, Turn, batches, inputs, slots, requests
  <2>2. CASE SkipPrefill \/ StartPrefill \/ AdmitOne \/ NothingAdmitted
    BY <2>2 DEF SkipPrefill, StartPrefill, AdmitOne, NothingAdmitted, AdmittedAll, SameTurn, Turn,
                Newest, batches, inputs, slots, requests, pools
  <2>3. CASE \E r \in Req : HandleGenerate(r) \/ HandleAbort(r)
    BY <2>3 DEF HandleGenerate, HandleAbort, SameTurn, Turn, Newest, batches, slots, requests
  <2>4. CASE HandleFlush /\ UNCHANGED <<freeRows, kvFree, entries>>
    BY <2>4 DEF HandleFlush, SameTurn, Turn, Newest, batches, slots, requests, pools
  <2>5. QED BY <2>1, <2>2, <2>3, <2>4 DEF Quiet
<1>2. Steady BY <1>1 DEF Steady
<1>3. Owners' = Owners /\ Chain' = Chain /\ (ChunkGoesOn => ChunkGoesOn') BY <1>2, SteadyOwners
<1>4. phase' = "decode" => Chain = NoReq BY <1>3 DEF ControlInv, ChunkHeld
<1>5. WithRow' = WithRow
  <2>1. CASE phase \in {"recv", "handle"} BY <1>1, <1>3, <2>1 DEF WithRow, ChunkRowFreed
  <2>2. CASE phase' \in {"admit", "launch"} BY <1>1, <1>3, <2>2 DEF WithRow, ChunkRowFreed
  <2>3. CASE phase' = "decode"
    <3>1. Chain = NoReq /\ NoReq \notin Owners BY <1>4, <2>3, ReqAssumption DEF Owners
    <3>2. Owners \ {Chain} = Owners BY <3>1
    <3>3. WithRow = Owners BY <3>2 DEF WithRow
    <3>4. WithRow' = Owners BY <1>3, <2>3 DEF WithRow, ChunkRowFreed
    <3>5. QED BY <3>3, <3>4
  <2>4. QED BY <1>1, <2>1, <2>2, <2>3
<1>6. QED BY <1>1, <1>2, <1>3, <1>5

\* A flush that the comment allows finds no owner.
LEMMA FlushedIdle ==
  ASSUME ControlType, ControlInv, ControlType', ChunkGoesOn, HandleFlush, FlushIdle,
         flushes \in Nat, ~UNCHANGED <<freeRows, kvFree, entries>>
  PROVE  /\ Steady /\ phase = "handle" /\ phase' = "handle" /\ Owners = {} /\ Owners' = {}
         /\ Chain = NoReq /\ Chain' = NoReq /\ ChunkGoesOn'
         /\ freeRows' = [i \in 1 .. NumRows |-> i - 1] /\ kvFree' = KVSize /\ entries' = {}
         /\ UNCHANGED <<row, kvHeld, prefix, fill, outputs, finished>>
<1>1. /\ phase = "handle" /\ phase' = "handle" /\ cur' = cur /\ flushes' = flushes + 1
      /\ flushes < MaxFlush
      /\ UNCHANGED <<batches, row, kvHeld, prefix, fill, outputs, finished>>
      /\ freeRows' = [i \in 1 .. NumRows |-> i - 1] /\ kvFree' = KVSize /\ entries' = {}
  BY DEF HandleFlush, batches, slots, requests
<1>2. Steady BY <1>1 DEF Steady, SameTurn, Turn, Newest
<1>3. Owners' = Owners /\ Chain' = Chain /\ ChunkGoesOn' BY <1>2, SteadyOwners
<1>4. InBatches = Owners BY <1>1, BatchesOwners
<1>5. flushes' # flushes BY <1>1
<1>6. Owners = {} BY <1>4, <1>5 DEF FlushIdle
<1>7. Chain = NoReq BY <1>1, <1>6, ChainOwns
<1>8. QED BY <1>1, <1>2, <1>3, <1>6, <1>7

-----------------------------------------------------------------------------
\* The rows at the start, and after a flush.
LEMMA AllRowsFree ==
  LET free == [i \in 1 .. NumRows |-> i - 1] IN
  free \in Seq(Row) /\ IsInjective(free) /\ \A x \in Row : x \in ToSet(free)
<1> DEFINE free == [i \in 1 .. NumRows |-> i - 1]
<1>1. NumRows \in Nat \ {0} BY PoolAssumption
<1>2. \A i \in 1 .. NumRows : i - 1 \in Row BY <1>1 DEF Row
<1>3. \A x \in Row : x + 1 \in 1 .. NumRows /\ (x + 1) - 1 = x BY <1>1 DEF Row
<1>4. \A i, j \in 1 .. NumRows : i - 1 = j - 1 => i = j BY <1>1
<1>5. free \in Seq(Row) /\ DOMAIN free = 1 .. NumRows BY <1>1, <1>2
<1>6. QED BY <1>3, <1>4, <1>5 DEF ToSet, IsInjective

LEMMA RowsInit == Init => RowsInv
<1> SUFFICES ASSUME Init PROVE RowsInv OBVIOUS
<1>1. ControlType BY TypeInit
<1>2. /\ Launched \in [Slot -> Batch] /\ \A s \in Slot : Launched[s] = NoBatch /\ InSlot[s] = {}
      /\ Chain = NoReq
  <2>1. phase = "recv" /\ \A s \in Slot : lastBatch[s] = NoBatch /\ runningBatch[s] = <<>>
    BY DEF Init
  <2>2. \A s \in Slot : Launched[s] = NoBatch BY <2>1 DEF Launched
  <2>3. ToSet(<<>>) = {} BY DEF ToSet
  <2>4. \A s \in Slot : InSlot[s] = {} BY <2>1, <2>2, <2>3 DEF InSlot, Running, Fresh, NoBatch
  <2>5. Chain = NoReq BY <1>1, <2>2, Ages DEF Chain, NoBatch
  <2>6. QED BY <1>1, <2>2, <2>4, <2>5, Views
<1>3. ChunkGoesOn BY <1>2 DEF ChunkGoesOn, NoBatch
<1>4. Owners = {} BY <1>2, ReqAssumption DEF Owners
<1>5. WithRow = {} BY <1>4 DEF WithRow
<1>6. row \in [Req -> Row] BY PoolAssumption DEF Init, Row
<1>7. freeRows = [i \in 1 .. NumRows |-> i - 1] BY DEF Init
<1>8. RowsRight(freeRows, row, {}) BY <1>6, <1>7, AllRowsFree DEF RowsRight
<1>9. QED BY <1>3, <1>5, <1>8 DEF RowsInv

\* A chunked request that is taken over gives its row back.
LEMMA RowsTakenOver ==
  ASSUME ControlType, ControlType', ControlInv, RowsInv, MergeLastBatch \/ FetchChunked
  PROVE  RowsInv'
<1>1. /\ phase # "exited" /\ ChunkGoesOn /\ RowsRight(freeRows, row, WithRow) /\ row' = row
      /\ phase = "fetch" \/ phase = "handle"
  BY DEF RowsInv, MergeLastBatch, FetchChunked
<1>2. IF Chain = NoReq THEN Owners \ {Chain} = Owners ELSE Chain \in Owners BY <1>1, ChainOwns
<1>3. CASE MergeLastBatch
  <2>1. phase = "handle" /\ phase' = "fetch" BY <1>3 DEF MergeLastBatch
  <2>2. Owners' = Owners /\ Chain' = Chain /\ ChunkGoesOn' BY <1>1, <1>3, MergeOwners
  <2>3. WithRow = Owners BY <2>1 DEF WithRow, ChunkRowFreed
  <2>4. CASE P = 1 /\ Chain # NoReq
    <3>1. freeRows' = Append(freeRows, row[Chain]) BY <1>3, <2>4, MergeFrees DEF FreesChainRow
    <3>2. WithRow' = Owners \ {Chain} BY <2>1, <2>2, <2>4 DEF WithRow, ChunkRowFreed
    <3>3. RowsRight(freeRows', row', WithRow') BY <1>1, <1>2, <2>3, <2>4, <3>1, <3>2, RowReleased
    <3>4. QED BY <2>2, <3>3 DEF RowsInv
  <2>5. CASE ~(P = 1 /\ Chain # NoReq)
    <3>1. freeRows' = freeRows BY <1>3, <2>5, MergeFrees
    <3>2. WithRow' = Owners BY <1>2, <2>1, <2>2, <2>5 DEF WithRow, ChunkRowFreed
    <3>3. QED BY <1>1, <2>2, <2>3, <3>1, <3>2 DEF RowsInv
  <2>6. QED BY <2>4, <2>5
<1>4. CASE FetchChunked
  <2>1. /\ phase = "fetch" /\ phase' = "prefill" /\ Steady
    BY <1>4 DEF FetchChunked, Steady, batches, SameTurn, Turn, Newest
  <2>2. Owners' = Owners /\ Chain' = Chain /\ ChunkGoesOn' BY <1>1, <2>1, SteadyOwners
  <2>3. WithRow' = Owners \ {Chain} BY <2>1, <2>2 DEF WithRow, ChunkRowFreed
  <2>4. CASE P # 1 /\ Chain # NoReq
    <3>1. freeRows' = Append(freeRows, row[Chain]) BY <1>4, <2>4, FetchFrees DEF FreesChainRow
    <3>2. WithRow = Owners BY <2>1, <2>4 DEF WithRow, ChunkRowFreed
    <3>3. RowsRight(freeRows', row', WithRow') BY <1>1, <1>2, <2>3, <2>4, <3>1, <3>2, RowReleased
    <3>4. QED BY <2>2, <3>3 DEF RowsInv
  <2>5. CASE ~(P # 1 /\ Chain # NoReq)
    <3>1. freeRows' = freeRows BY <1>4, <2>5, FetchFrees
    <3>2. WithRow' = WithRow BY <1>2, <2>1, <2>3, <2>5 DEF WithRow, ChunkRowFreed
    <3>3. QED BY <1>1, <2>2, <3>1, <3>2 DEF RowsInv
  <2>6. QED BY <2>4, <2>5
<1>5. QED BY <1>3, <1>4

\* A prefill gives each admitted request a row.
LEMMA RowsPrefill ==
  ASSUME ControlType, ControlType', ControlInv, RowsInv, LaunchPrefill
  PROVE  RowsInv'
<1> DEFINE run == adder.canRun
           given == [r \in Req |-> GivenRow(freeRows, row, run, r)]
<1>1. PrefillDealt /\ Launches BY PrefillDeals, PrefillLaunches
<1>2. /\ phase \in {"admit", "launch"} /\ run \in Seq(Req) /\ IsInjective(run)
      /\ ToSet(run) \subseteq Req /\ \A r : Contains(run, r) <=> r \in ToSet(run)
  BY <1>1 DEF PrefillDealt
<1>3. /\ ChunkGoesOn /\ RowsRight(freeRows, row, Owners \ {Chain})
  BY <1>2 DEF RowsInv, WithRow, ChunkRowFreed
<1>4. ChunkGoesOn' BY <1>1, <1>3, LaunchChunks
<1>5. /\ Owners' = (Owners \ {Chain}) \cup ToSet(run) /\ ToSet(run) \cap (Owners \ {Chain}) = {}
  BY PrefillOwners
<1>6. phase' = "process" /\ WithRow' = Owners' BY <1>1 DEF WithRow, ChunkRowFreed, Launches
<1>7. ~LaunchFails /\ freeRows' = SubSeq(freeRows, Len(run) + 1, Len(freeRows))
  BY DEF LaunchPrefill
<1>8. Len(run) <= Len(freeRows)
  <2>1. freeRows \in Seq(Row) BY <1>3 DEF RowsRight
  <2>2. Len(run) \in Nat /\ Len(freeRows) \in Nat BY <1>2, <2>1
  <2>3. QED BY <1>7, <2>2 DEF LaunchFails
<1>9. row' = given
  <2> DEFINE rowOf == [r \in ToSet(run) |-> freeRows[CHOOSE i \in DOMAIN run : run[i] = r]]
  <2>1. row' = [r \in Req |-> IF Contains(run, r) THEN rowOf[r] ELSE row[r]] BY DEF LaunchPrefill
  <2>2. \A r \in Req : row'[r] = GivenRow(freeRows, row, run, r)
    <3> TAKE r \in Req
    <3>1. CASE r \in ToSet(run) BY <1>2, <2>1, <3>1 DEF GivenRow
    <3>2. CASE r \notin ToSet(run) BY <1>2, <2>1, <3>2 DEF GivenRow
    <3>3. QED BY <3>1, <3>2
  <2>3. QED BY <2>1, <2>2
<1> HIDE DEF run
<1>10. RowsRight(SubSeq(freeRows, Len(run) + 1, Len(freeRows)), given, (Owners \ {Chain}) \cup ToSet(run))
  <2> DEFINE S == Owners \ {Chain}
  <2>1. RowsRight(freeRows, row, S) /\ ToSet(run) \cap S = {} BY <1>3, <1>5
  <2> HIDE DEF S
  <2>2. RowsRight(SubSeq(freeRows, Len(run) + 1, Len(freeRows)), given, S \cup ToSet(run))
    BY <1>2, <1>8, <2>1, RowsGiven
  <2>3. QED BY <2>2 DEF S
<1> HIDE DEF given
<1>11. RowsRight(freeRows', row', WithRow') BY <1>5, <1>6, <1>7, <1>9, <1>10
<1>12. QED BY <1>4, <1>11 DEF RowsInv

\* A decode step frees the rows of the requests it retracts.
LEMMA RowsDecode ==
  ASSUME ControlType, ControlType', ControlInv, RowsInv, DecodeRunning \/ NothingToRun
  PROVE  RowsInv'
<1>1. phase = "decode" /\ phase' = "process" /\ row' = row
  BY DEF DecodeRunning, NothingToRun, pools
<1>2. ChunkGoesOn /\ RowsRight(freeRows, row, Owners)
  BY <1>1 DEF RowsInv, WithRow, ChunkRowFreed
<1>3. ChunkGoesOn' BY <1>2, LaunchChunks, DecodeLaunches, IdleLaunches
<1>4. WithRow' = Owners' BY <1>1 DEF WithRow, ChunkRowFreed
<1>5. CASE DecodeRunning
  <2> DEFINE out == Retracted(Unfinished(runningBatch[cur]))
  <2>1. out \in Seq(Req) /\ IsInjective(out) BY <1>5, DecodeDeals DEF DecodeDealt
  <2>2. ToSet(out) \subseteq Owners /\ Owners' = Owners \ ToSet(out)
    <3>1. ToSet(out) \subseteq ToSet(Unfinished(runningBatch[cur]))
      BY <1>5, DecodeDeals DEF DecodeDealt
    <3>2. QED BY <1>5, <3>1, DecodeOwners
  <2>3. freeRows' = freeRows \o [i \in DOMAIN out |-> row[out[i]]] BY <1>5 DEF DecodeRunning
  <2> HIDE DEF out
  <2>4. RowsRight(freeRows', row', WithRow') BY <1>1, <1>2, <1>4, <2>1, <2>2, <2>3, RowsReleased
  <2>5. QED BY <1>3, <2>4 DEF RowsInv
<1>6. CASE NothingToRun
  <2>1. Owners' = Owners /\ freeRows' = freeRows BY <1>6, IdleOwners DEF NothingToRun, pools
  <2>2. QED BY <1>1, <1>2, <1>3, <1>4, <2>1 DEF RowsInv
<1>7. QED BY <1>5, <1>6

\* The requests that end with a result.
Ended == finished' \ finished

EndsInOrder(inOrder) ==
  /\ IsInjective(inOrder) /\ ToSet(inOrder) = Ended /\ Ended \subseteq Whole(Launched[NextTurn])
  /\ freeRows' = freeRows \o [i \in DOMAIN inOrder |-> row[inOrder[i]]]
  /\ kvFree' = kvFree + SumFunctionOnSet([r \in Req |-> FinishedLen(r)], Ended)
  /\ kvHeld' = [r \in Req |-> IF r \in Ended THEN kvHeld[r] - FinishedLen(r) ELSE kvHeld[r]]
  /\ \E cached \in SUBSET (Whole(Launched[NextTurn]) \ Ended) :
       /\ entries' = (entries \ Ended) \cup cached
       /\ prefix' = [r \in Req |-> IF r \in cached THEN fill[r] ELSE prefix[r]]

LEMMA EndedInOrder ==
  ASSUME ControlType, ControlInv, ApplyResult
  PROVE  \E inOrder \in Seq(Req) : EndsInOrder(inOrder)
<1> DEFINE b == Launched[NextTurn]
           sampled == Sampled(ResultOf)
           certain == {r \in sampled : r \in finished \cup toAbort \/ outputs[r] + 1 >= MaxNew[r]}
<1>1. phase = "process" BY DEF ApplyResult
<1>2. /\ ResultOf = b /\ sampled = Whole(b) /\ NextTurn \in Slot /\ NextTurn \in Awaited
  BY <1>1, SampledWhole
<1>3. b.reqs \in Seq(Req) /\ IsInjective(b.reqs) /\ Whole(b) \subseteq ToSet(b.reqs)
      /\ ToSet(b.reqs) \subseteq Req /\ ToSet(b.reqs) \cap finished = {}
  BY <1>1, <1>2, Views DEF ControlInv, BatchShape, Unended, Batch, Whole
<1>4. PICK stopped \in SUBSET (IF EarlyStop THEN sampled ELSE {}) :
        LET ended   == certain \cup stopped
            inOrder == Without(ResultOf.reqs, Req \ ended)
            cached  == IF ResultOf.mode = "extend" THEN (sampled \ ended) \ ResultOf.decoding ELSE {}
        IN /\ finished' = finished \cup ended
           /\ freeRows' = freeRows \o [i \in DOMAIN inOrder |-> row[inOrder[i]]]
           /\ kvFree' = kvFree + SumFunctionOnSet([r \in Req |-> FinishedLen(r)], ended)
           /\ kvHeld' = [r \in Req |-> IF r \in ended THEN kvHeld[r] - FinishedLen(r) ELSE kvHeld[r]]
           /\ entries' = (entries \ ended) \cup cached
           /\ prefix' = [r \in Req |-> IF r \in cached THEN fill[r] ELSE prefix[r]]
  BY DEF ApplyResult
<1> DEFINE ended   == certain \cup stopped
           inOrder == Without(b.reqs, Req \ ended)
           cached  == IF b.mode = "extend" THEN (sampled \ ended) \ b.decoding ELSE {}
<1>5. ended \subseteq sampled OBVIOUS
<1>6. /\ finished' = finished \cup ended
      /\ freeRows' = freeRows \o [i \in DOMAIN inOrder |-> row[inOrder[i]]]
      /\ kvFree' = kvFree + SumFunctionOnSet([r \in Req |-> FinishedLen(r)], ended)
      /\ kvHeld' = [r \in Req |-> IF r \in ended THEN kvHeld[r] - FinishedLen(r) ELSE kvHeld[r]]
      /\ entries' = (entries \ ended) \cup cached
      /\ prefix' = [r \in Req |-> IF r \in cached THEN fill[r] ELSE prefix[r]]
  BY <1>2, <1>4
<1>7. cached \subseteq sampled \ ended OBVIOUS
<1> HIDE DEF ended, b, sampled, cached
<1>8. Ended = ended /\ ended \subseteq ToSet(b.reqs) BY <1>2, <1>3, <1>5, <1>6 DEF Ended
<1>9. inOrder \in Seq(Req) /\ IsInjective(inOrder) /\ ToSet(inOrder) = ToSet(b.reqs) \ (Req \ ended)
  BY <1>3, WithoutElements
<1> HIDE DEF inOrder
<1>10. ToSet(inOrder) = ended BY <1>3, <1>8, <1>9
<1>11. cached \in SUBSET (Whole(b) \ Ended) BY <1>2, <1>7, <1>8
<1>12. QED
  <2>1. \E c \in SUBSET (Whole(b) \ Ended) :
          /\ entries' = (entries \ Ended) \cup c
          /\ prefix' = [r \in Req |-> IF r \in c THEN fill[r] ELSE prefix[r]]
    BY <1>6, <1>8, <1>11
  <2>2. EndsInOrder(inOrder)
    BY <1>2, <1>5, <1>6, <1>8, <1>9, <1>10, <2>1 DEF EndsInOrder, b
  <2>3. QED BY <1>9, <2>2

\* A result frees the rows of the requests that end.
LEMMA RowsResult ==
  ASSUME ControlType, ControlType', ControlInv, RowsInv, ApplyResult
  PROVE  RowsInv'
<1>1. phase = "process" /\ phase' = "recv" /\ row' = row BY DEF ApplyResult
<1>2. ChunkGoesOn /\ RowsRight(freeRows, row, Owners)
  BY <1>1 DEF RowsInv, WithRow, ChunkRowFreed
<1>3. /\ Owners' = Owners \ Ended /\ ChunkGoesOn' /\ Whole(Launched[NextTurn]) \subseteq Owners
  BY <1>2, ResultOwners DEF Ended
<1>4. PICK inOrder \in Seq(Req) :
        /\ IsInjective(inOrder) /\ ToSet(inOrder) = Ended /\ Ended \subseteq Whole(Launched[NextTurn])
        /\ freeRows' = freeRows \o [i \in DOMAIN inOrder |-> row[inOrder[i]]]
  BY EndedInOrder DEF EndsInOrder
<1>5. ToSet(inOrder) \subseteq Owners BY <1>3, <1>4
<1>6. RowsRight(freeRows \o [i \in DOMAIN inOrder |-> row[inOrder[i]]], row, Owners \ ToSet(inOrder))
  BY <1>2, <1>4, <1>5, RowsReleased
<1>7. WithRow' = Owners' BY <1>1 DEF WithRow, ChunkRowFreed
<1>8. RowsRight(freeRows', row', WithRow') BY <1>1, <1>3, <1>4, <1>6, <1>7
<1>9. QED BY <1>3, <1>8 DEF RowsInv

LEMMA RowsStep ==
  ASSUME ControlType, ControlType', ControlInv, ControlInv', RowsInv, flushes \in Nat,
         [Next]_vars, [FlushIdle]_vars
  PROVE  RowsInv'
<1>1. CASE Quiet
  <2>1. /\ UNCHANGED pools /\ phase # "exited" /\ WithRow' = WithRow /\ (ChunkGoesOn => ChunkGoesOn')
    BY <1>1, QuietSteady
  <2>2. QED BY <2>1 DEF RowsInv, pools
<1>2. CASE HandleFlush /\ ~UNCHANGED <<freeRows, kvFree, entries>>
  <2>1. FlushIdle BY <1>2 DEF vars, pools
  <2>2. phase # "exited" BY <1>2 DEF HandleFlush
  <2>3. ChunkGoesOn /\ RowsRight(freeRows, row, WithRow) BY <2>2 DEF RowsInv
  <2>4. /\ Owners' = {} /\ ChunkGoesOn' /\ row' = row
        /\ freeRows' = [i \in 1 .. NumRows |-> i - 1]
    BY <1>2, <2>1, <2>3, FlushedIdle
  <2>5. WithRow' = {} BY <2>4 DEF WithRow
  <2>6. RowsRight(freeRows', row', {}) BY <2>3, <2>4, AllRowsFree DEF RowsRight
  <2>7. QED BY <2>4, <2>5, <2>6 DEF RowsInv
<1>3. CASE MergeLastBatch \/ FetchChunked BY <1>3, RowsTakenOver
<1>4. CASE LaunchPrefill BY <1>4, RowsPrefill
<1>5. CASE DecodeRunning \/ NothingToRun BY <1>5, RowsDecode
<1>6. CASE ApplyResult BY <1>6, RowsResult
<1>7. CASE ExitOnPrefill \/ ExitOnDecode BY <1>7 DEF ExitOnPrefill, ExitOnDecode, RowsInv
<1>8. CASE UNCHANGED vars
  <2>1. UNCHANGED <<phase, cur, batch, runningBatch, lastBatch, finished, freeRows, row>>
    BY <1>8 DEF vars, slots, requests, pools
  <2>2. /\ Newest' = Newest /\ Age' = Age /\ Launched' = Launched /\ Joined' = Joined /\ Running' = Running
    BY <2>1 DEF Newest, Age, Launched, Joined, Running
  <2>3. Fresh' = Fresh /\ Chain' = Chain BY <2>2 DEF Fresh, Chain
  <2>4. InSlot' = InSlot BY <2>2, <2>3 DEF InSlot
  <2>5. Owners' = Owners BY <2>1, <2>3, <2>4 DEF Owners
  <2>6. QED BY <2>1, <2>2, <2>3, <2>4, <2>5 DEF RowsInv, ChunkGoesOn, WithRow, ChunkRowFreed
<1>9. QED BY <1>1, <1>2, <1>3, <1>4, <1>5, <1>6, <1>7, <1>8 DEF Next, Iterate, Receive, Quiet

\* What the run checks between iterations.
LEMMA RowsFollow ==
  ASSUME ControlType, ControlInv, RowsInv
  PROVE  RowsAccounted
<1> SUFFICES ASSUME phase = "recv"
             PROVE  LET held == {row[r] : r \in InBatches} IN
                    /\ IsInjective(freeRows)
                    /\ Cardinality(held) = Cardinality(InBatches)
                    /\ held = Row \ ToSet(freeRows)
  BY DEF RowsAccounted
<1> DEFINE held == {row[r] : r \in InBatches}
<1>1. ChunkGoesOn /\ RowsRight(freeRows, row, Owners) BY DEF RowsInv, WithRow, ChunkRowFreed
<1>2. InBatches = Owners BY <1>1, BatchesOwners
<1>3. /\ InBatches \subseteq Req /\ row \in [Req -> Row] /\ IsInjective(freeRows)
      /\ \A q, r \in InBatches : row[q] = row[r] => q = r
      /\ \A x \in Row : x \in ToSet(freeRows) <=> ~ \E r \in InBatches : row[r] = x
  BY <1>1, <1>2 DEF RowsRight
<1>4. \A x : x \in held <=> \E r \in InBatches : row[r] = x OBVIOUS
<1>5. \A r \in InBatches : row[r] \in Row BY <1>3
<1>6. held = Row \ ToSet(freeRows) BY <1>3, <1>4, <1>5
<1>7. Cardinality(held) = Cardinality(InBatches)
  <2> DEFINE f == [r \in InBatches |-> row[r]]
  <2>1. f \in [InBatches -> held] BY <1>4
  <2>2. f \in Surjection(InBatches, held) BY <1>4, <2>1 DEF Surjection
  <2>3. \A q, r \in InBatches : f[q] = f[r] => q = r BY <1>3
  <2> HIDE DEF f, held
  <2>4. f \in Injection(InBatches, held) BY <2>1, <2>3 DEF Injection, IsInjective
  <2>5. IsFiniteSet(InBatches) BY <1>3, RequestsFinite
  <2>6. QED BY <2>2, <2>4, <2>5, FS_Surjection
<1>8. QED BY <1>3, <1>6, <1>7

LEMMA FlushesCounted == SafeSpec => [](flushes \in Nat)
<1>1. Init => flushes \in Nat BY DEF Init
<1>2. flushes \in Nat /\ [Next]_vars => (flushes \in Nat)'
  <2> SUFFICES ASSUME flushes \in Nat, [Next]_vars PROVE flushes' \in Nat OBVIOUS
  <2>1. CASE HandleFlush BY <2>1 DEF HandleFlush
  <2>2. CASE Iterate
    BY <2>2 DEF Iterate, BeginIteration, MergeLastBatch, FetchChunked, SkipPrefill, StartPrefill,
                AdmitOne, NothingAdmitted, LaunchPrefill, ExitOnPrefill, DecodeRunning,
                NothingToRun, ExitOnDecode, ApplyResult, inputs
  <2>3. CASE \E r \in Req : HandleGenerate(r) \/ HandleAbort(r)
    BY <2>3 DEF HandleGenerate, HandleAbort
  <2>4. CASE UNCHANGED vars BY <2>4 DEF vars, inputs
  <2>5. QED BY <2>1, <2>2, <2>3, <2>4 DEF Next, Receive
<1>3. QED BY <1>1, <1>2, PTL DEF SafeSpec

\* Rows are neither lost, freed twice nor shared, whichever slots a request passes through:
\* provided flush_cache is as its comment has it.
THEOREM RowsAccountedHolds ==
  SafeSpec /\ []SlotHasRoom /\ FlushOnlyWhenIdle => []RowsAccounted
<1>1. Init => RowsInv BY RowsInit
<1>2. /\ ControlType /\ ControlInv /\ (ControlType /\ ControlInv)' /\ RowsInv /\ flushes \in Nat
      /\ [Next]_vars /\ [FlushIdle]_vars
      => RowsInv'
  BY RowsStep
<1>3. FlushOnlyWhenIdle => [][FlushIdle]_vars BY DEF FlushOnlyWhenIdle, FlushIdle
<1>4. ControlType /\ ControlInv /\ RowsInv => RowsAccounted BY RowsFollow
<1>5. QED BY <1>1, <1>2, <1>3, <1>4, ControlHolds, FlushesCounted, PTL DEF SafeSpec

-----------------------------------------------------------------------------
\* The requests whose next token is awaited; the others have a last token without KV slot.
Due == {r \in Req : \E s \in Awaited : r \in Whole(Launched[s])}

\* What a request holds: its prompt and output so far, or the part of it that is computed.
HeldRight ==
  /\ \A r \in Req \ Owners : kvHeld[r] = 0
  /\ \A r \in Owners \ {Chain} :
       /\ kvHeld[r] = Prompt[r] + outputs[r] - (IF r \in Due THEN 0 ELSE 1)
       /\ r \in Due \/ outputs[r] >= 1
  /\ Chain # NoReq => /\ kvHeld[Chain] >= 1
                      /\ kvHeld[Chain] = IF ChunkRowFreed THEN prefix[Chain] ELSE fill[Chain]

\* What the adder has admitted: only the request of which it takes a chunk is not prefilled
\* to its end.
Taken ==
  phase \in {"admit", "launch"} =>
    /\ phase = "admit" => adder.remChunk \in Nat /\ adder.newChunked = NoReq
    /\ \A r \in ToSet(adder.canRun) :
         /\ prefix[r] = kvHeld[r] /\ fill[r] >= 1
         /\ r \in {adder.newChunked, beingChunkedReq[cur]} \/ fill[r] = FullLen(r)

KVSum ==
  /\ kvFree \in Int /\ kvHeld \in [Req -> Int]
  /\ kvFree + SumFunctionOnSet(kvHeld, Req) = KVSize

LenType == fill \in [Req -> Int] /\ prefix \in [Req -> Int] /\ entries \subseteq Owners

KVInv == KVSum /\ (phase # "exited" => LenType /\ HeldRight /\ Taken)

LEMMA LenTypes ==
  ASSUME ControlType
  PROVE  \A r \in Req : /\ Prompt[r] \in Nat \ {0} /\ outputs[r] \in Nat
                        /\ FullLen(r) \in Nat \ {0} /\ SeqLen(r) \in Nat /\ FinishedLen(r) \in Nat
<1> TAKE r \in Req
<1>1. Prompt[r] \in Nat \ {0} /\ outputs[r] \in Nat BY LengthAssumption DEF ControlType
<1>2. QED BY <1>1 DEF FullLen, SeqLen, FinishedLen

\* The sum stays when A takes, or gives back, what d says.
LEMMA SumStays ==
  ASSUME KVSum, NEW A \in SUBSET Req, NEW d \in [Req -> Int],
         NEW held \in [Req -> Int], NEW free,
         \A r \in Req : held[r] = kvHeld[r] + (IF r \in A THEN d[r] ELSE 0),
         free = kvFree - SumFunctionOnSet(d, A)
  PROVE  free \in Int /\ free + SumFunctionOnSet(held, Req) = KVSize
<1>1. Added(Req, kvHeld, d, A, held) BY ReqAssumption DEF Added, KVSum
<1>2. /\ SumFunctionOnSet(held, Req) = SumFunctionOnSet(kvHeld, Req) + SumFunctionOnSet(d, A)
      /\ SumFunctionOnSet(kvHeld, Req) \in Int /\ SumFunctionOnSet(d, A) \in Int
  BY <1>1, SumOfAdded
<1>3. KVSize \in Nat BY PoolAssumption
<1>4. QED BY <1>2, <1>3 DEF KVSum

\* Nothing held, nothing to sum.
LEMMA SumOfZeros ==
  ASSUME NEW f \in [Req -> Int], \A r \in Req : f[r] = 0
  PROVE  SumFunctionOnSet(f, Req) = 0
<1>1. Added(Req, f, f, Req, f) BY ReqAssumption DEF Added
<1>2. /\ SumFunctionOnSet(f, Req) = SumFunctionOnSet(f, Req) + SumFunctionOnSet(f, Req)
      /\ SumFunctionOnSet(f, Req) \in Int
  BY <1>1, SumOfAdded
<1> DEFINE sum == SumFunctionOnSet(f, Req)
<1> HIDE DEF sum
<1>3. sum = sum + sum /\ sum \in Int BY <1>2 DEF sum
<1>4. sum = 0 BY <1>3
<1>5. QED BY <1>4 DEF sum

\* Who is due: a launch adds its batch, a result takes one away.
LEMMA DueLaunch ==
  ASSUME ControlType, ControlType', ControlInv, Launches
  PROVE  Due' = Due \cup Whole(batch') /\ Due \cap Running[cur] = {}
<1>1. /\ cur \in Slot /\ Joined = {cur} /\ Awaited = Slot \ {cur} /\ Awaited' = Slot
      /\ Launched'[cur] = batch' /\ \A s \in Slot \ {cur} : Launched'[s] = Launched[s]
      /\ InSlot[cur] = Running[cur] /\ phase # "exited"
  BY LaunchViews DEF Launches, Turn
<1>2. batch' \in Batch /\ Whole(batch') \subseteq Req
  <2>1. batch' \in Batch BY DEF ControlType
  <2>2. QED BY <2>1, Views DEF Whole
<1>3. Due' = {r \in Req : \E s \in Slot : r \in Whole(Launched'[s])} BY <1>1 DEF Due, Whole
<1>4. \A r \in Req : (\E s \in Slot : r \in Whole(Launched'[s]))
                       <=> (r \in Whole(batch') \/ \E s \in Slot \ {cur} : r \in Whole(Launched[s]))
  BY <1>1
<1>5. Due' = Due \cup Whole(batch') BY <1>1, <1>2, <1>3, <1>4 DEF Due
<1>6. \A s \in Slot \ {cur} : Whole(Launched[s]) \subseteq InSlot[s] BY <1>1, WholeInSlot
<1>7. \A s \in Slot \ {cur} : InSlot[s] \cap InSlot[cur] = {}
  BY <1>1 DEF ControlInv, Exclusive
<1>8. Due \cap Running[cur] = {} BY <1>1, <1>6, <1>7 DEF Due
<1>9. QED BY <1>5, <1>8

LEMMA DueResult ==
  ASSUME ControlType, ControlType', ControlInv, ApplyResult
  PROVE  /\ Due' = Due \ Whole(Launched[NextTurn]) /\ Whole(Launched[NextTurn]) \subseteq Due
         /\ Chain \notin Whole(Launched[NextTurn])
<1> DEFINE b == Launched[NextTurn]
<1>1. phase = "process" BY DEF ApplyResult
<1>2. /\ NextTurn \in Slot /\ Awaited = Slot /\ \A s \in Slot : Whole(Launched[s]) \subseteq InSlot[s]
  BY <1>1, SampledWhole
<1>3. Launched' = Launched /\ Awaited' = Slot \ {NextTurn} BY ApplyResults, ResultViews
<1>4. /\ \A s, t \in Slot : s # t => InSlot[s] \cap InSlot[t] = {}
      /\ Chain \notin InSlot[NextTurn]
  BY <1>1, <1>2 DEF ControlInv, Exclusive
<1>5. InSlot[NextTurn] \subseteq Req BY <1>2, Views
<1>6. \A s \in Slot \ {NextTurn} : Whole(Launched[s]) \cap Whole(b) = {} BY <1>2, <1>4
<1>7. Due' = {r \in Req : \E s \in Slot \ {NextTurn} : r \in Whole(Launched[s])}
  BY <1>3 DEF Due, Whole
<1>8. Due' = Due \ Whole(b) BY <1>2, <1>6, <1>7 DEF Due
<1>9. QED BY <1>2, <1>4, <1>5, <1>8 DEF Due

LEMMA DueSteady ==
  ASSUME ControlType, ControlType', Steady
  PROVE  Due' = Due
BY SteadyViews DEF Steady, Due, Whole

-----------------------------------------------------------------------------
\* A step that changes no place, no output and nothing that is held.
LEMMA HeldStays ==
  ASSUME HeldRight, Owners' = Owners, Chain' = Chain, Due' = Due, UNCHANGED <<kvHeld, outputs>>,
         Chain # NoReq => kvHeld[Chain] = IF ChunkRowFreed' THEN prefix'[Chain] ELSE fill'[Chain]
  PROVE  HeldRight'
BY DEF HeldRight

LEMMA KVInit == Init => KVInv
<1> SUFFICES ASSUME Init PROVE KVInv OBVIOUS
<1>1. ControlType BY TypeInit
<1>2. Chain = NoReq /\ Owners = {}
  <2>1. phase = "recv" /\ \A s \in Slot : lastBatch[s] = NoBatch /\ runningBatch[s] = <<>>
    BY DEF Init
  <2>2. \A s \in Slot : Launched[s] = NoBatch BY <2>1 DEF Launched
  <2>3. ToSet(<<>>) = {} BY DEF ToSet
  <2>4. \A s \in Slot : InSlot[s] = {} BY <2>1, <2>2, <2>3 DEF InSlot, Running, Fresh, NoBatch
  <2>5. Chain = NoReq BY <1>1, <2>2, Ages DEF Chain, NoBatch
  <2>6. QED BY <2>4, <2>5, ReqAssumption DEF Owners
<1>3. /\ kvFree = KVSize /\ kvHeld \in [Req -> Int] /\ fill \in [Req -> Int] /\ prefix \in [Req -> Int]
      /\ entries = {} /\ phase = "recv" /\ \A r \in Req : kvHeld[r] = 0
  BY DEF Init
<1>4. SumFunctionOnSet(kvHeld, Req) = 0 BY <1>3, SumOfZeros
<1>5. KVSum BY <1>3, <1>4, PoolAssumption DEF KVSum
<1>6. LenType /\ HeldRight /\ Taken BY <1>2, <1>3 DEF LenType, HeldRight, Taken
<1>7. QED BY <1>5, <1>6 DEF KVInv

\* The quiet steps but those of the adder.
LEMMA KVQuiet ==
  ASSUME ControlType, ControlType', ControlInv, ControlInv', KVInv, Quiet, ~StartPrefill, ~AdmitOne
  PROVE  KVInv'
<1>1. /\ Steady /\ UNCHANGED pools /\ phase' # "exited" /\ phase # "exited"
      /\ Owners' = Owners /\ Chain' = Chain /\ Due' = Due
  BY QuietSteady, DueSteady
<1>2. UNCHANGED <<kvFree, kvHeld, entries>> BY <1>1 DEF pools
<1>3. /\ UNCHANGED <<fill, prefix, outputs>>
      /\ \/ phase \in {"recv", "handle"} /\ phase' = "handle"
         \/ phase' = "decode"
  BY DEF Quiet, BeginIteration, SkipPrefill, NothingAdmitted, HandleGenerate, HandleAbort,
         HandleFlush, requests
<1>4. phase' = "decode" => Chain = NoReq BY <1>1 DEF ControlInv, ChunkHeld
<1>5. HeldRight /\ LenType /\ KVSum BY <1>1 DEF KVInv
<1>6. Chain # NoReq => kvHeld[Chain] = IF ChunkRowFreed' THEN prefix'[Chain] ELSE fill'[Chain]
  BY <1>3, <1>4, <1>5 DEF HeldRight, ChunkRowFreed
<1>7. HeldRight' BY <1>1, <1>2, <1>3, <1>5, <1>6, HeldStays
<1>8. KVSum' /\ LenType' /\ Taken' BY <1>1, <1>2, <1>3, <1>5 DEF KVSum, LenType, Taken
<1>9. QED BY <1>7, <1>8 DEF KVInv

\* The chunked request, of which the adder takes all that is left or a chunk.
LEMMA KVStart ==
  ASSUME ControlType, ControlType', ControlInv, ControlInv', KVInv, StartPrefill
  PROVE  KVInv'
<1> DEFINE c == beingChunkedReq[cur]
<1>1. /\ Steady /\ UNCHANGED pools /\ phase' # "exited" /\ phase # "exited"
      /\ Owners' = Owners /\ Chain' = Chain /\ Due' = Due
  BY QuietSteady, DueSteady DEF Quiet
<1>2. UNCHANGED <<kvFree, kvHeld, entries, prefix, outputs>> /\ phase = "prefill" /\ phase' = "admit"
      /\ Len(runningBatch[cur]) < MaxRunning /\ cur \in Slot
  BY <1>1 DEF StartPrefill, pools, ControlType
<1>3. HeldRight /\ LenType /\ KVSum /\ c = Chain BY <1>1, <1>2 DEF KVInv, ControlInv, ChunkHeld
<1>4. PICK ratio \in Ratios :
        LET a         == NewAdder(ratio)
            rest      == FullLen(c) - prefix[c]
            truncated == rest > a.remChunk
            extend    == IF truncated THEN a.remChunk ELSE rest
        IN IF c = NoReq
           THEN adder' = a /\ UNCHANGED <<beingChunkedReq, fill>>
           ELSE /\ adder' = Charge(a, c, extend, IF truncated THEN 0 ELSE MaxNew[c])
                /\ fill' = [fill EXCEPT ![c] = prefix[c] + extend]
                /\ beingChunkedReq' = IF truncated THEN beingChunkedReq
                                      ELSE [beingChunkedReq EXCEPT ![cur] = NoReq]
  BY DEF StartPrefill
<1> DEFINE a      == NewAdder(ratio)
           rest   == FullLen(c) - prefix[c]
           extend == IF rest > a.remChunk THEN a.remChunk ELSE rest
<1>5. /\ IsAdder(a) /\ a.canRun = <<>> /\ a.newChunked = NoReq
      /\ a.remChunk = ChunkSize - (IF Mixed THEN Len(runningBatch[cur]) ELSE 0)
  BY FreshAdder
<1>6. a.remChunk \in Nat \ {0}
  <2>1. runningBatch[cur] \in Seq(Req) BY <1>2 DEF ControlType
  <2>2. PICK n \in Nat : n = Len(runningBatch[cur]) /\ n < MaxRunning BY <1>2, <2>1
  <2>3. MaxRunning \in Nat /\ ChunkSize \in Nat \ {0} /\ (Mixed => ChunkSize >= MaxRunning)
    BY MaxRunningNat, ChunkAssumption
  <2>4. QED BY <1>5, <2>2, <2>3
<1> HIDE DEF a
<1>7. CASE c = NoReq
  <2>1. adder' = a /\ UNCHANGED <<beingChunkedReq, fill>> BY <1>4, <1>7 DEF a
  <2>2. ToSet(<<>>) = {} BY DEF ToSet
  <2>3. Taken' BY <1>2, <1>5, <1>6, <2>1, <2>2 DEF Taken
  <2>4. HeldRight' BY <1>1, <1>2, <1>3, <1>7, HeldStays
  <2>5. KVSum' /\ LenType' BY <1>1, <1>2, <1>3, <2>1 DEF KVSum, LenType
  <2>6. QED BY <2>3, <2>4, <2>5 DEF KVInv
<1>8. CASE c # NoReq
  <2>1. /\ adder' = Charge(a, c, extend, IF rest > a.remChunk THEN 0 ELSE MaxNew[c])
        /\ fill' = [fill EXCEPT ![c] = prefix[c] + extend]
        /\ beingChunkedReq' = IF rest > a.remChunk THEN beingChunkedReq
                              ELSE [beingChunkedReq EXCEPT ![cur] = NoReq]
    BY <1>4, <1>8 DEF a
  <2>2. c \in Req /\ prefix[c] \in Int /\ FullLen(c) \in Nat \ {0} /\ fill \in [Req -> Int]
    <3>1. c \in Maybe BY <1>2 DEF ControlType
    <3>2. c \in Req BY <1>8, <3>1 DEF Maybe
    <3>3. QED BY <1>3, <3>2, LenTypes DEF LenType
  <2>3. rest \in Int /\ extend \in Int /\ extend <= a.remChunk /\ prefix[c] + rest = FullLen(c)
    BY <1>6, <2>2
  <2>4. prefix[c] = kvHeld[c] /\ prefix[c] >= 1
    BY <1>2, <1>3, <1>8 DEF HeldRight, ChunkRowFreed
  <2>5. rest > a.remChunk => extend = a.remChunk /\ extend >= 1 BY <1>6
  <2>6. ~(rest > a.remChunk) => extend = rest OBVIOUS
  <2> HIDE DEF rest, extend
  <2>7. /\ adder'.canRun = Append(<<>>, c) /\ adder'.newChunked = NoReq
        /\ adder'.remChunk = a.remChunk - extend
    BY <1>5, <2>1, <2>2, ChargedAdder
  <2>8. ToSet(adder'.canRun) = {c} BY <2>7 DEF ToSet
  <2>9. fill' \in [Req -> Int] /\ fill'[c] = prefix[c] + extend
    BY <2>1, <2>2, <2>3
  <2>10. fill'[c] >= 1 BY <2>2, <2>3, <2>4, <2>5, <2>6, <2>9
  <2>11. c = beingChunkedReq'[cur] \/ fill'[c] = FullLen(c) BY <2>1, <2>3, <2>6, <2>9
  <2>12. adder'.remChunk \in Nat BY <1>6, <2>3, <2>7
  <2>13. cur' = cur BY <1>2 DEF StartPrefill
  <2> HIDE DEF c
  <2>14. Taken' BY <1>2, <2>4, <2>7, <2>8, <2>10, <2>11, <2>12, <2>13 DEF Taken, FullLen
  <2>15. HeldRight'
    <3>1. Chain # NoReq => kvHeld[Chain] = IF ChunkRowFreed' THEN prefix'[Chain] ELSE fill'[Chain]
      BY <1>2, <1>3 DEF HeldRight, ChunkRowFreed
    <3>2. QED BY <1>1, <1>2, <1>3, <3>1, HeldStays
  <2>16. KVSum' /\ LenType' BY <1>1, <1>2, <1>3, <2>9 DEF KVSum, LenType
  <2>17. QED BY <2>14, <2>15, <2>16 DEF KVInv
<1>9. QED BY <1>7, <1>8

\* A waiting request holds nothing and has no cache entry, so all of its tokens are computed.
LEMMA KVAdmit ==
  ASSUME ControlType, ControlType', ControlInv, ControlInv', KVInv, AdmitOne
  PROVE  KVInv'
<1> DEFINE r       == waitingQueue[adder.next]
           extend  == FullLen(r) - Matched(r)
           verdict == Verdict(r, extend)
           whole   == verdict = "whole"
           size    == IF whole THEN extend ELSE adder.remChunk
           charged == Charge(adder, r, size, IF whole THEN MaxNew[r] ELSE 0)
           noToken == charged.remTotal <= 0 \/ charged.curRem <= 0
           spent   == noToken \/ charged.remInput <= 0 \/ charged.remChunk <= 0
<1>1. /\ Steady /\ UNCHANGED pools /\ phase' # "exited" /\ phase # "exited"
      /\ Owners' = Owners /\ Chain' = Chain /\ Due' = Due
  BY QuietSteady, DueSteady DEF Quiet
<1>2. /\ UNCHANGED <<kvFree, kvHeld, entries, outputs, beingChunkedReq, cur>>
      /\ phase = "admit" /\ adder.next <= Len(waitingQueue)
      /\ IF verdict \in {"whole", "chunk"}
         THEN /\ adder' = [charged EXCEPT !.next = @ + 1, !.newChunked = IF whole THEN @ ELSE r]
              /\ fill' = [fill EXCEPT ![r] = Matched(r) + size]
              /\ prefix' = [prefix EXCEPT ![r] = Matched(r)]
              /\ phase' = IF spent THEN "launch" ELSE "admit"
         ELSE phase' = "launch" /\ UNCHANGED <<adder, fill, prefix>>
  BY <1>1 DEF AdmitOne, pools, slots
<1>3. HeldRight /\ LenType /\ KVSum /\ Taken /\ adder.remChunk \in Nat /\ adder.newChunked = NoReq
  BY <1>1, <1>2 DEF KVInv, Taken
<1>4. phase' \in {"admit", "launch"} BY <1>2
<1>5. /\ r \in Waiting /\ r \in Req /\ IsAdder(adder) /\ NoReq \notin Req
      /\ \A s \in Slot : Waiting \cap InSlot[s] = {}
      /\ Chain \notin Waiting
  <2>1. IsAdder(adder) /\ waitingQueue \in Seq(Req) BY DEF ControlType
  <2>2. adder.next \in DOMAIN waitingQueue BY <1>2, <2>1 DEF IsAdder
  <2>3. r \in Waiting /\ r \in Req BY <2>1, <2>2 DEF Waiting, ToSet
  <2>4. QED BY <1>1, <2>1, <2>3, ReqAssumption DEF ControlInv, Exclusive
<1>6. r \notin Owners /\ r # Chain BY <1>5 DEF Owners
<1>7. Matched(r) = 0 /\ kvHeld[r] = 0 BY <1>3, <1>5, <1>6 DEF Matched, LenType, HeldRight
<1>8. FullLen(r) \in Nat \ {0} /\ extend = FullLen(r) BY <1>5, <1>7, LenTypes
<1>9. /\ Taken' /\ fill' \in [Req -> Int] /\ prefix' \in [Req -> Int]
      /\ \A q \in Req \ {r} : fill'[q] = fill[q] /\ prefix'[q] = prefix[q]
  <2>1. CASE verdict \notin {"whole", "chunk"}
    <3>1. phase' = "launch" /\ UNCHANGED <<adder, fill, prefix>> BY <1>2, <2>1
    <3>2. Taken' BY <1>2, <1>3, <3>1 DEF Taken, FullLen
    <3>3. QED BY <1>3, <3>1, <3>2 DEF LenType
  <2>2. CASE verdict \in {"whole", "chunk"}
    <3>1. whole => extend <= adder.remChunk BY DEF Verdict
    <3>2. ~whole => adder.remChunk # 0 /\ ~(extend <= adder.remChunk) BY <2>2 DEF Verdict
    <3>3. size \in Nat \ {0} /\ (whole => size = FullLen(r)) /\ size <= adder.remChunk
      BY <1>3, <1>8, <3>1, <3>2
    <3>4. ~whole => size = adder.remChunk OBVIOUS
    <3>5. /\ adder' = [charged EXCEPT !.next = @ + 1, !.newChunked = IF whole THEN @ ELSE r]
          /\ fill' = [fill EXCEPT ![r] = size] /\ prefix' = [prefix EXCEPT ![r] = 0]
          /\ phase' = IF spent THEN "launch" ELSE "admit"
      <4>1. Matched(r) + size = size /\ Matched(r) = 0 BY <1>7, <3>3
      <4> HIDE DEF size, verdict, extend, charged, whole, spent
      <4>2. QED BY <1>2, <2>2, <4>1
    <3> HIDE DEF size, verdict, extend
    <3>6. /\ IsAdder(charged) /\ charged.canRun = Append(adder.canRun, r)
          /\ charged.newChunked = NoReq /\ charged.remChunk = adder.remChunk - size
      BY <1>3, <1>5, ChargedAdder
    <3>7. charged.remChunk <= 0 => spent OBVIOUS
    <3> HIDE DEF charged, spent
    <3>8. /\ DOMAIN charged = {"remTotal", "curRem", "remInput", "remChunk", "canRun",
                               "newChunked", "next"}
      BY <3>6 DEF IsAdder
    <3>9. adder'.canRun = charged.canRun BY <3>5, <3>8
    <3>10. adder'.remChunk = charged.remChunk BY <3>5, <3>8
    <3>11. adder'.newChunked = IF whole THEN NoReq ELSE r BY <3>5, <3>6, <3>8
    <3>12. /\ fill' \in [Req -> Int] /\ prefix' \in [Req -> Int]
           /\ fill'[r] = size /\ prefix'[r] = 0
           /\ \A q \in Req \ {r} : fill'[q] = fill[q] /\ prefix'[q] = prefix[q]
      BY <1>3, <1>5, <3>3, <3>5 DEF LenType
    <3>13. adder'.remChunk \in Nat BY <1>3, <3>3, <3>6, <3>10
    <3>14. phase' = "admit" => adder'.newChunked = NoReq
      <4>1. ~whole => charged.remChunk <= 0 BY <1>3, <3>4, <3>6
      <4>2. QED BY <3>5, <3>7, <3>11, <4>1
    <3>15. r \notin ToSet(adder.canRun) /\ ToSet(adder'.canRun) = ToSet(adder.canRun) \cup {r}
           /\ adder.canRun \in Seq(Req) /\ ToSet(adder.canRun) \subseteq Req
      <4>1. adder.canRun \in Seq(Req) BY <1>5 DEF IsAdder
      <4>2. ToSet(adder'.canRun) = ToSet(adder.canRun) \cup {r}
        BY <1>5, <3>6, <3>9, <4>1, AppendedElement
      <4>3. IsInjective(adder'.canRun) BY <1>1, <1>4 DEF ControlInv, Admitted
      <4>4. r \notin ToSet(adder.canRun)
        <5> SUFFICES ASSUME NEW i \in DOMAIN adder.canRun, adder.canRun[i] = r PROVE FALSE
          BY DEF ToSet
        <5>1. PICK n \in Nat : n = Len(adder.canRun) /\ DOMAIN adder.canRun = 1 .. n BY <4>1
        <5>2. /\ DOMAIN adder'.canRun = 1 .. n + 1 /\ adder'.canRun[n + 1] = r
              /\ adder'.canRun[i] = r
          BY <1>5, <3>6, <3>9, <4>1, <5>1
        <5>3. i # n + 1 /\ i \in 1 .. n + 1 /\ n + 1 \in 1 .. n + 1 BY <5>1
        <5>4. QED BY <4>3, <5>2, <5>3 DEF IsInjective
      <4>5. ToSet(adder.canRun) \subseteq Req BY <4>1 DEF ToSet
      <4>6. QED BY <4>1, <4>2, <4>4, <4>5
    <3>16. ASSUME NEW q \in ToSet(adder'.canRun)
           PROVE  /\ prefix'[q] = kvHeld'[q] /\ fill'[q] >= 1
                  /\ q \in {adder'.newChunked, beingChunkedReq'[cur']} \/ fill'[q] = FullLen(q)
      <4>1. kvHeld' = kvHeld /\ beingChunkedReq' = beingChunkedReq /\ cur' = cur BY <1>2
      <4>2. CASE q = r BY <1>7, <3>3, <3>11, <3>12, <4>1, <4>2
      <4>3. CASE q # r
        <5>1. q \in ToSet(adder.canRun) /\ q \in Req /\ q # NoReq BY <1>5, <3>15, <3>16, <4>3
        <5>2. /\ prefix[q] = kvHeld[q] /\ fill[q] >= 1
              /\ q \in {adder.newChunked, beingChunkedReq[cur]} \/ fill[q] = FullLen(q)
          BY <1>2, <1>3, <5>1 DEF Taken
        <5>3. fill'[q] = fill[q] /\ prefix'[q] = prefix[q] BY <3>12, <4>3, <5>1
        <5>4. QED BY <1>3, <4>1, <5>1, <5>2, <5>3
      <4>4. QED BY <4>2, <4>3
    <3>17. outputs' = outputs BY <1>2
    <3>18. Taken' BY <3>13, <3>14, <3>16, <3>17 DEF Taken, FullLen
    <3>19. QED BY <3>12, <3>18
  <2>3. QED BY <2>1, <2>2
<1>10. HeldRight'
  <2>1. Chain \in Maybe BY Views
  <2>2. Chain # NoReq => Chain \in Req \ {r} BY <1>6, <2>1 DEF Maybe
  <2>3. Chain # NoReq => kvHeld[Chain] = IF ChunkRowFreed' THEN prefix'[Chain] ELSE fill'[Chain]
    BY <1>2, <1>3, <1>4, <1>9, <2>2 DEF HeldRight, ChunkRowFreed
  <2>4. QED BY <1>1, <1>2, <1>3, <2>3, HeldStays
<1>11. KVSum' /\ LenType' BY <1>1, <1>2, <1>3, <1>9 DEF KVSum, LenType
<1>12. QED BY <1>9, <1>10, <1>11 DEF KVInv

\* The prefix of a chunked request that is taken over is what was computed of it.
LEMMA KVTakenOver ==
  ASSUME ControlType, ControlType', ControlInv, KVInv, ChunkGoesOn, MergeLastBatch \/ FetchChunked
  PROVE  KVInv'
<1>1. /\ phase \in {"handle", "fetch"} /\ phase' \in {"fetch", "prefill"}
      /\ UNCHANGED <<kvFree, kvHeld, outputs, fill>>
  BY DEF MergeLastBatch, FetchChunked
<1>2. HeldRight /\ LenType /\ KVSum BY <1>1 DEF KVInv
<1>3. Owners' = Owners /\ Chain' = Chain /\ Due' = Due
  <2>1. CASE MergeLastBatch
    <3>1. Awaited' = Awaited /\ Launched' = Launched BY <2>1, MergeViews
    <3>2. Due' = Due BY <3>1 DEF Due, Whole
    <3>3. QED BY <2>1, <3>2, MergeOwners
  <2>2. CASE FetchChunked
    <3>1. Steady BY <2>2 DEF FetchChunked, Steady, batches, SameTurn, Turn, Newest
    <3>2. QED BY <3>1, SteadyOwners, DueSteady
  <2>3. QED BY <2>1, <2>2
<1>4. IF Chain = NoReq THEN Owners \ {Chain} = Owners ELSE Chain \in Owners
  BY <1>1, ChainOwns
<1>5. /\ prefix' \in [Req -> Int] /\ entries' \subseteq Owners
      /\ Chain # NoReq => kvHeld[Chain] = IF ChunkRowFreed' THEN prefix'[Chain] ELSE fill'[Chain]
  <2>1. CASE FreesChainRow
    <3>1. /\ prefix' = [r \in Req |-> IF r \in {Chain} THEN fill[r] ELSE prefix[r]]
          /\ entries' = entries \cup {Chain} /\ Chain # NoReq
      BY <2>1 DEF FreesChainRow, CacheUnfinished
    <3>2. Chain \in Owners /\ Chain \in Req BY <1>4, <3>1 DEF Owners
    <3>3. /\ prefix' \in [Req -> Int] /\ prefix'[Chain] = fill[Chain]
          /\ entries' \subseteq Owners
      BY <1>2, <3>1, <3>2 DEF LenType
    <3>4. kvHeld[Chain] = fill[Chain]
      <4>1. ~ChunkRowFreed \/ prefix[Chain] = fill[Chain]
        <5>1. CASE MergeLastBatch BY <5>1 DEF MergeLastBatch, ChunkRowFreed
        <5>2. CASE FetchChunked
          <6>1. CASE P = 1
            <7>1. freeRows' = freeRows /\ prefix' = prefix BY <5>2, <6>1, FetchFrees
            <7>2. QED BY <3>3, <7>1
          <6>2. CASE P # 1 BY <5>2, <6>2 DEF FetchChunked, ChunkRowFreed
          <6>3. QED BY <6>1, <6>2
        <5>3. QED BY <5>1, <5>2
      <4>2. QED BY <1>2, <3>1, <4>1 DEF HeldRight
    <3>5. QED BY <1>1, <3>3, <3>4
  <2>2. CASE UNCHANGED <<prefix, entries, freeRows>> /\ ~FreesChainRow
    <3>1. ChunkRowFreed' = ChunkRowFreed \/ Chain = NoReq
      <4>1. CASE MergeLastBatch
        <5>1. phase = "handle" /\ phase' = "fetch" BY <4>1 DEF MergeLastBatch
        <5>2. ~(P = 1 /\ Chain # NoReq) BY <2>2, <4>1, MergeFrees
        <5>3. QED BY <5>1, <5>2 DEF ChunkRowFreed
      <4>2. CASE FetchChunked
        <5>1. phase = "fetch" /\ phase' = "prefill" BY <4>2 DEF FetchChunked
        <5>2. ~(P # 1 /\ Chain # NoReq) BY <2>2, <4>2, FetchFrees
        <5>3. QED BY <5>1, <5>2 DEF ChunkRowFreed
      <4>3. QED BY <4>1, <4>2
    <3>2. QED BY <1>1, <1>2, <2>2, <3>1 DEF LenType, HeldRight
  <2>3. QED BY <2>1, <2>2, MergeFrees, FetchFrees
<1>6. HeldRight' BY <1>1, <1>2, <1>3, <1>5, HeldStays
<1>7. KVSum' /\ LenType' /\ Taken' BY <1>1, <1>2, <1>3, <1>5 DEF KVSum, LenType, Taken
<1>8. QED BY <1>6, <1>7 DEF KVInv

\* A prefill takes a slot for every token it extends, and one for every request mixed in.
LEMMA KVPrefill ==
  ASSUME ControlType, ControlType', ControlInv, KVInv, LaunchPrefill
  PROVE  KVInv'
<1> DEFINE run   == adder.canRun
           mixed == ToSet(MixedIn)
<1>1. PrefillDealt /\ Launches BY PrefillDeals, PrefillLaunches
<1>2. /\ phase \in {"admit", "launch"} /\ run \in Seq(Req) /\ MixedIn \in Seq(Req)
      /\ IsInjective(MixedIn) /\ mixed = (IF MixWanted THEN Running[cur] \ finished ELSE {})
      /\ ToSet(run) \subseteq Req /\ ToSet(run) \subseteq Waiting \cup {Chain}
      /\ (Partial # NoReq => Partial \in ToSet(run)) /\ (Chain # NoReq => Chain \in ToSet(run))
      /\ (Waiting \cup {Chain}) \cap Running[cur] = {} /\ Running[cur] \subseteq Req
      /\ ToSet(batch'.reqs) = ToSet(run) \cup mixed /\ batch'.partial = Partial
      /\ \A r : Contains(run, r) <=> r \in ToSet(run)
  BY <1>1 DEF PrefillDealt
<1>3. KVSum /\ LenType /\ HeldRight /\ Taken BY <1>2 DEF KVInv
<1>4. /\ phase' = "process" /\ UNCHANGED <<outputs, prefix, entries, finished>>
      /\ ~LaunchFails
      /\ kvFree' = kvFree - ExtendTokens - Len(MixedIn)
      /\ kvHeld' = [r \in Req |-> IF Contains(run, r) THEN fill[r]
                                  ELSE IF r \in mixed THEN kvHeld[r] + 1 ELSE kvHeld[r]]
      /\ fill' = [r \in Req |-> IF r \in mixed THEN FullLen(r) ELSE fill[r]]
  BY DEF LaunchPrefill
<1>5. /\ cur \in Slot /\ InSlot[cur] = Running[cur] /\ Chain' = Partial
  BY <1>1, <1>2, LaunchViews
<1>6. /\ Owners' = (Owners \ {Chain}) \cup ToSet(run) /\ (Owners \ {Chain}) \cap ToSet(run) = {}
      /\ Owners' = Owners \cup ToSet(run)
  BY PrefillOwners
<1>7. Due' = Due \cup Whole(batch') /\ Due \cap Running[cur] = {} BY <1>1, DueLaunch
<1> HIDE DEF run, mixed
<1>8. mixed \subseteq Owners \ {Chain} /\ mixed \cap ToSet(run) = {} /\ mixed \cap Due = {}
      /\ mixed \subseteq Req
  BY <1>2, <1>5, <1>7 DEF Owners
<1>9. \A r \in Req : /\ r \in ToSet(run) => kvHeld'[r] = fill[r] /\ fill'[r] = fill[r]
                     /\ r \in mixed => kvHeld'[r] = kvHeld[r] + 1
                     /\ r \notin ToSet(run) \cup mixed => kvHeld'[r] = kvHeld[r]
  BY <1>2, <1>4, <1>8
<1>10. \A r \in ToSet(run) : /\ prefix[r] = kvHeld[r] /\ fill[r] >= 1
                             /\ r # Partial => fill[r] = FullLen(r)
  <2> TAKE r \in ToSet(run)
  <2>1. /\ prefix[r] = kvHeld[r] /\ fill[r] >= 1
        /\ r \in {adder.newChunked, beingChunkedReq[cur]} \/ fill[r] = FullLen(r)
    BY <1>2, <1>3 DEF Taken, run
  <2>2. r # NoReq BY <1>2, ReqAssumption
  <2>3. adder.newChunked = NoReq \/ beingChunkedReq[cur] = NoReq BY <1>4 DEF LaunchFails
  <2>4. r \in {adder.newChunked, beingChunkedReq[cur]} => r = Partial BY <2>2, <2>3 DEF Partial
  <2>5. QED BY <2>1, <2>4
<1>11. kvHeld \in [Req -> Int] /\ fill \in [Req -> Int] /\ prefix \in [Req -> Int]
  BY <1>3 DEF KVSum, LenType
<1>12. kvHeld' \in [Req -> Int] /\ fill' \in [Req -> Int]
  <2>1. \A r \in Req : FullLen(r) \in Int BY LenTypes
  <2>2. QED BY <1>4, <1>11, <2>1
<1>13. KVSum'
  <2> DEFINE d    == [r \in Req |-> fill[r] - prefix[r]]
             one  == [r \in Req |-> 1]
             held == [r \in Req |-> kvHeld[r] + (IF r \in ToSet(run) THEN d[r] ELSE 0)]
             free == kvFree - ExtendTokens
  <2>1. d \in [Req -> Int] /\ one \in [Req -> Int] /\ held \in [Req -> Int] BY <1>11
  <2>2. \A r \in Req : /\ held[r] = kvHeld[r] + (IF r \in ToSet(run) THEN d[r] ELSE 0)
                       /\ r \in ToSet(run) => held[r] = fill[r]
                       /\ r \notin ToSet(run) => held[r] = kvHeld[r]
    <3> TAKE r \in Req
    <3>1. r \in ToSet(run) => prefix[r] = kvHeld[r] BY <1>10
    <3>2. kvHeld[r] \in Int /\ fill[r] \in Int BY <1>11
    <3>3. QED BY <3>1, <3>2
  <2>3. ExtendTokens = SumFunctionOnSet(d, ToSet(run)) BY DEF ExtendTokens, run
  <2>4. \A r \in Req : one[r] = 1 OBVIOUS
  <2>5. SumFunctionOnSet(one, mixed) = Len(MixedIn)
    <3>1. Cardinality(mixed) = Len(MixedIn) BY <1>2, InjectiveLen DEF mixed
    <3>2. QED BY <1>8, <3>1, ReqAssumption, SumOfOnes
  <2>6. free = kvFree - SumFunctionOnSet(d, ToSet(run)) /\ ToSet(run) \in SUBSET Req
    BY <1>2, <2>3
  <2>7. Len(MixedIn) \in Nat /\ kvFree' = free - Len(MixedIn) BY <1>2, <1>4
  <2> HIDE DEF d, one, held, free
  <2>8. free \in Int /\ free + SumFunctionOnSet(held, Req) = KVSize
    BY <1>3, <2>1, <2>2, <2>6, SumStays
  <2>9. \A r \in Req : kvHeld'[r] = held[r] + (IF r \in mixed THEN one[r] ELSE 0)
    <3> TAKE r \in Req
    <3>1. kvHeld[r] \in Int /\ fill[r] \in Int BY <1>11
    <3>2. QED BY <1>8, <1>9, <2>2, <2>4, <3>1
  <2>10. Added(Req, held, one, mixed, kvHeld')
    BY <1>8, <1>12, <2>1, <2>9, ReqAssumption DEF Added
  <2>11. /\ SumFunctionOnSet(kvHeld', Req) = SumFunctionOnSet(held, Req) + Len(MixedIn)
         /\ SumFunctionOnSet(held, Req) \in Int
    BY <2>5, <2>10, SumOfAdded
  <2>12. kvFree' \in Int /\ kvFree' + SumFunctionOnSet(kvHeld', Req) = KVSize
    BY <2>7, <2>8, <2>11
  <2>13. QED BY <1>12, <2>12 DEF KVSum
<1>14. LenType' BY <1>3, <1>4, <1>6, <1>12 DEF LenType
<1>15. HeldRight'
  <2>1. \A r \in Req \ Owners' : kvHeld'[r] = 0
    BY <1>3, <1>6, <1>8, <1>9 DEF HeldRight
  <2>2. ASSUME NEW r \in Owners' \ {Chain'}
        PROVE  /\ kvHeld'[r] = Prompt[r] + outputs[r] - (IF r \in Due' THEN 0 ELSE 1)
               /\ r \in Due' \/ outputs[r] >= 1
    <3>1. r \in Req /\ r # Partial /\ Prompt[r] \in Nat /\ outputs[r] \in Nat
      <4>1. r \in Req BY DEF Owners
      <4>2. QED BY <1>5, <2>2, <4>1, LenTypes
    <3>2. CASE r \in ToSet(run)
      <4>1. r \in Due' BY <1>2, <1>7, <3>1, <3>2 DEF Whole
      <4>2. kvHeld'[r] = Prompt[r] + outputs[r] BY <1>9, <1>10, <3>1, <3>2 DEF FullLen
      <4>3. QED BY <3>1, <4>1, <4>2
    <3>3. CASE r \in mixed
      <4>1. r \in Due' /\ r \notin Due BY <1>2, <1>7, <1>8, <3>1, <3>3 DEF Whole
      <4>2. kvHeld[r] = Prompt[r] + outputs[r] - 1 BY <1>3, <1>8, <3>3, <4>1 DEF HeldRight
      <4>3. kvHeld'[r] = kvHeld[r] + 1 BY <1>9, <3>1, <3>3
      <4>4. QED BY <3>1, <4>1, <4>2, <4>3
    <3>4. CASE r \notin ToSet(run) \cup mixed
      <4>1. r \in Owners \ {Chain} BY <1>6, <2>2, <3>4
      <4>2. r \in Due' <=> r \in Due BY <1>2, <1>7, <3>4 DEF Whole
      <4>3. kvHeld'[r] = kvHeld[r] BY <1>9, <3>1, <3>4
      <4>4. QED BY <1>3, <4>1, <4>2, <4>3 DEF HeldRight
    <3>5. QED BY <3>2, <3>3, <3>4
  <2>3. Chain' # NoReq => kvHeld'[Chain'] >= 1 /\ kvHeld'[Chain'] = fill'[Chain']
    BY <1>2, <1>5, <1>9, <1>10
  <2>4. ~ChunkRowFreed' BY <1>4 DEF ChunkRowFreed
  <2>5. outputs' = outputs BY <1>4
  <2>6. QED BY <2>1, <2>2, <2>3, <2>4, <2>5 DEF HeldRight
<1>16. QED BY <1>4, <1>13, <1>14, <1>15 DEF KVInv, Taken

\* A decode step takes a slot for every request that stays; the retracted give back theirs.
LEMMA KVDecode ==
  ASSUME ControlType, ControlType', ControlInv, KVInv, DecodeRunning
  PROVE  KVInv'
<1> DEFINE reqs == Unfinished(runningBatch[cur])
           out  == Retracted(reqs)
           kept == Without(reqs, ToSet(out))
           gone == ToSet(out)
           stay == ToSet(kept)
<1>1. DecodeDealt /\ Launches BY DecodeDeals, DecodeLaunches
<1>2. /\ phase = "decode" /\ ToSet(reqs) = Running[cur] \ finished /\ Running[cur] \subseteq Req
      /\ gone \subseteq ToSet(reqs) /\ kept \in Seq(Req) /\ stay = ToSet(reqs) \ gone
      /\ IsInjective(kept)
      /\ batch'.mode = "decode" /\ batch'.reqs = kept /\ batch'.partial = NoReq
  BY <1>1 DEF DecodeDealt
<1>3. KVSum /\ LenType /\ HeldRight BY <1>2 DEF KVInv
<1>4. /\ phase' = "process" /\ UNCHANGED <<outputs, fill>> /\ entries' = entries \ gone
      /\ kvFree' = kvFree + Freed(out) - Len(kept)
      /\ kvHeld' = [r \in Req |-> IF Contains(kept, r) THEN kvHeld[r] + 1
                                  ELSE IF Contains(out, r) THEN kvHeld[r] - SeqLen(r) ELSE kvHeld[r]]
      /\ prefix' = [r \in Req |-> IF Contains(out, r) THEN 0 ELSE prefix[r]]
  BY DEF DecodeRunning
<1>5. /\ Owners' = Owners \ gone /\ ToSet(reqs) \subseteq Owners /\ Chain = NoReq /\ Chain' = NoReq
  BY DecodeOwners
<1>6. /\ \A r : Contains(kept, r) <=> r \in stay
      /\ \A r : Contains(out, r) <=> r \in gone
  <2>1. kept \in Seq(Req) /\ out \in Seq(Req) BY <1>1 DEF DecodeDealt
  <2> HIDE DEF kept, out
  <2>2. QED BY <2>1 DEF Contains, ToSet
<1>7. Freed(out) = SumFunctionOnSet([r \in Req |-> SeqLen(r)], gone) BY DEF Freed
<1>8. Due' = Due \cup Whole(batch') /\ Due \cap Running[cur] = {} BY <1>1, DueLaunch
<1> HIDE DEF reqs, out, kept, gone, stay
<1>9. NoReq \notin Req BY ReqAssumption
<1>10. Whole(batch') = stay
  <2>1. stay \subseteq Req BY <1>2
  <2>2. ToSet(batch'.reqs) = stay BY <1>2 DEF stay
  <2>3. QED BY <1>2, <1>9, <2>1, <2>2 DEF Whole
<1>11. /\ gone \subseteq Owners /\ stay \subseteq Owners /\ gone \cap stay = {}
       /\ gone \cap Due = {} /\ stay \cap Due = {} /\ gone \subseteq Req /\ stay \subseteq Req
  BY <1>2, <1>5, <1>8
<1>12. kvHeld \in [Req -> Int] /\ fill \in [Req -> Int] /\ prefix \in [Req -> Int]
  BY <1>3 DEF KVSum, LenType
<1>13. \A r \in Req : SeqLen(r) \in Int BY LenTypes
<1>14. kvHeld' \in [Req -> Int] /\ prefix' \in [Req -> Int] BY <1>4, <1>12, <1>13
<1>15. \A r \in Req : kvHeld'[r] = IF r \in stay THEN kvHeld[r] + 1
                                  ELSE IF r \in gone THEN kvHeld[r] - SeqLen(r) ELSE kvHeld[r]
  BY <1>4, <1>6
<1>16. KVSum'
  <2> DEFINE len  == [r \in Req |-> SeqLen(r)]
             one  == [r \in Req |-> 1]
             held == [r \in Req |-> IF r \in gone THEN kvHeld[r] - SeqLen(r) ELSE kvHeld[r]]
  <2>1. len \in [Req -> Int] /\ one \in [Req -> Int] /\ held \in [Req -> Int] BY <1>12, <1>13
  <2>2. \A r \in Req : /\ kvHeld[r] = held[r] + (IF r \in gone THEN len[r] ELSE 0)
                       /\ kvHeld'[r] = held[r] + (IF r \in stay THEN one[r] ELSE 0)
    <3> TAKE r \in Req
    <3>1. kvHeld[r] \in Int /\ SeqLen(r) \in Int BY <1>12, <1>13
    <3>2. QED BY <1>11, <1>15, <3>1
  <2>3. SumFunctionOnSet(one, stay) = Len(kept)
    <3>1. Cardinality(stay) = Len(kept) BY <1>2, InjectiveLen DEF stay
    <3>2. QED BY <1>11, <3>1, ReqAssumption, SumOfOnes
  <2>4. Freed(out) = SumFunctionOnSet(len, gone) /\ Len(kept) \in Nat BY <1>2, <1>7
  <2> HIDE DEF len, one, held
  <2>5. Added(Req, held, len, gone, kvHeld) BY <1>11, <1>12, <2>1, <2>2, ReqAssumption DEF Added
  <2>6. Added(Req, held, one, stay, kvHeld') BY <1>11, <1>14, <2>1, <2>2, ReqAssumption DEF Added
  <2>7. /\ SumFunctionOnSet(kvHeld, Req) = SumFunctionOnSet(held, Req) + SumFunctionOnSet(len, gone)
        /\ SumFunctionOnSet(held, Req) \in Int /\ SumFunctionOnSet(len, gone) \in Int
    BY <2>5, SumOfAdded
  <2>8. SumFunctionOnSet(kvHeld', Req) = SumFunctionOnSet(held, Req) + SumFunctionOnSet(one, stay)
    BY <2>6, SumOfAdded
  <2>9. KVSize \in Nat BY PoolAssumption
  <2> DEFINE all == SumFunctionOnSet(kvHeld', Req)
             was == SumFunctionOnSet(kvHeld, Req)
             rest == SumFunctionOnSet(held, Req)
             back == SumFunctionOnSet(len, gone)
             k == Len(kept)
             f == Freed(out)
  <2> HIDE DEF all, was, rest, back, k, f
  <2>10. /\ kvFree \in Int /\ kvFree + was = KVSize /\ was = rest + back /\ rest \in Int /\ back \in Int
         /\ all = rest + k /\ f = back /\ k \in Nat /\ kvFree' = kvFree + f - k
    BY <1>3, <1>4, <2>3, <2>4, <2>7, <2>8, <2>9 DEF KVSum, all, was, rest, back, k, f
  <2>11. kvFree' \in Int /\ kvFree' + all = KVSize BY <2>9, <2>10
  <2>12. QED BY <1>14, <2>11 DEF KVSum, all
<1>17. LenType' BY <1>3, <1>4, <1>5, <1>12, <1>14 DEF LenType
<1>18. HeldRight'
  <2>1. ASSUME NEW r \in Req \ Owners' PROVE kvHeld'[r] = 0
    <3>1. CASE r \in gone
      <4>1. r # Chain BY <1>5, <1>9
      <4>2. kvHeld[r] = Prompt[r] + outputs[r] - 1 BY <1>3, <1>11, <3>1, <4>1 DEF HeldRight
      <4>3. kvHeld'[r] = kvHeld[r] - SeqLen(r) BY <1>11, <1>15, <3>1
      <4>4. Prompt[r] \in Nat /\ outputs[r] \in Nat BY LenTypes
      <4>5. QED BY <4>2, <4>3, <4>4 DEF SeqLen
    <3>2. CASE r \notin gone BY <1>3, <1>5, <1>11, <1>15, <3>2 DEF HeldRight
    <3>3. QED BY <3>1, <3>2
  <2>2. ASSUME NEW r \in Owners' \ {Chain'}
        PROVE  /\ kvHeld'[r] = Prompt[r] + outputs[r] - (IF r \in Due' THEN 0 ELSE 1)
               /\ r \in Due' \/ outputs[r] >= 1
    <3>1. r \in Req /\ r \in Owners \ {Chain} /\ r \notin gone BY <1>5 DEF Owners
    <3>2. /\ kvHeld[r] = Prompt[r] + outputs[r] - (IF r \in Due THEN 0 ELSE 1)
          /\ r \in Due \/ outputs[r] >= 1
      BY <1>3, <3>1 DEF HeldRight
    <3>3. Prompt[r] \in Nat /\ outputs[r] \in Nat BY <3>1, LenTypes
    <3>4. CASE r \in stay
      <4>1. r \in Due' /\ r \notin Due BY <1>8, <1>10, <1>11, <3>4
      <4>2. kvHeld'[r] = kvHeld[r] + 1 BY <1>15, <3>1, <3>4
      <4>3. QED BY <3>2, <3>3, <4>1, <4>2
    <3>5. CASE r \notin stay
      <4>1. r \in Due' <=> r \in Due BY <1>8, <1>10, <3>5
      <4>2. kvHeld'[r] = kvHeld[r] BY <1>15, <3>1, <3>5
      <4>3. QED BY <3>2, <4>1, <4>2
    <3>6. QED BY <3>4, <3>5
  <2>3. outputs' = outputs BY <1>4
  <2>4. QED BY <1>5, <2>1, <2>2, <2>3 DEF HeldRight
<1>19. QED BY <1>4, <1>16, <1>17, <1>18 DEF KVInv, Taken

\* A step without a batch.
LEMMA KVIdle ==
  ASSUME ControlType, ControlType', ControlInv, KVInv, NothingToRun
  PROVE  KVInv'
<1>1. /\ phase = "decode" /\ phase' = "process" /\ batch' = NoBatch
      /\ UNCHANGED <<kvFree, kvHeld, fill, prefix, entries, outputs>>
  BY DEF NothingToRun, requests, pools
<1>2. Owners' = Owners /\ Chain' = Chain /\ Chain = NoReq BY IdleOwners
<1>3. Due' = Due
  <2>1. Due' = Due \cup Whole(batch') BY IdleLaunches, DueLaunch
  <2>2. Whole(batch') = {} BY <1>1 DEF Whole, NoBatch, ToSet
  <2>3. QED BY <2>1, <2>2
<1>4. HeldRight /\ LenType /\ KVSum BY <1>1 DEF KVInv
<1>5. HeldRight' BY <1>1, <1>2, <1>3, <1>4, HeldStays
<1>6. KVSum' /\ LenType' /\ Taken' BY <1>1, <1>2, <1>4 DEF KVSum, LenType, Taken
<1>7. QED BY <1>5, <1>6 DEF KVInv

\* A result returns what the requests that end with it hold.
LEMMA KVResult ==
  ASSUME ControlType, ControlType', ControlInv, KVInv, ChunkGoesOn, ApplyResult
  PROVE  KVInv'
<1> DEFINE whole == Whole(Launched[NextTurn])
<1>1. phase = "process" /\ phase' = "recv" /\ fill' = fill BY DEF ApplyResult
<1>2. outputs' = [r \in Req |-> outputs[r] + (IF r \in whole THEN 1 ELSE 0)]
  <2>1. Sampled(ResultOf) = whole BY <1>1, SampledWhole
  <2>2. QED BY <2>1 DEF ApplyResult
<1>3. KVSum /\ LenType /\ HeldRight BY <1>1 DEF KVInv
<1>4. PICK inOrder \in Seq(Req) : EndsInOrder(inOrder) BY EndedInOrder
<1>5. /\ Ended \subseteq whole
      /\ kvFree' = kvFree + SumFunctionOnSet([r \in Req |-> FinishedLen(r)], Ended)
      /\ kvHeld' = [r \in Req |-> IF r \in Ended THEN kvHeld[r] - FinishedLen(r) ELSE kvHeld[r]]
  BY <1>4 DEF EndsInOrder
<1>6. PICK cached \in SUBSET (whole \ Ended) :
        /\ entries' = (entries \ Ended) \cup cached
        /\ prefix' = [r \in Req |-> IF r \in cached THEN fill[r] ELSE prefix[r]]
  BY <1>4 DEF EndsInOrder
<1>7. Owners' = Owners \ Ended /\ Chain' = Chain /\ whole \subseteq Owners BY ResultOwners DEF Ended
<1>8. Due' = Due \ whole /\ whole \subseteq Due /\ Chain \notin whole BY DueResult
<1> HIDE DEF whole
<1>9. Ended \subseteq Req BY <1>5, <1>7 DEF Owners
<1>10. kvHeld \in [Req -> Int] /\ fill \in [Req -> Int] /\ prefix \in [Req -> Int]
  BY <1>3 DEF KVSum, LenType
<1>11. \A r \in Req : FinishedLen(r) \in Int BY LenTypes
<1>12. kvHeld' \in [Req -> Int] /\ prefix' \in [Req -> Int] BY <1>5, <1>6, <1>10, <1>11
<1>13. KVSum'
  <2> DEFINE len == [r \in Req |-> FinishedLen(r)]
  <2>1. len \in [Req -> Int] BY <1>11
  <2>2. \A r \in Req : kvHeld[r] = kvHeld'[r] + (IF r \in Ended THEN len[r] ELSE 0)
    BY <1>5, <1>10, <1>11
  <2>3. kvFree' = kvFree + SumFunctionOnSet(len, Ended) BY <1>5
  <2> HIDE DEF len
  <2>4. Added(Req, kvHeld', len, Ended, kvHeld)
    BY <1>9, <1>10, <1>12, <2>1, <2>2, ReqAssumption DEF Added
  <2>5. /\ SumFunctionOnSet(kvHeld, Req) = SumFunctionOnSet(kvHeld', Req) + SumFunctionOnSet(len, Ended)
        /\ SumFunctionOnSet(kvHeld', Req) \in Int /\ SumFunctionOnSet(len, Ended) \in Int
    BY <2>4, SumOfAdded
  <2>6. KVSize \in Nat BY PoolAssumption
  <2>7. QED BY <1>3, <1>12, <2>3, <2>5, <2>6 DEF KVSum
<1>14. LenType' BY <1>1, <1>3, <1>6, <1>7, <1>10, <1>12 DEF LenType
<1>15. HeldRight'
  <2>1. ASSUME NEW r \in Owners \ {Chain}
        PROVE  /\ r \in Req /\ Prompt[r] \in Nat /\ outputs[r] \in Nat
               /\ kvHeld[r] = Prompt[r] + outputs[r] - (IF r \in Due THEN 0 ELSE 1)
               /\ r \in Due \/ outputs[r] >= 1
               /\ outputs'[r] = outputs[r] + (IF r \in whole THEN 1 ELSE 0)
               /\ kvHeld'[r] = IF r \in Ended THEN kvHeld[r] - FinishedLen(r) ELSE kvHeld[r]
    <3>1. r \in Req BY DEF Owners
    <3>2. Prompt[r] \in Nat /\ outputs[r] \in Nat BY <3>1, LenTypes
    <3>3. QED BY <1>2, <1>3, <1>5, <3>1, <3>2 DEF HeldRight
  <2>2. ASSUME NEW r \in Req \ Owners' PROVE kvHeld'[r] = 0
    <3>1. CASE r \in Ended
      <4>1. r \in Owners \ {Chain} /\ r \in Due BY <1>5, <1>7, <1>8, <3>1
      <4>2. kvHeld[r] = Prompt[r] + outputs[r] /\ kvHeld'[r] = kvHeld[r] - FinishedLen(r)
        BY <2>1, <3>1, <4>1
      <4>3. Prompt[r] \in Nat /\ outputs[r] \in Nat BY LenTypes
      <4>4. QED BY <4>2, <4>3 DEF FinishedLen
    <3>2. CASE r \notin Ended BY <1>3, <1>5, <1>7, <3>2 DEF HeldRight
    <3>3. QED BY <3>1, <3>2
  <2>3. ASSUME NEW r \in Owners' \ {Chain'}
        PROVE  /\ kvHeld'[r] = Prompt[r] + outputs'[r] - (IF r \in Due' THEN 0 ELSE 1)
               /\ r \in Due' \/ outputs'[r] >= 1
    <3>1. r \in Owners \ {Chain} /\ r \notin Ended BY <1>7
    <3>2. /\ Prompt[r] \in Nat /\ outputs[r] \in Nat
          /\ kvHeld'[r] = Prompt[r] + outputs[r] - (IF r \in Due THEN 0 ELSE 1)
          /\ r \in Due \/ outputs[r] >= 1
          /\ outputs'[r] = outputs[r] + (IF r \in whole THEN 1 ELSE 0)
      BY <2>1, <3>1
    <3>3. CASE r \in whole
      <4>1. r \in Due /\ r \notin Due' BY <1>8, <3>3
      <4>2. QED BY <3>2, <3>3, <4>1
    <3>4. CASE r \notin whole
      <4>1. r \in Due <=> r \in Due' BY <1>8, <3>4
      <4>2. QED BY <3>2, <3>4, <4>1
    <3>5. QED BY <3>3, <3>4
  <2>4. Chain' # NoReq => /\ kvHeld'[Chain'] >= 1
                          /\ kvHeld'[Chain'] = fill'[Chain']
    <3> SUFFICES ASSUME Chain # NoReq PROVE kvHeld'[Chain] >= 1 /\ kvHeld'[Chain] = fill[Chain]
      BY <1>1, <1>7
    <3>1. Chain \in Req BY Views DEF Maybe
    <3>2. Chain \notin Ended BY <1>5, <1>8
    <3>3. kvHeld'[Chain] = kvHeld[Chain] BY <1>5, <3>1, <3>2
    <3>4. kvHeld[Chain] >= 1 /\ kvHeld[Chain] = fill[Chain] BY <1>1, <1>3 DEF HeldRight, ChunkRowFreed
    <3>5. QED BY <3>3, <3>4
  <2>5. ~ChunkRowFreed' BY <1>1 DEF ChunkRowFreed
  <2>6. QED BY <2>2, <2>3, <2>4, <2>5 DEF HeldRight
<1>16. QED BY <1>1, <1>13, <1>14, <1>15 DEF KVInv, Taken

\* A flush gives back what nobody holds.
LEMMA KVFlush ==
  ASSUME ControlType, ControlType', ControlInv, KVInv, ChunkGoesOn, HandleFlush, FlushIdle,
         flushes \in Nat, ~UNCHANGED <<freeRows, kvFree, entries>>
  PROVE  KVInv'
<1>1. /\ phase = "handle" /\ phase' = "handle" /\ Owners = {} /\ Owners' = {}
      /\ Chain = NoReq /\ Chain' = NoReq /\ kvFree' = KVSize /\ entries' = {}
      /\ UNCHANGED <<kvHeld, prefix, fill, outputs>>
  BY FlushedIdle
<1>2. KVSum /\ LenType /\ HeldRight BY <1>1 DEF KVInv
<1>3. kvHeld \in [Req -> Int] /\ \A r \in Req : kvHeld[r] = 0 BY <1>1, <1>2 DEF KVSum, HeldRight
<1>4. SumFunctionOnSet(kvHeld, Req) = 0 BY <1>3, SumOfZeros
<1>5. KVSum' BY <1>1, <1>3, <1>4, PoolAssumption DEF KVSum
<1>6. LenType' /\ HeldRight' /\ Taken' BY <1>1, <1>2, <1>3 DEF LenType, HeldRight, Taken
<1>7. QED BY <1>5, <1>6 DEF KVInv

LEMMA KVStep ==
  ASSUME ControlType, ControlType', ControlInv, ControlInv', RowsInv, KVInv, flushes \in Nat,
         [Next]_vars, [FlushIdle]_vars
  PROVE  KVInv'
<1>1. phase # "exited" => ChunkGoesOn BY DEF RowsInv
<1>2. CASE Quiet /\ ~StartPrefill /\ ~AdmitOne BY <1>2, KVQuiet
<1>3. CASE StartPrefill BY <1>3, KVStart
<1>4. CASE AdmitOne BY <1>4, KVAdmit
<1>5. CASE HandleFlush /\ ~UNCHANGED <<freeRows, kvFree, entries>>
  <2>1. FlushIdle BY <1>5 DEF vars, pools
  <2>2. ChunkGoesOn BY <1>1, <1>5 DEF HandleFlush
  <2>3. QED BY <1>5, <2>1, <2>2, KVFlush
<1>6. CASE MergeLastBatch \/ FetchChunked
  <2>1. ChunkGoesOn BY <1>1, <1>6 DEF MergeLastBatch, FetchChunked
  <2>2. QED BY <1>6, <2>1, KVTakenOver
<1>7. CASE LaunchPrefill BY <1>7, KVPrefill
<1>8. CASE DecodeRunning BY <1>8, KVDecode
<1>9. CASE NothingToRun BY <1>9, KVIdle
<1>10. CASE ApplyResult
  <2>1. ChunkGoesOn BY <1>1, <1>10 DEF ApplyResult
  <2>2. QED BY <1>10, <2>1, KVResult
<1>11. CASE ExitOnPrefill \/ ExitOnDecode
  <2>1. phase' = "exited" /\ UNCHANGED <<kvFree, kvHeld>>
    BY <1>11 DEF ExitOnPrefill, ExitOnDecode, pools
  <2>2. QED BY <2>1 DEF KVInv, KVSum
<1>12. CASE UNCHANGED vars
  <2>1. /\ UNCHANGED <<phase, cur, batch, runningBatch, lastBatch, finished, beingChunkedReq, adder>>
        /\ UNCHANGED <<freeRows, row, kvFree, kvHeld, entries, prefix, fill, outputs>>
    BY <1>12 DEF vars, slots, requests, pools
  <2>2. /\ Newest' = Newest /\ Age' = Age /\ Launched' = Launched /\ Joined' = Joined
        /\ Running' = Running /\ Awaited' = Awaited
    BY <2>1 DEF Newest, Age, Launched, Joined, Running, Awaited
  <2>3. Fresh' = Fresh /\ Chain' = Chain BY <2>2 DEF Fresh, Chain
  <2>4. InSlot' = InSlot BY <2>2, <2>3 DEF InSlot
  <2>5. Owners' = Owners BY <2>1, <2>3, <2>4 DEF Owners
  <2>6. Due' = Due BY <2>2 DEF Due, Whole
  <2>7. HeldRight => HeldRight' BY <2>1, <2>3, <2>5, <2>6 DEF HeldRight, ChunkRowFreed
  <2>8. (Taken => Taken') /\ (LenType => LenType') /\ (KVSum => KVSum')
    BY <2>1, <2>5 DEF Taken, LenType, KVSum, FullLen
  <2>9. QED BY <2>1, <2>7, <2>8 DEF KVInv
<1>13. QED
  BY <1>2, <1>3, <1>4, <1>5, <1>6, <1>7, <1>8, <1>9, <1>10, <1>11, <1>12
  DEF Next, Iterate, Receive, Quiet

\* What the run checks.
LEMMA KVFollow ==
  ASSUME ControlType, ControlInv, RowsInv, KVInv
  PROVE  KVAccounted
<1>1. KVSum BY DEF KVInv
<1>2. SumFunction(kvHeld) = SumFunctionOnSet(kvHeld, Req)
  <2>1. DOMAIN kvHeld = Req BY <1>1 DEF KVSum
  <2>2. QED BY <2>1 DEF SumFunction
<1>3. kvFree + SumFunction(kvHeld) = KVSize BY <1>1, <1>2 DEF KVSum
<1>4. ASSUME phase = "recv", NEW r \in Req PROVE kvHeld[r] # 0 <=> r \in InBatches
  <2>1. ChunkGoesOn /\ HeldRight BY <1>4 DEF RowsInv, KVInv
  <2>2. InBatches = Owners BY <1>4, <2>1, BatchesOwners
  <2>3. CASE r \notin Owners BY <2>1, <2>2, <2>3 DEF HeldRight
  <2>4. CASE r \in Owners /\ r = Chain
    <3>1. Chain # NoReq BY <2>4, ReqAssumption
    <3>2. kvHeld[r] >= 1 BY <2>1, <2>4, <3>1 DEF HeldRight
    <3>3. QED BY <2>2, <2>4, <3>2
  <2>5. CASE r \in Owners \ {Chain}
    <3>1. Prompt[r] \in Nat \ {0} /\ outputs[r] \in Nat BY LenTypes
    <3>2. kvHeld[r] = Prompt[r] + outputs[r] - (IF r \in Due THEN 0 ELSE 1)
      BY <2>1, <2>5 DEF HeldRight
    <3>3. r \in Due \/ outputs[r] >= 1 BY <2>1, <2>5 DEF HeldRight
    <3>4. kvHeld[r] >= 1 BY <3>1, <3>2, <3>3
    <3>5. QED BY <2>2, <2>5, <3>4
  <2>6. QED BY <2>3, <2>4, <2>5
<1>5. QED BY <1>3, <1>4 DEF KVAccounted

\* The KV pool counts what the requests hold, token by token: what a request returns when it
\* ends or is retracted is what its chunks and decode steps have taken.
THEOREM KVAccountedHolds ==
  SafeSpec /\ []SlotHasRoom /\ FlushOnlyWhenIdle => []KVAccounted
<1>1. Init => RowsInv /\ KVInv BY RowsInit, KVInit
<1>2. /\ ControlType /\ ControlInv /\ (ControlType /\ ControlInv)' /\ RowsInv /\ KVInv
      /\ flushes \in Nat /\ [Next]_vars /\ [FlushIdle]_vars
      => (RowsInv /\ KVInv)'
  BY RowsStep, KVStep
<1>3. FlushOnlyWhenIdle => [][FlushIdle]_vars BY DEF FlushOnlyWhenIdle, FlushIdle
<1>4. ControlType /\ ControlInv /\ RowsInv /\ KVInv => KVAccounted BY KVFollow
<1>5. QED BY <1>1, <1>2, <1>3, <1>4, ControlHolds, FlushesCounted, PTL DEF SafeSpec

\* Both, without a condition on what happens, for one slot or few requests and no flush.
THEOREM PoolsWithoutFlush ==
  ASSUME RoomForAll, MaxFlush = 0
  PROVE  SafeSpec => [](RowsAccounted /\ KVAccounted)
<1>1. flushes \in Nat /\ [Next]_vars => [FlushIdle]_vars
  <2> SUFFICES ASSUME flushes \in Nat, Next PROVE flushes' = flushes BY DEF FlushIdle
  <2>1. ~HandleFlush BY DEF HandleFlush
  <2>2. CASE Iterate
    BY <2>2 DEF Iterate, BeginIteration, MergeLastBatch, FetchChunked, SkipPrefill, StartPrefill,
                AdmitOne, NothingAdmitted, LaunchPrefill, ExitOnPrefill, DecodeRunning,
                NothingToRun, ExitOnDecode, ApplyResult, inputs
  <2>3. CASE \E r \in Req : HandleGenerate(r) \/ HandleAbort(r)
    BY <2>3 DEF HandleGenerate, HandleAbort
  <2>4. QED BY <2>1, <2>2, <2>3 DEF Next, Receive
<1>2. SafeSpec => [][FlushIdle]_vars BY <1>1, FlushesCounted, PTL DEF SafeSpec
<1>3. SafeSpec => FlushOnlyWhenIdle BY <1>2 DEF FlushOnlyWhenIdle, FlushIdle
<1>4. QED BY <1>3, RoomHolds, RowsAccountedHolds, KVAccountedHolds, PTL

=============================================================================
