-------------------------- MODULE RebalancerProofs --------------------------
(***************************************************************************)
(* Proofs about Rebalancer, for any number of stages and requests, any     *)
(* prompts and thresholds: moving requests between the slots and the       *)
(* pending batch loses none and doubles none, and moves none whose result  *)
(* a slot still waits for.                                                 *)
(***************************************************************************)
EXTENDS Rebalancer, CollectionLemmas

\* A batch, whatever its tensors hold.
IsBatch(b) ==
  /\ DOMAIN b = {"mode", "reqs", "rows", "partial"}
  /\ b.mode \in {"none", "extend", "decode"}
  /\ b.reqs \in Seq(Req) /\ IsInjective(b.reqs)
  /\ b.partial \in Req \cup {NoReq}

RebType ==
  /\ phase \in {"merge", "rebalance", "launch", "finish"} /\ cur \in Slot
  /\ waiting \in Seq(Req) /\ IsInjective(waiting)
  /\ DOMAIN running = Slot /\ DOMAIN last = Slot
  /\ \A s \in Slot : IsBatch(running[s]) /\ IsBatch(last[s])
  /\ IsBatch(pending) /\ IsBatch(batch)
  /\ chunked \in [Slot -> Req \cup {NoReq}] /\ ppIdx \in [Req -> Slot]
  /\ chunksLeft \in [Req -> Nat] /\ tokensLeft \in [Req -> Nat] /\ arrived \in 0 .. N

\* The batch a slot has launched and not merged yet; who of it is to join its running
\* batch; who runs there.
Launched == [s \in Slot |-> IF s = cur /\ phase = "finish" THEN batch
                            ELSE IF s = cur /\ phase # "merge" THEN NoBatch ELSE last[s]]
Joins == [s \in Slot |-> LET b == Launched[s] IN
           IF b.mode = "extend" THEN ToSet(b.reqs) \ {b.partial} ELSE {}]
Running == [s \in Slot |-> ToSet(running[s].reqs)]
Waiting == ToSet(waiting)
Pending == ToSet(pending.reqs)

\* The slot that launched last, and the prompt it left unfinished; how long ago the others
\* launched, the oldest being 0.
Newest == IF phase = "finish" THEN cur ELSE IF cur = 0 THEN P - 1 ELSE cur - 1
Chunking == chunked[Newest]
Age == [s \in Slot |-> IF s = cur /\ phase # "merge" THEN P
                       ELSE IF s >= cur THEN s - cur ELSE s - cur + P]

\* What a batch that was launched is.
LaunchedRight ==
  \A s \in Slot :
    LET b == Launched[s] IN
    /\ b.mode = "none" => b.reqs = <<>>
    /\ b.mode = "decode" => ToSet(b.reqs) \subseteq Running[s]
    /\ b.partial # NoReq => b.mode = "extend" /\ b.partial \in ToSet(b.reqs)
    /\ s # cur \/ phase \in {"merge", "finish"} => b.partial = chunked[s]

\* The chunked prompt is where the last launch left it.
ChunkRight ==
  /\ Chunking # NoReq => chunksLeft[Chunking] > 0 /\ ppIdx[Chunking] = Newest
  /\ \A s \in Slot \ {Newest} : chunked[s] # NoReq =>
       ppIdx[chunked[s]] # s /\ (chunksLeft[chunked[s]] > 0 => chunked[s] = Chunking)
  /\ P > 1 /\ phase \in {"rebalance", "launch"} => chunked[cur] = NoReq
  /\ \A r \in Req : r \in Waiting \/ r > arrived => chunksLeft[r] > 0

\* A prompt that a slot has left goes on, or is in a batch that was launched later.
GoesOn ==
  \A s \in Slot : LET r == Launched[s].partial IN
    r # NoReq => r = Chunking \/ \E t \in Slot : Age[t] > Age[s] /\ r \in Joins[t]

InQueues == Waiting \cup Pending \cup {Chunking}
Here == [s \in Slot |-> Running[s] \cup Joins[s]]

\* No request is in two places, no unfinished one in none.
Apart ==
  /\ Waiting \cap Pending = {}
  /\ Chunking \notin Waiting \cup Pending
  /\ \A s \in Slot : Here[s] \cap InQueues = {} /\ Running[s] \cap Joins[s] = {}
  /\ \A s, t \in Slot : s # t => Here[s] \cap Here[t] = {}

Known ==
  /\ InQueues \subseteq (1 .. arrived) \cup {NoReq}
  /\ \A s \in Slot : Here[s] \subseteq 1 .. arrived
  /\ \A r \in 1 .. arrived : ~Finished(r) => r \in InQueues \/ \E s \in Slot : r \in Here[s]

RebInv == RebType /\ LaunchedRight /\ ChunkRight /\ GoesOn /\ Apart /\ Known

-----------------------------------------------------------------------------
(* What the operations on batches make of their requests.                    *)

LEMMA NoBatchIs == IsBatch(NoBatch) /\ NoBatch.reqs = <<>> /\ ToSet(NoBatch.reqs) = {}
                   /\ NoBatch.mode = "none" /\ NoBatch.partial = NoReq
<1>1. NoBatch.reqs = <<>> /\ ToSet(<<>>) = {} /\ <<>> \in Seq(Req) /\ IsInjective(<<>>)
  BY DEF NoBatch, ToSet, IsInjective
<1>2. QED BY <1>1 DEF NoBatch, IsBatch

\* c is b with the requests q and other rows.
With(c, b, q) ==
  /\ DOMAIN c = DOMAIN b /\ c.reqs = q /\ c.mode = b.mode /\ c.partial = b.partial

Put(b, q, w) == [b EXCEPT !.reqs = q, !.rows = w]

LEMMA BatchWith ==
  ASSUME NEW b, IsBatch(b), NEW q, NEW w
  PROVE  With(Put(b, q, w), b, q)
<1> DEFINE c == Put(b, q, w)
<1>1. DOMAIN b = {"mode", "reqs", "rows", "partial"} BY DEF IsBatch
<1>2. DOMAIN c = DOMAIN b BY DEF Put
<1>3. c.reqs = q BY <1>1 DEF Put
<1>4. c.mode = b.mode BY <1>1 DEF Put
<1>5. c.partial = b.partial BY <1>1 DEF Put
<1> HIDE DEF c
<1>6. With(c, b, q) BY <1>1, <1>2, <1>3, <1>4, <1>5 DEF With
<1>7. QED BY <1>6 DEF c

LEMMA WithIs ==
  ASSUME NEW b, IsBatch(b), NEW q \in Seq(Req), IsInjective(q), NEW c, With(c, b, q)
  PROVE  IsBatch(c) /\ c.reqs = q /\ c.mode = b.mode /\ c.partial = b.partial
BY DEF With, IsBatch

LEMMA MergeIs ==
  ASSUME NEW a, IsBatch(a), NEW b, IsBatch(b), ToSet(a.reqs) \cap ToSet(b.reqs) = {}
  PROVE  LET c == Merge(a, b) IN
         /\ IsBatch(c) /\ ToSet(c.reqs) = ToSet(a.reqs) \cup ToSet(b.reqs)
         /\ c.mode = a.mode /\ c.partial = a.partial
<1> DEFINE q == a.reqs \o b.reqs
           w == a.rows \o b.rows
<1>1. /\ a.reqs \in Seq(Req) /\ b.reqs \in Seq(Req) /\ IsInjective(a.reqs) /\ IsInjective(b.reqs)
      /\ DOMAIN a = {"mode", "reqs", "rows", "partial"}
  BY DEF IsBatch
<1>2. q \in Seq(Req) /\ IsInjective(q) /\ ToSet(q) = ToSet(a.reqs) \cup ToSet(b.reqs)
  BY <1>1, JoinedElements
<1>3. Merge(a, b) = Put(a, q, w) BY <1>1 DEF Merge, Put
<1> HIDE DEF q, w
<1> DEFINE c == Merge(a, b)
<1> HIDE DEF c
<1>4. With(c, a, q) BY <1>3, BatchWith DEF c
<1>5. IsBatch(c) /\ c.reqs = q /\ c.mode = a.mode /\ c.partial = a.partial
  BY <1>2, <1>4, WithIs
<1>6. QED BY <1>2, <1>5 DEF c

\* The elements from place i to place j.
Between(b, i, j) == {b.reqs[k] : k \in i .. j}

LEMMA SliceIs ==
  ASSUME NEW b, NEW i \in Nat \ {0}, NEW j \in Nat, IsBatch(b), j <= Len(b.reqs)
  PROVE  IsBatch(Slice(b, i, j)) /\ ToSet(Slice(b, i, j).reqs) = Between(b, i, j)
<1>1. CASE i > j
  <2>1. i .. j = {} BY <1>1
  <2>2. Slice(b, i, j) = NoBatch BY <1>1 DEF Slice
  <2>3. {b.reqs[k] : k \in i .. j} = {} BY <2>1
  <2>4. QED BY <2>2, <2>3, NoBatchIs DEF Between
<1>2. CASE ~(i > j)
  <2> DEFINE u == b.reqs
             q == SubSeq(u, i, j)
             w == SubSeq(b.rows, i, j)
  <2>1. u \in Seq(Req) /\ IsInjective(u) /\ DOMAIN b = {"mode", "reqs", "rows", "partial"}
    BY DEF IsBatch
  <2> HIDE DEF u
  <2>2. Len(u) \in Nat /\ j <= Len(u) /\ DOMAIN u = 1 .. Len(u) BY <2>1 DEF u
  <2>3. /\ q = [k \in 1 .. j - i + 1 |-> u[i + k - 1]] /\ j - i + 1 \in Nat
        /\ \A k \in 1 .. j - i + 1 : i + k - 1 \in i .. j /\ i + k - 1 \in DOMAIN u
        /\ \A k \in i .. j : k - i + 1 \in 1 .. j - i + 1 /\ i + (k - i + 1) - 1 = k
    BY <1>2, <2>1, <2>2
  <2>4. \A k \in 1 .. j - i + 1 : u[i + k - 1] \in Req BY <2>1, <2>2, <2>3
  <2>5. [k \in 1 .. j - i + 1 |-> u[i + k - 1]] \in Seq(Req) BY <2>3, <2>4
  <2> DEFINE n == j - i + 1
  <2>6. n \in Nat /\ DOMAIN q = 1 .. n /\ \A k \in 1 .. n : q[k] = u[i + k - 1] BY <2>3
  <2>7. q \in Seq(Req) BY <2>3, <2>5
  <2>8. ToSet(q) = {u[k] : k \in i .. j}
    <3>1. ToSet(q) = {q[k] : k \in 1 .. n} BY <2>6 DEF ToSet
    <3> HIDE DEF q
    <3>2. ASSUME NEW k \in 1 .. n PROVE q[k] \in {u[l] : l \in i .. j} BY <2>3, <2>6
    <3>3. ASSUME NEW l \in i .. j PROVE u[l] \in {q[k] : k \in 1 .. n}
      <4>1. l - i + 1 \in 1 .. n /\ q[l - i + 1] = u[l] BY <2>3, <2>6
      <4>2. QED BY <4>1
    <3>4. QED BY <3>1, <3>2, <3>3
  <2>9. IsInjective(q)
    <3> HIDE DEF q
    <3>1. ASSUME NEW x \in 1 .. n, NEW y \in 1 .. n, q[x] = q[y] PROVE x = y
      <4>1. i + x - 1 = i + y - 1 BY <2>1, <2>3, <2>6, <3>1 DEF IsInjective
      <4>2. QED BY <4>1
    <3>2. QED BY <2>6, <3>1 DEF IsInjective
  <2>10. Slice(b, i, j) = Put(b, q, w) BY <1>2, <2>1 DEF Slice, Put, u
  <2> HIDE DEF q, w, n
  <2> DEFINE c == Slice(b, i, j)
  <2> HIDE DEF c
  <2>11. With(c, b, q) BY <2>10, BatchWith DEF c
  <2>12. IsBatch(c) /\ c.reqs = q BY <2>7, <2>9, <2>11, WithIs
  <2>13. QED BY <2>8, <2>12 DEF c, u, Between
<1>3. QED BY <1>1, <1>2

\* A batch cut in two.
LEMMA CutIs ==
  ASSUME NEW b, IsBatch(b), NEW k \in 0 .. Len(b.reqs)
  PROVE  LET head == Slice(b, 1, k)  tail == Slice(b, k + 1, Len(b.reqs)) IN
         /\ IsBatch(head) /\ IsBatch(tail)
         /\ ToSet(head.reqs) \cup ToSet(tail.reqs) = ToSet(b.reqs)
         /\ ToSet(head.reqs) \cap ToSet(tail.reqs) = {}
<1> DEFINE head == Slice(b, 1, k)
           tail == Slice(b, k + 1, Len(b.reqs))
<1>1. /\ b.reqs \in Seq(Req) /\ IsInjective(b.reqs) /\ Len(b.reqs) \in Nat
      /\ DOMAIN b.reqs = 1 .. Len(b.reqs)
  BY DEF IsBatch
<1>2. k \in Nat /\ k <= Len(b.reqs) /\ k + 1 \in Nat \ {0} /\ 1 \in Nat \ {0} BY <1>1
<1> DEFINE l == k + 1
           n == Len(b.reqs)
<1> HIDE DEF l, n
<1>3. IsBatch(head) /\ ToSet(head.reqs) = {b.reqs[i] : i \in 1 .. k}
  <2> DEFINE one == 1
             h == k
  <2> HIDE DEF one, h
  <2>1. one \in Nat \ {0} /\ h \in Nat /\ h <= Len(b.reqs) BY <1>2 DEF one, h
  <2>2. IsBatch(Slice(b, one, h)) /\ ToSet(Slice(b, one, h).reqs) = Between(b, one, h)
    BY <2>1, SliceIs
  <2>3. QED BY <2>2 DEF one, h, Between
<1>4. IsBatch(tail) /\ ToSet(tail.reqs) = {b.reqs[i] : i \in k + 1 .. Len(b.reqs)}
  <2>1. l \in Nat \ {0} /\ n \in Nat /\ n <= Len(b.reqs) BY <1>1, <1>2 DEF l, n
  <2>2. IsBatch(Slice(b, l, n)) /\ ToSet(Slice(b, l, n).reqs) = Between(b, l, n)
    BY <2>1, SliceIs
  <2>3. QED BY <2>2 DEF l, n, Between
<1> HIDE DEF head, tail
<1>5. ToSet(b.reqs) = {b.reqs[i] : i \in 1 .. Len(b.reqs)} BY <1>1 DEF ToSet
<1>6. \A i \in 1 .. Len(b.reqs) : i \in 1 .. k \/ i \in k + 1 .. Len(b.reqs) BY <1>1, <1>2
<1>7. /\ \A i \in 1 .. k : i \in 1 .. Len(b.reqs)
      /\ \A i \in k + 1 .. Len(b.reqs) : i \in 1 .. Len(b.reqs)
      /\ \A i \in 1 .. k : \A j \in k + 1 .. Len(b.reqs) : i # j
  BY <1>1, <1>2
<1>8. ToSet(head.reqs) \cup ToSet(tail.reqs) = ToSet(b.reqs) BY <1>3, <1>4, <1>5, <1>6, <1>7
<1>9. \A i \in 1 .. k : \A j \in k + 1 .. Len(b.reqs) : b.reqs[i] # b.reqs[j]
  BY <1>1, <1>7 DEF IsInjective
<1>10. ToSet(head.reqs) \cap ToSet(tail.reqs) = {} BY <1>3, <1>4, <1>9
<1>11. QED BY <1>3, <1>4, <1>8, <1>10 DEF head, tail

\* What filter_batch keeps.
LEMMA FilterIs ==
  ASSUME NEW b, IsBatch(b), NEW x
  PROVE  LET c == Filter(b, x) IN
         /\ IsBatch(c) /\ ToSet(c.reqs) = {r \in ToSet(b.reqs) : ~Finished(r) /\ r # x}
         /\ c.mode = b.mode /\ c.partial = b.partial
<1> DEFINE u == b.reqs
           kept == {i \in DOMAIN u : ~Finished(u[i]) /\ u[i] # x}
           ids == [i \in DOMAIN u |-> i]
           keep == Without(ids, DOMAIN u \ kept)
           K == {r \in ToSet(u) : ~Finished(r) /\ r # x}
<1>1. u \in Seq(Req) /\ IsInjective(u) /\ DOMAIN b = {"mode", "reqs", "rows", "partial"}
  BY DEF IsBatch
<1> HIDE DEF u
<1>2. K = {u[i] : i \in kept} BY DEF ToSet
<1>3. Filter(b, x) = IF kept = {} THEN [b EXCEPT !.reqs = <<>>]
                     ELSE IF kept = DOMAIN u THEN b
                     ELSE [b EXCEPT !.reqs = [k \in DOMAIN keep |-> u[keep[k]]],
                                    !.rows = [k \in DOMAIN keep |-> b.rows[keep[k]]]]
  BY DEF Filter, u
<1>4. CASE kept = {}
  <2>1. K = {} BY <1>2, <1>4
  <2>2. <<>> \in Seq(Req) /\ IsInjective(<<>>) /\ ToSet(<<>>) = {} BY DEF IsInjective, ToSet
  <2>3. Filter(b, x) = Put(b, <<>>, b.rows)
    <3>1. Filter(b, x) = [b EXCEPT !.reqs = <<>>] BY <1>3, <1>4
    <3>2. [b EXCEPT !.reqs = <<>>] = Put(b, <<>>, b.rows) BY <1>1 DEF Put
    <3>3. QED BY <3>1, <3>2
  <2> DEFINE c == Filter(b, x)
             w == b.rows
  <2> HIDE DEF c, w
  <2>4. With(c, b, <<>>) BY <2>3, BatchWith DEF c, w
  <2>5. IsBatch(c) /\ c.reqs = <<>> /\ c.mode = b.mode /\ c.partial = b.partial
    BY <2>2, <2>4, WithIs
  <2>6. QED BY <2>1, <2>2, <2>5 DEF c, u
<1>5. CASE kept # {} /\ kept = DOMAIN u
  <2>1. K = ToSet(u) BY <1>2, <1>5 DEF ToSet
  <2>2. QED BY <1>3, <1>5, <2>1 DEF u
<1>6. CASE kept # {} /\ kept # DOMAIN u
  <2>1. PICK n \in Nat : n = Len(u) /\ DOMAIN u = 1 .. n BY <1>1
  <2>2. ids \in Seq(1 .. n) /\ IsInjective(ids) /\ ToSet(ids) = 1 .. n
    <3>1. ids = [i \in 1 .. n |-> i] BY <2>1
    <3>2. [i \in 1 .. n |-> i] \in Seq(1 .. n) OBVIOUS
    <3>3. QED BY <3>1, <3>2 DEF IsInjective, ToSet
  <2> HIDE DEF ids
  <2>3. /\ keep \in Seq(1 .. n) /\ IsInjective(keep)
        /\ ToSet(keep) = (1 .. n) \ (DOMAIN u \ kept)
    BY <2>2, WithoutElements
  <2>4. ToSet(keep) = kept BY <2>1, <2>3
  <2> HIDE DEF keep
  <2> DEFINE q == [k \in DOMAIN keep |-> u[keep[k]]]
             w == [k \in DOMAIN keep |-> b.rows[keep[k]]]
  <2>5. PICK m \in Nat : DOMAIN keep = 1 .. m /\ \A k \in 1 .. m : keep[k] \in 1 .. n BY <2>3
  <2>6. q \in Seq(Req)
    <3>1. \A k \in 1 .. m : u[keep[k]] \in Req BY <1>1, <2>1, <2>5
    <3>2. [k \in 1 .. m |-> u[keep[k]]] \in Seq(Req) BY <3>1
    <3>3. QED BY <2>5, <3>2
  <2>7. IsInjective(q) BY <1>1, <2>1, <2>3, <2>5 DEF IsInjective
  <2>8. ToSet(q) = K
    <3>1. ToSet(q) = {u[keep[k]] : k \in DOMAIN keep} BY DEF ToSet
    <3>2. kept = {keep[k] : k \in DOMAIN keep} BY <2>4 DEF ToSet
    <3> HIDE DEF kept, q
    <3>3. QED BY <1>2, <3>1, <3>2
  <2>9. Filter(b, x) = Put(b, q, w) BY <1>3, <1>6 DEF Put
  <2> HIDE DEF q, w
  <2> DEFINE c == Filter(b, x)
  <2> HIDE DEF c
  <2>10. With(c, b, q) BY <2>9, BatchWith DEF c
  <2>11. IsBatch(c) /\ c.reqs = q /\ c.mode = b.mode /\ c.partial = b.partial
    BY <2>6, <2>7, <2>10, WithIs
  <2>12. QED BY <2>8, <2>11 DEF c, u
<1>7. QED BY <1>4, <1>5, <1>6

-----------------------------------------------------------------------------
(* Where the iterations are.                                                 *)

LEMMA Neighbours ==
  ASSUME NEW s \in Slot
  PROVE  /\ (s + 1) % P = IF s = P - 1 THEN 0 ELSE s + 1
         /\ (s - 1) % P = IF s = 0 THEN P - 1 ELSE s - 1
<1>1. /\ P \in Nat \ {0} /\ P % P = 0 /\ (-1) % P = P - 1 /\ \A k \in 0 .. P - 1 : k % P = k
      /\ s \in 0 .. P - 1
  BY PAssumption, Remainders DEF Slot
<1>2. (s + 1) % P = IF s = P - 1 THEN 0 ELSE s + 1
  <2>1. CASE s = P - 1
    <3>1. s + 1 = P BY <1>1, <2>1
    <3>2. QED BY <1>1, <2>1, <3>1
  <2>2. CASE s # P - 1
    <3>1. s + 1 \in 0 .. P - 1 BY <1>1, <2>2
    <3>2. QED BY <1>1, <2>2, <3>1
  <2>3. QED BY <2>1, <2>2
<1>3. (s - 1) % P = IF s = 0 THEN P - 1 ELSE s - 1
  <2>1. CASE s = 0
    <3>1. s - 1 = -1 BY <2>1
    <3>2. QED BY <1>1, <2>1, <3>1
  <2>2. CASE s # 0
    <3>1. s - 1 \in 0 .. P - 1 BY <1>1, <2>2
    <3>2. QED BY <1>1, <2>2, <3>1
  <2>3. QED BY <2>1, <2>2
<1>4. QED BY <1>2, <1>3

LEMMA Turns ==
  ASSUME cur \in Slot
  PROVE  /\ Newest \in Slot /\ (phase = "finish" => Newest = cur)
         /\ phase # "finish" => Newest = (cur - 1) % P /\ (Newest = cur <=> P = 1)
         /\ \A s \in Slot : Age[s] \in Nat /\ (Age[s] < P \/ (s = cur /\ phase # "merge"))
         /\ phase = "merge" => Age[cur] = 0
         /\ phase # "merge" => Age[cur] = P
         /\ \A s \in Slot : s # cur => Age[s] > 0
<1>1. P \in Nat \ {0} /\ cur \in 0 .. P - 1 /\ Slot = 0 .. P - 1 BY PAssumption DEF Slot
<1>2. Newest \in Slot /\ (phase = "finish" => Newest = cur) BY <1>1 DEF Newest
<1>3. phase # "finish" => Newest = (cur - 1) % P /\ (Newest = cur <=> P = 1)
  <2>1. (cur - 1) % P = IF cur = 0 THEN P - 1 ELSE cur - 1 BY Neighbours
  <2>2. QED BY <1>1, <2>1 DEF Newest
<1>4. ASSUME NEW s \in Slot
      PROVE  Age[s] = IF s = cur /\ phase # "merge" THEN P
                      ELSE IF s >= cur THEN s - cur ELSE s - cur + P
  BY DEF Age
<1>5. ASSUME NEW s \in Slot
      PROVE  Age[s] \in Nat /\ (Age[s] < P \/ (s = cur /\ phase # "merge")) /\ (s # cur => Age[s] > 0)
  BY <1>1, <1>4
<1>6. Age[cur] = IF phase = "merge" THEN 0 ELSE P BY <1>1, <1>4
<1>7. QED BY <1>2, <1>3, <1>5, <1>6

LEMMA Members ==
  ASSUME RebType
  PROVE  /\ Waiting \subseteq Req /\ Pending \subseteq Req /\ NoReq \notin Req
         /\ Chunking \in Req \cup {NoReq}
         /\ \A s \in Slot : /\ Running[s] \subseteq Req /\ Running[s] = ToSet(running[s].reqs)
                            /\ Joins[s] \subseteq ToSet(Launched[s].reqs)
                            /\ Joins[s] = IF Launched[s].mode = "extend"
                                          THEN ToSet(Launched[s].reqs) \ {Launched[s].partial} ELSE {}
                            /\ ToSet(Launched[s].reqs) \subseteq Req /\ IsBatch(Launched[s])
         /\ Launched[cur] = IF phase = "finish" THEN batch
                            ELSE IF phase = "merge" THEN last[cur] ELSE NoBatch
         /\ \A s \in Slot : s # cur => Launched[s] = last[s]
<1>1. \A b : IsBatch(b) => ToSet(b.reqs) \subseteq Req
  <2>1. ASSUME NEW b, IsBatch(b) PROVE ToSet(b.reqs) \subseteq Req
    <3>1. b.reqs \in Seq(Req) BY <2>1 DEF IsBatch
    <3>2. QED BY <3>1 DEF ToSet
  <2>2. QED BY <2>1
<1>2. cur \in Slot BY DEF RebType
<1>3. /\ Launched[cur] = IF phase = "finish" THEN batch
                         ELSE IF phase = "merge" THEN last[cur] ELSE NoBatch
      /\ \A s \in Slot : s # cur => Launched[s] = last[s]
  BY <1>2 DEF Launched
<1>4. \A s \in Slot : IsBatch(Launched[s]) BY <1>2, <1>3, NoBatchIs DEF RebType
<1>5. Waiting \subseteq Req BY DEF Waiting, RebType, ToSet
<1>6. Pending \subseteq Req BY <1>1 DEF Pending, RebType
<1>7. NoReq \notin Req BY DEF Req, NoReq
<1>8. Chunking \in Req \cup {NoReq} BY <1>2, Turns DEF Chunking, RebType
<1>9. ASSUME NEW s \in Slot
      PROVE  /\ Running[s] \subseteq Req /\ Running[s] = ToSet(running[s].reqs)
             /\ Joins[s] = IF Launched[s].mode = "extend"
                           THEN ToSet(Launched[s].reqs) \ {Launched[s].partial} ELSE {}
             /\ ToSet(Launched[s].reqs) \subseteq Req
  <2>1. Running[s] = ToSet(running[s].reqs) BY DEF Running
  <2>2. IsBatch(running[s]) BY DEF RebType
  <2>3. Running[s] \subseteq Req BY <1>1, <2>1, <2>2
  <2>4. ToSet(Launched[s].reqs) \subseteq Req BY <1>1, <1>4
  <2>5. QED BY <2>1, <2>3, <2>4 DEF Joins
<1>10. QED BY <1>3, <1>4, <1>5, <1>6, <1>7, <1>8, <1>9

-----------------------------------------------------------------------------
(* The steps.                                                                *)

LEMMA InitHolds == Init => RebInv
<1> SUFFICES ASSUME Init PROVE RebInv OBVIOUS
<1> USE DEF Init
<1>1. /\ P \in Nat \ {0} /\ 0 \in Slot /\ N \in Nat /\ Backlog \in 0 .. N /\ NoReq \notin Req
      /\ Chunks \in [Req -> Nat \ {0}] /\ tokensLeft \in [Req -> Nat \ {0}] /\ 1 .. Backlog \subseteq Req
  BY PAssumption, ReqAssumption, TokensAssumption DEF Slot, Req, NoReq
<1>2. waiting \in Seq(Req) /\ IsInjective(waiting) /\ Waiting = 1 .. Backlog
  <2>1. [i \in 1 .. Backlog |-> i] \in Seq(Req) BY <1>1
  <2>2. QED BY <2>1 DEF IsInjective, Waiting, ToSet
<1>3. RebType BY <1>1, <1>2, NoBatchIs DEF RebType
<1>4. \A s \in Slot : Launched[s] = NoBatch BY DEF Launched
<1>5. \A s \in Slot : Running[s] = {} /\ Joins[s] = {} BY <1>4, NoBatchIs DEF Running, Joins
<1>6. Pending = {} /\ Newest \in Slot /\ Chunking = NoReq /\ cur \in Slot
  BY <1>1, NoBatchIs, Turns DEF Pending, Chunking
<1>7. LaunchedRight BY <1>4, NoBatchIs DEF LaunchedRight
<1>8. ChunkRight BY <1>1, <1>6 DEF ChunkRight
<1>9. GoesOn BY <1>4, NoBatchIs DEF GoesOn
<1>10. Apart BY <1>1, <1>2, <1>5, <1>6 DEF Apart, InQueues, Here
<1>11. Known BY <1>1, <1>2, <1>5, <1>6 DEF Known, InQueues, Here
<1>12. QED BY <1>3, <1>7, <1>8, <1>9, <1>10, <1>11 DEF RebInv

\* What the slot launched last joins its running batch, but for the chunked request and
\* those that finished with the prefill.
LEMMA MergeHolds == RebInv /\ MergeLastBatch => RebInv'
<1> SUFFICES ASSUME RebInv, MergeLastBatch PROVE RebInv' OBVIOUS
<1> DEFINE b == last[cur]
           own == chunked[cur] # NoReq /\ ppIdx[chunked[cur]] = cur
           kept == IF b.mode = "extend" /\ chunked[cur] # NoReq THEN Filter(b, chunked[cur]) ELSE b
           joins == b.mode = "extend" /\ kept.reqs # <<>>
           merged == IF ~joins THEN running[cur]
                     ELSE IF running[cur] = NoBatch THEN kept ELSE Merge(running[cur], kept)
<1>1. /\ phase = "merge" /\ phase' = "rebalance" /\ last' = [last EXCEPT ![cur] = kept]
      /\ chunked' = IF b.mode = "extend" /\ ~own THEN [chunked EXCEPT ![cur] = NoReq] ELSE chunked
      /\ running' = [running EXCEPT ![cur] = merged]
      /\ UNCHANGED <<cur, waiting, ppIdx, pending, batch, chunksLeft, tokensLeft, arrived>>
  <2>1. running' = [running EXCEPT ![cur] = IF ~joins THEN @
                                ELSE IF @ = NoBatch THEN kept ELSE Merge(@, kept)]
    BY DEF MergeLastBatch
  <2>2. running' = [running EXCEPT ![cur] = merged] BY <2>1
  <2>3. QED BY <2>2 DEF MergeLastBatch, progress
<1> HIDE DEF kept, joins, merged
<1>2. RebType /\ LaunchedRight /\ ChunkRight /\ GoesOn /\ Apart /\ Known BY DEF RebInv
<1>3. cur \in Slot /\ IsBatch(b) /\ IsBatch(running[cur]) BY <1>2 DEF RebType
<1> USE <1>3
<1>4. /\ Launched[cur] = b /\ Running[cur] = ToSet(running[cur].reqs)
      /\ Joins[cur] = IF b.mode = "extend" THEN ToSet(b.reqs) \ {b.partial} ELSE {}
      /\ ToSet(b.reqs) \subseteq Req /\ NoReq \notin Req /\ b.partial = chunked[cur]
      /\ b.mode = "none" => b.reqs = <<>>
      /\ b.partial # NoReq => b.mode = "extend"
  <2>1. Launched[cur] = b BY <1>1, <1>2, Members
  <2>2. QED BY <1>1, <1>2, <2>1, Members DEF LaunchedRight
<1>5. /\ IsBatch(kept) /\ kept.mode = b.mode
      /\ b.mode = "extend" => /\ ToSet(kept.reqs) \subseteq Joins[cur]
                              /\ \A r \in Joins[cur] : ~Finished(r) => r \in ToSet(kept.reqs)
  <2>1. CASE b.mode = "extend" /\ chunked[cur] # NoReq
    <3> DEFINE x == chunked[cur]
    <3>1. kept = Filter(b, x) BY <2>1 DEF kept
    <3> HIDE DEF x
    <3>2. /\ IsBatch(Filter(b, x)) /\ Filter(b, x).mode = b.mode
          /\ ToSet(Filter(b, x).reqs) = {r \in ToSet(b.reqs) : ~Finished(r) /\ r # x}
      BY FilterIs
    <3>3. Joins[cur] = ToSet(b.reqs) \ {x} BY <1>4, <2>1 DEF x
    <3>4. QED BY <3>1, <3>2, <3>3
  <2>2. CASE ~(b.mode = "extend" /\ chunked[cur] # NoReq)
    BY <1>4, <2>2 DEF kept
  <2>3. QED BY <2>1, <2>2
<1>6. Running[cur] \cap Joins[cur] = {} BY <1>2 DEF Apart
<1>7. /\ IsBatch(merged)
      /\ ToSet(merged.reqs) = Running[cur] \cup (IF joins THEN ToSet(kept.reqs) ELSE {})
  <2>1. CASE ~joins BY <1>4, <2>1 DEF merged
  <2>2. CASE joins /\ running[cur] = NoBatch BY <1>4, <1>5, <2>2, NoBatchIs DEF merged
  <2>3. CASE joins /\ running[cur] # NoBatch
    <3> DEFINE a == running[cur]
    <3> HIDE DEF a
    <3>1. merged = Merge(a, kept) BY <2>3 DEF merged, a
    <3>2. IsBatch(a) /\ IsBatch(kept) /\ ToSet(a.reqs) \cap ToSet(kept.reqs) = {}
      BY <1>4, <1>5, <1>6, <2>3 DEF a, joins
    <3>3. IsBatch(Merge(a, kept)) /\ ToSet(Merge(a, kept).reqs) = ToSet(a.reqs) \cup ToSet(kept.reqs)
      BY <3>2, MergeIs
    <3>4. QED BY <1>4, <2>3, <3>1, <3>3 DEF a
  <2>4. QED BY <2>1, <2>2, <2>3
<1>8. /\ ToSet(merged.reqs) \subseteq Here[cur]
      /\ \A r \in Here[cur] : ~Finished(r) => r \in ToSet(merged.reqs)
  <2>1. ToSet(merged.reqs) \subseteq Here[cur] BY <1>5, <1>7 DEF Here, joins
  <2>2. ASSUME NEW r \in Here[cur], ~Finished(r) PROVE r \in ToSet(merged.reqs)
    <3>1. CASE r \in Running[cur] BY <1>7, <3>1
    <3>2. CASE r \in Joins[cur]
      <4>1. b.mode = "extend" /\ r \in ToSet(kept.reqs) BY <1>4, <1>5, <2>2, <3>2
      <4>2. joins BY <4>1 DEF joins, ToSet
      <4>3. QED BY <1>7, <4>1, <4>2
    <3>3. QED BY <3>1, <3>2 DEF Here
  <2>3. QED BY <2>1, <2>2
<1>9. /\ DOMAIN running' = Slot /\ running'[cur] = merged
      /\ \A s \in Slot : s # cur => running'[s] = running[s]
      /\ DOMAIN last' = Slot /\ last'[cur] = kept /\ \A s \in Slot : s # cur => last'[s] = last[s]
  BY <1>1, <1>2 DEF RebType
<1>10. /\ chunked' \in [Slot -> Req \cup {NoReq}]
       /\ \A s \in Slot : s # cur => chunked'[s] = chunked[s]
       /\ P = 1 => chunked' = chunked
       /\ P # 1 => chunked'[cur] = NoReq
  <2>1. chunked \in [Slot -> Req \cup {NoReq}] BY <1>2 DEF RebType
  <2>2. chunked'[cur] = IF b.mode = "extend" /\ ~own THEN NoReq ELSE chunked[cur] BY <1>1, <2>1
  <2>3. CASE P = 1
    <3>1. Newest = cur BY <1>1, <2>3, Turns
    <3>2. chunked[cur] # NoReq => own BY <1>2, <3>1 DEF ChunkRight, Chunking
    <3>3. chunked' = chunked BY <1>1, <2>1, <3>2
    <3>4. QED BY <2>1, <2>3, <3>3
  <2>4. CASE P # 1
    <3>1. cur \in Slot \ {Newest} BY <1>1, <2>4, Turns
    <3>2. ~own BY <1>2, <3>1 DEF ChunkRight
    <3>3. chunked'[cur] = NoReq BY <1>4, <2>2, <3>2
    <3>4. QED BY <1>1, <2>1, <2>4, <3>3 DEF NoReq
  <2>5. QED BY <2>3, <2>4
<1>11. RebType'
  <2>1. \A s \in Slot : IsBatch(running'[s]) /\ IsBatch(last'[s])
    BY <1>2, <1>5, <1>7, <1>9 DEF RebType
  <2>2. QED BY <1>1, <1>2, <1>9, <1>10, <2>1 DEF RebType
<1>12. /\ Waiting' = Waiting /\ Pending' = Pending /\ Newest' = Newest
       /\ Launched'[cur] = NoBatch /\ Joins'[cur] = {} /\ Running'[cur] = ToSet(merged.reqs)
       /\ \A s \in Slot : s # cur => /\ Launched'[s] = Launched[s] /\ Joins'[s] = Joins[s]
                                     /\ Running'[s] = Running[s]
  <2>1. Waiting' = Waiting /\ Pending' = Pending /\ Newest' = Newest
    BY <1>1 DEF Waiting, Pending, Newest
  <2>2. Launched'[cur] = NoBatch /\ \A s \in Slot : s # cur => Launched'[s] = Launched[s]
    BY <1>1, <1>9 DEF Launched
  <2>3. Joins'[cur] = {} /\ \A s \in Slot : s # cur => Joins'[s] = Joins[s]
    BY <2>2, NoBatchIs DEF Joins
  <2>4. /\ Running'[cur] = ToSet(merged.reqs)
        /\ \A s \in Slot : s # cur => Running'[s] = Running[s]
    BY <1>9 DEF Running
  <2>5. QED BY <2>1, <2>2, <2>3, <2>4
<1>13. Chunking' = Chunking
  BY <1>1, <1>10, <1>12, Turns DEF Chunking
<1>14. LaunchedRight'
  <2>1. ASSUME NEW s \in Slot, s # cur
        PROVE  LET c == Launched'[s] IN
               /\ c.mode = "none" => c.reqs = <<>>
               /\ c.mode = "decode" => ToSet(c.reqs) \subseteq Running'[s]
               /\ c.partial # NoReq => c.mode = "extend" /\ c.partial \in ToSet(c.reqs)
               /\ c.partial = chunked'[s]
    BY <1>2, <1>10, <1>12, <2>1 DEF LaunchedRight
  <2>2. QED BY <1>1, <1>12, <2>1, NoBatchIs DEF LaunchedRight
<1>15. ChunkRight'
  <2>1. ASSUME NEW s \in Slot \ {Newest}, chunked'[s] # NoReq
        PROVE  chunked[s] # NoReq /\ chunked'[s] = chunked[s]
    BY <1>1, <1>10, <2>1, Turns
  <2>2. QED BY <1>1, <1>2, <1>10, <1>12, <1>13, <2>1, PAssumption DEF ChunkRight
<1>16. GoesOn'
  <2>1. ASSUME NEW s \in Slot, Launched'[s].partial # NoReq
        PROVE  \/ Launched'[s].partial = Chunking'
               \/ \E t \in Slot : Age'[t] > Age'[s] /\ Launched'[s].partial \in Joins'[t]
    <3>1. s # cur /\ Launched'[s] = Launched[s] BY <1>12, <2>1, NoBatchIs
    <3>2. \A t \in Slot : t # cur => Age'[t] = Age[t] BY <1>1 DEF Age
    <3>3. Age[cur] = 0 /\ Age[s] \in Nat BY <1>1, Turns
    <3>4. \/ Launched[s].partial = Chunking
          \/ \E t \in Slot : Age[t] > Age[s] /\ Launched[s].partial \in Joins[t]
      BY <1>2, <2>1, <3>1 DEF GoesOn
    <3>5. CASE Launched[s].partial = Chunking BY <1>13, <3>1, <3>5
    <3>6. ASSUME NEW t \in Slot, Age[t] > Age[s], Launched[s].partial \in Joins[t]
          PROVE  Age'[t] > Age'[s] /\ Launched'[s].partial \in Joins'[t]
      <4>1. t # cur BY <3>3, <3>6
      <4>2. QED BY <1>12, <3>1, <3>2, <3>6, <4>1
    <3>7. QED BY <3>4, <3>5, <3>6
  <2>2. QED BY <2>1 DEF GoesOn
<1>17. InQueues' = InQueues BY <1>12, <1>13 DEF InQueues
<1>18. \A s \in Slot : /\ Here'[s] \subseteq Here[s] /\ (Running[s] \cap Joins[s])' = {}
                       /\ \A r \in Here[s] : ~Finished(r) => r \in Here'[s]
  BY <1>2, <1>8, <1>12 DEF Here, Apart
<1>19. Apart' BY <1>2, <1>12, <1>13, <1>17, <1>18 DEF Apart
<1>20. Known' BY <1>1, <1>2, <1>17, <1>18 DEF Known, Finished
<1>21. QED BY <1>11, <1>14, <1>15, <1>16, <1>19, <1>20 DEF RebInv

\* n_reqs_total is no negative number, and no more moves than there is.
LEMMA TotalIsNat ==
  ASSUME RebInv, phase # "merge", NEW r, IsBatch(r)
  PROVE  TotalRequests(r) \in Nat
<1> DEFINE counted == [s \in Slot |->
                         IF s = cur THEN (IF shared THEN Size(r) ELSE Size(last[s]))
                         ELSE Size(last[s]) - (IF chunked[s] # NoReq THEN 1 ELSE 0)]
<1>1. RebType /\ LaunchedRight BY DEF RebInv
<1>2. \A b : IsBatch(b) => Size(b) \in Nat BY DEF IsBatch, Size
<1>3. ASSUME NEW s \in Slot PROVE counted[s] \in Nat
  <2>1. Size(r) \in Nat /\ Size(last[s]) \in Nat BY <1>1, <1>2 DEF RebType
  <2>2. ASSUME s # cur, chunked[s] # NoReq PROVE Size(last[s]) > 0
    <3>1. last[s].partial = chunked[s] /\ chunked[s] \in ToSet(last[s].reqs)
      <4>1. Launched[s] = last[s] BY <1>1, <2>2, Members
      <4>2. QED BY <1>1, <2>2, <4>1 DEF LaunchedRight
    <3>2. last[s].reqs \in Seq(Req) /\ DOMAIN last[s].reqs # {}
      BY <1>1, <3>1 DEF RebType, IsBatch, ToSet
    <3>3. QED BY <3>2 DEF Size
  <2>3. QED BY <2>1, <2>2
<1>4. counted \in [Slot -> Nat] BY <1>3
<1>5. IsFiniteSet(Slot)
  <2>1. 0 \in Int /\ P - 1 \in Int BY PAssumption
  <2>2. QED BY <2>1, FS_Interval DEF Slot
<1> HIDE DEF counted
<1>6. SumFunctionOnSet(counted, Slot) \in Nat
  <2> DEFINE T == {s \in SUBSET Slot : SumFunctionOnSet(counted, s) \in Nat}
  <2>1. counted \in [Slot -> Int] BY <1>4
  <2>2. /\ SumFunctionOnSet(counted, {}) = 0
        /\ \A s \in SUBSET Slot : \A x \in Slot \ s :
             SumFunctionOnSet(counted, s \cup {x}) = SumFunctionOnSet(counted, s) + counted[x]
    BY <1>5, <2>1, SumAdded
  <2>3. {} \in T BY <2>2
  <2>4. ASSUME NEW s \in SUBSET Slot, NEW x \in Slot \ s, s \in T PROVE s \cup {x} \in T
    <3>1. SumFunctionOnSet(counted, s) \in Nat /\ counted[x] \in Nat BY <1>4, <2>4
    <3>2. SumFunctionOnSet(counted, s \cup {x}) \in Nat BY <2>2, <3>1
    <3>3. QED BY <3>2
  <2> HIDE DEF T
  <2>5. SUBSET Slot \subseteq T BY <1>5, <2>3, <2>4, InductionOnSubsets
  <2>6. QED BY <2>5 DEF T
<1>7. Size(pending) \in Nat BY <1>1, <1>2 DEF RebType
<1>8. TotalRequests(r) = SumFunctionOnSet(counted, Slot) + Size(pending)
  BY DEF TotalRequests, counted
<1>9. QED BY <1>6, <1>7, <1>8

LEMMA Quotient ==
  ASSUME NEW a \in Nat, NEW b \in Nat \ {0}
  PROVE  a \div b \in Nat
OBVIOUS

LEMMA MoveInRange ==
  ASSUME RebType, NEW r, IsBatch(r), NEW n \in Nat, NEW headroom
  PROVE  LET k == Move(r, n, headroom) IN k \in Int /\ k <= Size(r) /\ -k <= Size(pending)
<1> DEFINE k == Move(r, n, headroom)
           m == Size(pending)
           z == Size(r)
           q == n \div P
           d == Threshold(n) \div P
           l == LocalLimit(n)
           take(x) == IF x > 0 THEN -Min({x, m}) ELSE 0
<1>1. m \in Nat /\ z \in Nat
  <2>1. \A b : IsBatch(b) => Size(b) \in Nat BY DEF IsBatch, Size
  <2>2. IsBatch(pending) BY DEF RebType
  <2>3. QED BY <2>1, <2>2
<1>2. P \in Nat \ {0} /\ BaseUnit \in Nat \ {0} /\ BaseTh \in Nat \ {0} BY PAssumption DEF BaseTh
<1>3. q \in Nat /\ d \in Nat /\ l \in Nat
  <2>1. q \in Nat BY <1>2, Quotient
  <2>2. n \div BaseTh \in Nat BY <1>2, Quotient
  <2>3. Threshold(n) \in Nat BY <1>2, <2>2 DEF Threshold
  <2>4. d \in Nat BY <1>2, <2>3, Quotient
  <2>5. l \in Nat BY <1>2, <2>4 DEF LocalLimit
  <2>6. QED BY <2>1, <2>4, <2>5
<1>4. ASSUME NEW x \in Int PROVE take(x) \in Int /\ take(x) <= 0 /\ -take(x) <= m
  <2>1. CASE x > 0
    <3>1. Min({x, m}) = IF x < m THEN x ELSE m BY <1>1 DEF Min
    <3>2. QED BY <1>1, <2>1, <3>1
  <2>2. CASE ~(x > 0) BY <1>1, <2>2
  <2>3. QED BY <2>1, <2>2
<1>5. k = IF Suppressed(n, headroom)
          THEN IF z > d THEN z - d ELSE take(d - z)
          ELSE IF q - z > 0 /\ m > 0 THEN take(q - z)
          ELSE IF ~headroom /\ z > l THEN z - l ELSE 0
  BY DEF Move
<1> HIDE DEF k, m, z, q, d, l, take
<1>6. d - z \in Int /\ q - z \in Int BY <1>1, <1>3
<1>7. CASE Suppressed(n, headroom)
  <2>1. CASE z > d BY <1>1, <1>3, <1>5, <1>7, <2>1 DEF k, m, z
  <2>2. CASE ~(z > d)
    <3>1. k = take(d - z) BY <1>5, <1>7, <2>2
    <3>2. k \in Int /\ k <= 0 /\ -k <= m BY <1>4, <1>6, <3>1
    <3>3. k <= z BY <1>1, <3>2
    <3>4. QED BY <3>2, <3>3 DEF k, m, z
  <2>3. QED BY <2>1, <2>2
<1>8. CASE ~Suppressed(n, headroom)
  <2>1. CASE q - z > 0 /\ m > 0
    <3>1. k = take(q - z) BY <1>5, <1>8, <2>1
    <3>2. k \in Int /\ k <= 0 /\ -k <= m BY <1>4, <1>6, <3>1
    <3>3. k <= z BY <1>1, <3>2
    <3>4. QED BY <3>2, <3>3 DEF k, m, z
  <2>2. CASE ~(q - z > 0 /\ m > 0)
    <3>1. k = IF ~headroom /\ z > l THEN z - l ELSE 0 BY <1>5, <1>8, <2>2
    <3>2. k \in Int /\ k <= z /\ -k <= m BY <1>1, <1>3, <3>1
    <3>3. QED BY <3>2 DEF k, m, z
  <2>3. QED BY <2>1, <2>2
<1>9. QED BY <1>7, <1>8

\* x and q have the requests of r and p, each in one of them.
Exchanged(x, q, r, p) ==
  /\ IsBatch(x) /\ IsBatch(q)
  /\ ToSet(x.reqs) \cup ToSet(q.reqs) = ToSet(r.reqs) \cup ToSet(p.reqs)
  /\ ToSet(x.reqs) \cap ToSet(q.reqs) = {}

\* One half of r stays, the other half joins p, before or after p's own.
LEMMA HalfMoves ==
  ASSUME NEW r, IsBatch(r), NEW p, IsBatch(p), ToSet(r.reqs) \cap ToSet(p.reqs) = {},
         NEW k \in 0 .. Len(r.reqs)
  PROVE  LET head == Slice(r, 1, k)  tail == Slice(r, k + 1, Len(r.reqs)) IN
         /\ Exchanged(head, Merge(tail, p), r, p) /\ Exchanged(tail, Merge(head, p), r, p)
         /\ Exchanged(Merge(p, tail), head, p, r) /\ Exchanged(Merge(tail, p), head, p, r)
<1> DEFINE head == Slice(r, 1, k)
           tail == Slice(r, k + 1, Len(r.reqs))
<1>1. /\ IsBatch(head) /\ IsBatch(tail)
      /\ ToSet(head.reqs) \cup ToSet(tail.reqs) = ToSet(r.reqs)
      /\ ToSet(head.reqs) \cap ToSet(tail.reqs) = {}
  BY CutIs
<1> HIDE DEF head, tail
<1>2. ToSet(tail.reqs) \cap ToSet(p.reqs) = {} /\ ToSet(p.reqs) \cap ToSet(tail.reqs) = {}
      /\ ToSet(head.reqs) \cap ToSet(p.reqs) = {}
  BY <1>1
<1>3. /\ IsBatch(Merge(tail, p)) /\ ToSet(Merge(tail, p).reqs) = ToSet(tail.reqs) \cup ToSet(p.reqs)
      /\ IsBatch(Merge(head, p)) /\ ToSet(Merge(head, p).reqs) = ToSet(head.reqs) \cup ToSet(p.reqs)
      /\ IsBatch(Merge(p, tail)) /\ ToSet(Merge(p, tail).reqs) = ToSet(p.reqs) \cup ToSet(tail.reqs)
  BY <1>1, <1>2, MergeIs
<1>4. Exchanged(head, Merge(tail, p), r, p) BY <1>1, <1>3 DEF Exchanged
<1>5. Exchanged(tail, Merge(head, p), r, p) BY <1>1, <1>3 DEF Exchanged
<1>6. Exchanged(Merge(p, tail), head, p, r) BY <1>1, <1>3 DEF Exchanged
<1>7. Exchanged(Merge(tail, p), head, p, r) BY <1>1, <1>3 DEF Exchanged
<1>8. QED BY <1>4, <1>5, <1>6, <1>7 DEF head, tail

LEMMA GiveIs ==
  ASSUME NEW r, IsBatch(r), IsBatch(pending), ToSet(r.reqs) \cap Pending = {},
         NEW k \in Int, 0 < k, k <= Size(r), NEW tpot, Give(r, k, tpot)
  PROVE  \E x : running' = [running EXCEPT ![cur] = x] /\ Exchanged(x, pending', r, pending)
<1> DEFINE n == Len(r.reqs)
<1>1. n \in Nat /\ k \in 0 .. n /\ n - k \in 0 .. n BY DEF IsBatch, Size
<1>2. ToSet(r.reqs) \cap ToSet(pending.reqs) = {} BY DEF Pending
<1>3. CASE tpot
  <2> DEFINE h == n - k
             x == Slice(r, 1, h)
             q == Merge(Slice(r, h + 1, n), pending)
  <2>1. running' = [running EXCEPT ![cur] = x] /\ pending' = q BY <1>3 DEF Give, Size
  <2>2. Exchanged(x, q, r, pending)
    <3> HIDE DEF h
    <3>1. h \in 0 .. Len(r.reqs) BY <1>1 DEF h
    <3>2. QED BY <1>2, <3>1, HalfMoves
  <2>3. QED BY <2>1, <2>2
<1>4. CASE ~tpot
  <2> DEFINE x == Slice(r, k + 1, n)
             q == Merge(Slice(r, 1, k), pending)
  <2>1. running' = [running EXCEPT ![cur] = x] /\ pending' = q BY <1>4 DEF Give, Size
  <2>2. Exchanged(x, q, r, pending) BY <1>1, <1>2, HalfMoves
  <2>3. QED BY <2>1, <2>2
<1>5. QED BY <1>3, <1>4

LEMMA TakeIs ==
  ASSUME NEW r, IsBatch(r), IsBatch(pending), ToSet(r.reqs) \cap Pending = {},
         NEW k \in Int, 0 < k, k <= Size(pending), NEW tpot, Take(r, k, tpot)
  PROVE  \E x : running' = [running EXCEPT ![cur] = x] /\ Exchanged(x, pending', r, pending)
<1> DEFINE n == Len(pending.reqs)
           h == n - k
           taken == Slice(pending, h + 1, n)
           q == Slice(pending, 1, h)
           x == IF r.reqs = <<>> THEN taken ELSE IF tpot THEN Merge(r, taken) ELSE Merge(taken, r)
<1>1. n \in Nat /\ h \in 0 .. n BY DEF IsBatch, Size
<1>2. ToSet(pending.reqs) \cap ToSet(r.reqs) = {} BY DEF Pending
<1>3. running' = [running EXCEPT ![cur] = x] /\ pending' = q BY DEF Take, Size
<1> HIDE DEF h
<1>4. Exchanged(Merge(r, taken), q, r, pending) /\ Exchanged(Merge(taken, r), q, r, pending)
  BY <1>1, <1>2, HalfMoves
<1>5. ASSUME r.reqs = <<>> PROVE Exchanged(taken, q, r, pending)
  <2>1. ToSet(r.reqs) = {} BY <1>5 DEF ToSet
  <2>2. /\ IsBatch(q) /\ IsBatch(taken)
        /\ ToSet(q.reqs) \cup ToSet(taken.reqs) = ToSet(pending.reqs)
        /\ ToSet(q.reqs) \cap ToSet(taken.reqs) = {}
    BY <1>1, CutIs
  <2>3. QED BY <2>1, <2>2 DEF Exchanged
<1>6. Exchanged(x, q, r, pending) BY <1>4, <1>5
<1>7. QED BY <1>3, <1>6

\* Requests pass between the running batch of slot cur and the pending batch only.
LEMMA RebalanceHolds ==
  ASSUME RebInv, NEW tpot, NEW headroom, Rebalance(tpot, headroom)
  PROVE  RebInv'
<1>1. /\ phase = "rebalance" /\ phase' = "launch"
      /\ UNCHANGED <<cur, waiting, last, chunked, ppIdx, batch, chunksLeft, tokensLeft, arrived>>
  BY DEF Rebalance, progress
<1>2. RebType /\ LaunchedRight /\ ChunkRight /\ GoesOn /\ Apart /\ Known BY DEF RebInv
<1>3. /\ cur \in Slot /\ IsBatch(running[cur]) /\ IsBatch(pending) /\ DOMAIN running = Slot
      /\ Running[cur] = ToSet(running[cur].reqs)
  BY <1>2, Members DEF RebType
<1> DEFINE Kept(x) ==
             /\ IsBatch(x) /\ IsBatch(pending') /\ ToSet(x.reqs) \cap Pending' = {}
             /\ ToSet(x.reqs) \cup Pending' \subseteq Running[cur] \cup Pending
             /\ \A y \in Running[cur] \cup Pending : ~Finished(y) => y \in ToSet(x.reqs) \cup Pending'
           Ran(x) == /\ DOMAIN running' = Slot /\ running'[cur] = x
                     /\ \A s \in Slot : s # cur => running'[s] = running[s]
<1>4. Running[cur] \cap Pending = {} BY <1>2, <1>3 DEF Apart, Here, InQueues
<1>5. PICK x : Ran(x) /\ Kept(x)
  <2>1. CASE running[cur].reqs = <<>> /\ pending.reqs = <<>>
    <3>1. running' = running /\ pending' = pending BY <2>1 DEF Rebalance
    <3>2. Ran(running[cur]) BY <1>3, <3>1
    <3>3. Kept(running[cur]) BY <1>3, <1>4, <3>1 DEF Pending
    <3>4. QED BY <3>2, <3>3
  <2>2. CASE ~(running[cur].reqs = <<>> /\ pending.reqs = <<>>)
    <3> DEFINE b == running[cur]
               r == Filter(b, NoReq)
               n == TotalRequests(r)
               k == Move(r, n, headroom)
    <3>1. IF k > 0 THEN Give(r, k, tpot)
          ELSE IF k < 0 THEN Take(r, -k, tpot)
          ELSE running' = [running EXCEPT ![cur] = r] /\ UNCHANGED pending
      BY <2>2 DEF Rebalance
    <3>2. IsBatch(r) /\ ToSet(r.reqs) = {y \in Running[cur] : ~Finished(y)}
      <4> HIDE DEF b
      <4>1. IsBatch(b) /\ Running[cur] = ToSet(b.reqs) /\ Running[cur] \subseteq Req /\ NoReq \notin Req
        BY <1>2, <1>3, Members DEF b
      <4>2. IsBatch(r) /\ ToSet(r.reqs) = {y \in ToSet(b.reqs) : ~Finished(y) /\ y # NoReq}
        BY <4>1, FilterIs
      <4>3. QED BY <4>1, <4>2
    <3> HIDE DEF r
    <3>3. n \in Nat BY <1>1, <3>2, TotalIsNat
    <3> HIDE DEF n
    <3>4. k \in Int /\ k <= Size(r) /\ -k <= Size(pending) BY <1>2, <3>2, <3>3, MoveInRange
    <3>5. ToSet(r.reqs) \cap Pending = {} BY <1>4, <3>2
    <3> HIDE DEF k
    <3>6. ASSUME NEW x, Exchanged(x, pending', r, pending) PROVE Kept(x)
      <4>1. Pending' = ToSet(pending'.reqs) /\ Pending = ToSet(pending.reqs) BY DEF Pending
      <4>2. QED BY <3>2, <3>6, <4>1 DEF Exchanged
    <3>7. CASE k > 0
      <4>1. Give(r, k, tpot) BY <3>1, <3>7
      <4>2. PICK x : running' = [running EXCEPT ![cur] = x] /\ Exchanged(x, pending', r, pending)
        BY <1>3, <3>2, <3>4, <3>5, <3>7, <4>1, GiveIs
      <4>3. QED BY <1>3, <3>6, <4>2
    <3>8. CASE k < 0
      <4> DEFINE l == -k
      <4>1. Take(r, l, tpot) /\ l \in Int /\ 0 < l /\ l <= Size(pending) BY <3>1, <3>4, <3>8
      <4> HIDE DEF l
      <4>2. PICK x : running' = [running EXCEPT ![cur] = x] /\ Exchanged(x, pending', r, pending)
        BY <1>3, <3>2, <3>5, <4>1, TakeIs
      <4>3. QED BY <1>3, <3>6, <4>2
    <3>9. CASE k = 0
      <4>1. running' = [running EXCEPT ![cur] = r] /\ pending' = pending BY <3>1, <3>9
      <4>2. Kept(r) BY <1>3, <3>2, <3>5, <4>1 DEF Pending
      <4>3. QED BY <1>3, <4>1, <4>2
    <3>10. QED BY <3>4, <3>7, <3>8, <3>9
  <2>3. QED BY <2>1, <2>2
<1>6. Ran(x) BY <1>5
<1>7. RebType'
  <2>1. \A s \in Slot : IsBatch(running'[s]) BY <1>2, <1>5, <1>6 DEF RebType
  <2>2. QED BY <1>1, <1>2, <1>5, <1>6, <2>1 DEF RebType
<1>8. /\ Waiting' = Waiting /\ Newest' = Newest /\ Chunking' = Chunking /\ Age' = Age
      /\ Launched' = Launched /\ Joins' = Joins /\ Launched[cur] = NoBatch /\ Joins[cur] = {}
      /\ Running'[cur] = ToSet(x.reqs) /\ \A s \in Slot : s # cur => Running'[s] = Running[s]
  <2>1. Newest' = Newest /\ Age' = Age /\ Launched' = Launched BY <1>1 DEF Newest, Age, Launched
  <2>2. Waiting' = Waiting /\ Chunking' = Chunking /\ Joins' = Joins
    BY <1>1, <2>1 DEF Waiting, Chunking, Joins
  <2>3. Launched[cur] = NoBatch /\ Joins[cur] = {} BY <1>1, <1>2, <1>3, Members, NoBatchIs
  <2>4. Running'[cur] = ToSet(x.reqs) /\ \A s \in Slot : s # cur => Running'[s] = Running[s]
    BY <1>3, <1>6 DEF Running
  <2>5. QED BY <2>1, <2>2, <2>3, <2>4
<1>9. LaunchedRight' BY <1>1, <1>2, <1>8, NoBatchIs DEF LaunchedRight
<1>10. ChunkRight' BY <1>1, <1>2, <1>8 DEF ChunkRight
<1>11. GoesOn' BY <1>2, <1>8 DEF GoesOn
<1>12. /\ \A s \in Slot : s # cur => Here'[s] = Here[s]
       /\ Here[cur] = Running[cur] /\ Here'[cur] = ToSet(x.reqs)
       /\ InQueues' = Waiting \cup Pending' \cup {Chunking}
  BY <1>3, <1>8 DEF Here, InQueues
<1>13. /\ Pending' \subseteq Here[cur] \cup Pending /\ Here'[cur] \subseteq Here[cur] \cup Pending
       /\ Here'[cur] \cap Pending' = {}
       /\ \A y \in Here[cur] \cup Pending : ~Finished(y) => y \in Here'[cur] \cup Pending'
  BY <1>5, <1>12
<1>14. \A s \in Slot : s # cur => Here[s] \cap (Here[cur] \cup Pending) = {}
  BY <1>2, <1>3 DEF Apart, InQueues
<1>15. Apart'
  <2>1. Waiting' \cap Pending' = {} /\ Chunking' \notin Waiting' \cup Pending'
    BY <1>2, <1>3, <1>8, <1>13 DEF Apart, InQueues
  <2>2. \A s \in Slot : Here'[s] \cap InQueues' = {}
    <3>1. Here'[cur] \cap InQueues' = {} BY <1>2, <1>3, <1>12, <1>13 DEF Apart, InQueues
    <3>2. ASSUME NEW s \in Slot, s # cur PROVE Here'[s] \cap InQueues' = {}
      BY <1>2, <1>12, <1>13, <1>14, <3>2 DEF Apart, InQueues
    <3>3. QED BY <3>1, <3>2
  <2>3. \A s \in Slot : (Running[s] \cap Joins[s])' = {} BY <1>2, <1>8 DEF Apart
  <2>4. \A s, t \in Slot : s # t => Here'[s] \cap Here'[t] = {}
    BY <1>2, <1>12, <1>13, <1>14 DEF Apart
  <2>5. QED BY <2>1, <2>2, <2>3, <2>4 DEF Apart
<1>16. Known'
  <2>1. InQueues' \subseteq (1 .. arrived) \cup {NoReq}
    <3>1. Here[cur] \subseteq 1 .. arrived /\ InQueues \subseteq (1 .. arrived) \cup {NoReq}
      BY <1>2, <1>3 DEF Known
    <3>2. QED BY <1>12, <1>13, <3>1 DEF InQueues
  <2>2. ASSUME NEW s \in Slot PROVE Here'[s] \subseteq 1 .. arrived
    <3>1. Here[s] \subseteq 1 .. arrived /\ Pending \subseteq InQueues /\ NoReq \notin Pending
      BY <1>2, Members DEF Known, InQueues
    <3>2. InQueues \subseteq (1 .. arrived) \cup {NoReq} BY <1>2 DEF Known
    <3>3. QED BY <1>12, <1>13, <3>1, <3>2
  <2>3. ASSUME NEW r \in 1 .. arrived, ~Finished(r)
        PROVE  r \in InQueues' \/ \E s \in Slot : r \in Here'[s]
    <3>1. r \in InQueues \/ \E s \in Slot : r \in Here[s] BY <1>2, <2>3 DEF Known
    <3>2. CASE r \in InQueues BY <1>3, <1>12, <1>13, <2>3, <3>2 DEF InQueues
    <3>3. ASSUME NEW s \in Slot, r \in Here[s]
          PROVE  r \in InQueues' \/ \E t \in Slot : r \in Here'[t]
      BY <1>3, <1>12, <1>13, <2>3, <3>3
    <3>4. QED BY <3>1, <3>2, <3>3
  <2>4. QED BY <1>1, <2>1, <2>2, <2>3 DEF Known, Finished
<1>17. QED BY <1>7, <1>9, <1>10, <1>11, <1>15, <1>16 DEF RebInv

\* fetch_chunked_prefill finds the prompt the last launch left.
LEMMA FetchedIs ==
  ASSUME RebInv, phase = "launch"
  PROVE  Fetched = Chunking
<1>1. cur \in Slot /\ Newest = (cur - 1) % P /\ (Newest = cur <=> P = 1) BY Turns DEF RebInv, RebType
<1>2. Fetched = IF P > 1 /\ Chunking # NoReq THEN Chunking ELSE chunked[cur]
  BY <1>1 DEF Fetched, Chunking
<1>3. CASE P = 1 BY <1>1, <1>2, <1>3 DEF Chunking
<1>4. CASE P # 1
  <2>1. P > 1 BY <1>4, PAssumption
  <2>2. chunked[cur] = NoReq BY <2>1 DEF RebInv, ChunkRight
  <2>3. QED BY <1>2, <2>1, <2>2
<1>5. QED BY <1>3, <1>4

\* What a prefill may compute.
PrefillRight(reqs) ==
  /\ reqs \in Seq(Req) /\ IsInjective(reqs) /\ Last(reqs) \in ToSet(reqs)
  /\ ToSet(reqs) \subseteq Waiting \cup {Chunking} /\ NoReq \notin ToSet(reqs)
  /\ Chunking # NoReq => /\ Chunking \in ToSet(reqs)
                         /\ chunksLeft[Chunking] > 1 => Last(reqs) = Chunking

LEMMA PrefillsAreRight ==
  ASSUME RebInv, phase = "launch", NEW reqs \in Prefills
  PROVE  PrefillRight(reqs)
<1> DEFINE c == Chunking
           first == IF c = NoReq THEN <<>> ELSE <<c>>
<1>1. /\ waiting \in Seq(Req) /\ IsInjective(waiting) /\ c \in Req \cup {NoReq} /\ NoReq \notin Req
      /\ c \notin Waiting /\ Fetched = c
  BY FetchedIs, Members DEF RebInv, RebType, Apart
<1> HIDE DEF c
<1>2. /\ first \in Seq(Req) /\ IsInjective(first)
      /\ ToSet(first) = {c} \ {NoReq}
  <2>1. CASE c = NoReq
    <3>1. first = <<>> /\ <<>> \in Seq(Req) /\ IsInjective(<<>>) /\ ToSet(<<>>) = {}
      BY <2>1 DEF IsInjective, ToSet
    <3>2. QED BY <2>1, <3>1
  <2>2. CASE c # NoReq
    <3>1. first = <<c>> /\ <<c>> \in Seq(Req) /\ IsInjective(<<c>>) /\ ToSet(<<c>>) = {c}
      BY <1>1, <2>2 DEF IsInjective, ToSet
    <3>2. QED BY <1>1, <2>2, <3>1
  <2>3. QED BY <2>1, <2>2
<1>3. \A s \in Seq(Req) : s # <<>> => Last(s) \in ToSet(s)
  <2>1. ASSUME NEW s \in Seq(Req), s # <<>> PROVE Last(s) \in ToSet(s)
    <3>1. Len(s) \in DOMAIN s BY <2>1
    <3>2. QED BY <3>1 DEF Last, ToSet
  <2>2. QED BY <2>1
<1>4. CASE c # NoReq /\ HasMore(c)
  <2>1. reqs = <<c>> BY <1>1, <1>4 DEF Prefills
  <2>2. reqs = first /\ reqs # <<>> /\ Last(reqs) = c BY <1>4, <2>1 DEF Last
  <2>3. QED BY <1>1, <1>2, <1>3, <1>4, <2>2 DEF PrefillRight, c
<1>5. CASE ~(c # NoReq /\ HasMore(c))
  <2>1. PICK k \in 0 .. Len(waiting) : reqs = first \o SubSeq(waiting, 1, k) /\ reqs # <<>>
    BY <1>1, <1>5 DEF Prefills
  <2> DEFINE u == SubSeq(waiting, 1, k)
  <2>2. u \in Seq(Req) /\ ToSet(u) \subseteq Waiting /\ IsInjective(u)
    BY <1>1, FirstElements DEF Waiting
  <2> HIDE DEF u, first
  <2>3. ToSet(first) \cap ToSet(u) = {} BY <1>1, <1>2, <2>2
  <2>4. /\ first \o u \in Seq(Req) /\ IsInjective(first \o u)
        /\ ToSet(first \o u) = ToSet(first) \cup ToSet(u)
    BY <1>2, <2>2, <2>3, JoinedElements
  <2>5. reqs = first \o u BY <2>1 DEF u
  <2>6. /\ reqs \in Seq(Req) /\ IsInjective(reqs) /\ ToSet(reqs) = ToSet(first) \cup ToSet(u)
        /\ Last(reqs) \in ToSet(reqs)
    BY <1>3, <2>1, <2>4, <2>5
  <2>7. ~(c # NoReq /\ chunksLeft[c] > 1) BY <1>5 DEF HasMore
  <2>8. NoReq \notin Waiting BY <1>1, Members DEF RebInv
  <2>9. QED BY <1>2, <2>2, <2>6, <2>7, <2>8 DEF PrefillRight, c
<1>6. QED BY <1>4, <1>5

\* A prefill takes its requests from the queue and from the chain of chunked prompts.
LEMMA PrefillHolds ==
  ASSUME RebInv, NEW reqs \in Prefills, LaunchPrefill(reqs)
  PROVE  RebInv'
<1> DEFINE part == Last(reqs)
           more == HasMore(part)
           p == IF more THEN part ELSE NoReq
           new == [mode |-> "extend", reqs |-> reqs, rows |-> reqs, partial |-> p]
           r == running[cur]
           mixed == Filter(r, NoReq)
           b == IF Mixed /\ mixed.reqs # <<>> THEN Merge(new, mixed) ELSE new
           R == ToSet(reqs)
<1>1. /\ phase = "launch" /\ phase' = "finish" /\ chunked' = [chunked EXCEPT ![cur] = p]
      /\ batch' = b /\ running' = IF Mixed THEN [running EXCEPT ![cur] = NoBatch] ELSE running
      /\ waiting' = Without(waiting, R)
      /\ ppIdx' = [x \in Req |-> IF x \in R THEN cur ELSE ppIdx[x]]
      /\ chunksLeft' = [x \in Req |-> chunksLeft[x] - (IF x \in R THEN 1 ELSE 0)]
      /\ UNCHANGED <<cur, last, pending, tokensLeft, arrived>>
  BY DEF LaunchPrefill
<1>2. RebType /\ LaunchedRight /\ ChunkRight /\ GoesOn /\ Apart /\ Known BY DEF RebInv
<1>3. PrefillRight(reqs) BY <1>1, PrefillsAreRight
<1> HIDE DEF new, mixed, b, p
<1>4. /\ cur \in Slot /\ IsBatch(r) /\ Running[cur] = ToSet(r.reqs) /\ Joins[cur] = {}
      /\ DOMAIN running = Slot /\ chunked \in [Slot -> Req \cup {NoReq}] /\ NoReq \notin Req
      /\ Running[cur] \subseteq Req /\ Waiting \subseteq Req /\ chunksLeft \in [Req -> Nat]
      /\ Pending \subseteq Req /\ Launched[cur] = NoBatch
  BY <1>1, <1>2, Members, NoBatchIs DEF RebType
<1>5. /\ R \subseteq Req /\ part \in R /\ p \in R \cup {NoReq} /\ R \subseteq Waiting \cup {Chunking}
      /\ Chunking # NoReq => Chunking \in R
      /\ p = NoReq \/ (p = part /\ chunksLeft[part] > 1)
      /\ \A x \in R : chunksLeft[x] > 0
  <2>1. R \subseteq Req /\ part \in R /\ R \subseteq Waiting \cup {Chunking}
        /\ (Chunking # NoReq => Chunking \in R) /\ NoReq \notin R
    BY <1>3 DEF PrefillRight, ToSet
  <2>2. \A x \in R : chunksLeft[x] > 0 BY <1>2, <2>1 DEF ChunkRight
  <2>3. QED BY <2>1, <2>2 DEF p, HasMore
<1>6. /\ IsBatch(new) /\ new.reqs = reqs /\ new.mode = "extend" /\ new.partial = p
  BY <1>3, <1>4, <1>5 DEF IsBatch, new, PrefillRight
<1> DEFINE Mix == IF Mixed THEN {x \in Running[cur] : ~Finished(x)} ELSE {}
<1>7. IsBatch(mixed) /\ ToSet(mixed.reqs) = {x \in Running[cur] : ~Finished(x)}
  <2>1. /\ IsBatch(Filter(r, NoReq))
        /\ ToSet(Filter(r, NoReq).reqs) = {x \in ToSet(r.reqs) : ~Finished(x) /\ x # NoReq}
    BY <1>4, FilterIs
  <2>2. QED BY <1>4, <2>1 DEF mixed
<1>8. Running[cur] \cap R = {} /\ Pending \cap R = {} /\ \A s \in Slot : Here[s] \cap R = {}
  <2>1. R \subseteq InQueues BY <1>5 DEF InQueues
  <2>2. \A s \in Slot : Here[s] \cap R = {} BY <1>2, <2>1 DEF Apart
  <2>3. Running[cur] \subseteq Here[cur] BY <1>4 DEF Here
  <2>4. Pending \cap R = {} BY <1>2, <1>5 DEF Apart
  <2>5. QED BY <1>4, <2>2, <2>3, <2>4
<1>9. /\ IsBatch(b) /\ b.mode = "extend" /\ b.partial = p /\ ToSet(b.reqs) = R \cup Mix
  <2>1. CASE Mixed /\ mixed.reqs # <<>>
    <3>1. b = Merge(new, mixed) BY <2>1 DEF b
    <3>2. ToSet(new.reqs) \cap ToSet(mixed.reqs) = {} BY <1>6, <1>7, <1>8
    <3>3. /\ IsBatch(Merge(new, mixed)) /\ Merge(new, mixed).mode = new.mode
          /\ Merge(new, mixed).partial = new.partial
          /\ ToSet(Merge(new, mixed).reqs) = ToSet(new.reqs) \cup ToSet(mixed.reqs)
      BY <1>6, <1>7, <3>2, MergeIs
    <3>4. QED BY <1>6, <1>7, <2>1, <3>1, <3>3
  <2>2. CASE Mixed /\ mixed.reqs = <<>>
    <3>1. b = new /\ ToSet(mixed.reqs) = {} BY <2>2 DEF b, ToSet
    <3>2. QED BY <1>6, <1>7, <2>2, <3>1
  <2>3. CASE ~Mixed BY <1>6, <2>3 DEF b
  <2>4. QED BY <2>1, <2>2, <2>3
<1>10. /\ DOMAIN running' = Slot /\ running'[cur] = (IF Mixed THEN NoBatch ELSE r)
       /\ \A s \in Slot : s # cur => running'[s] = running[s]
       /\ chunked'[cur] = p /\ \A s \in Slot : s # cur => chunked'[s] = chunked[s]
       /\ chunked' \in [Slot -> Req \cup {NoReq}]
  BY <1>1, <1>4, <1>5
<1> HIDE DEF R, Mix
<1>11. waiting' \in Seq(Req) /\ IsInjective(waiting') /\ Waiting' = Waiting \ R
  <2>1. waiting \in Seq(Req) /\ IsInjective(waiting) BY <1>2 DEF RebType
  <2>2. QED BY <1>1, <2>1, WithoutElements DEF Waiting
<1>12. /\ \A x \in Req : chunksLeft'[x] = chunksLeft[x] - (IF x \in R THEN 1 ELSE 0)
       /\ \A x \in Req : ppIdx'[x] = IF x \in R THEN cur ELSE ppIdx[x]
       /\ chunksLeft' \in [Req -> Nat] /\ ppIdx' \in [Req -> Slot]
  <2>1. \A x \in Req : chunksLeft[x] - (IF x \in R THEN 1 ELSE 0) \in Nat BY <1>4, <1>5
  <2>2. \A x \in Req : (IF x \in R THEN cur ELSE ppIdx[x]) \in Slot BY <1>2, <1>4 DEF RebType
  <2>3. QED BY <1>1, <2>1, <2>2
<1>13. RebType'
  <2>1. \A s \in Slot : IsBatch(running'[s]) BY <1>2, <1>4, <1>10, NoBatchIs DEF RebType
  <2>2. QED BY <1>1, <1>2, <1>9, <1>10, <1>11, <1>12, <2>1 DEF RebType
<1>14. /\ Pending' = Pending /\ Newest' = cur /\ Chunking' = p /\ Age' = Age
       /\ Launched'[cur] = b /\ Joins'[cur] = (R \cup Mix) \ {p}
       /\ Running'[cur] = (IF Mixed THEN {} ELSE Running[cur])
       /\ \A s \in Slot : s # cur => /\ Launched'[s] = Launched[s] /\ Joins'[s] = Joins[s]
                                     /\ Running'[s] = Running[s]
  <2>1. Pending' = Pending /\ Newest' = cur /\ Age' = Age BY <1>1 DEF Pending, Newest, Age
  <2>2. Chunking' = p BY <1>10, <2>1 DEF Chunking
  <2>3. Launched'[cur] = b /\ \A s \in Slot : s # cur => Launched'[s] = Launched[s]
    BY <1>1, <1>4 DEF Launched
  <2>4. Joins'[cur] = (R \cup Mix) \ {p} /\ \A s \in Slot : s # cur => Joins'[s] = Joins[s]
    BY <1>4, <1>9, <2>3 DEF Joins
  <2>5. /\ Running'[cur] = (IF Mixed THEN {} ELSE Running[cur])
        /\ \A s \in Slot : s # cur => Running'[s] = Running[s]
    BY <1>4, <1>10, NoBatchIs DEF Running
  <2>6. QED BY <2>1, <2>2, <2>3, <2>4, <2>5
<1>15. LaunchedRight'
  <2>1. ASSUME NEW s \in Slot
        PROVE  LET c == Launched'[s] IN
               /\ c.mode = "none" => c.reqs = <<>>
               /\ c.mode = "decode" => ToSet(c.reqs) \subseteq Running'[s]
               /\ c.partial # NoReq => c.mode = "extend" /\ c.partial \in ToSet(c.reqs)
               /\ c.partial = chunked'[s]
    <3>1. CASE s = cur BY <1>5, <1>9, <1>10, <1>14, <3>1
    <3>2. CASE s # cur BY <1>2, <1>10, <1>14, <3>2 DEF LaunchedRight
    <3>3. QED BY <3>1, <3>2
  <2>2. QED BY <2>1 DEF LaunchedRight
<1>16. ChunkRight'
  <2>1. p # NoReq => chunksLeft'[p] > 0 /\ ppIdx'[p] = cur BY <1>4, <1>5, <1>12
  <2>2. ASSUME NEW s \in Slot, s # cur, chunked[s] # NoReq
        PROVE  ppIdx'[chunked[s]] # s /\ (chunksLeft'[chunked[s]] > 0 => chunked[s] = p)
    <3> DEFINE x == chunked[s]
    <3>1. x \in Req /\ (s # Newest => ppIdx[x] # s /\ (chunksLeft[x] > 0 => x = Chunking))
      BY <1>2, <1>4, <2>2 DEF ChunkRight
    <3>2. s = Newest => x = Chunking BY DEF Chunking
    <3> HIDE DEF x
    <3>3. CASE x \in R
      <4>1. ppIdx'[x] = cur BY <1>12, <3>1, <3>3
      <4>2. ASSUME chunksLeft'[x] > 0 PROVE x = p
        <5>1. chunksLeft[x] > 1 BY <1>4, <1>12, <3>1, <3>3, <4>2
        <5>2. x = Chunking /\ x # NoReq BY <1>4, <3>1, <3>2, <5>1
        <5>3. part = x BY <1>3, <5>1, <5>2 DEF PrefillRight
        <5>4. more BY <5>1, <5>3 DEF HasMore
        <5>5. QED BY <5>3, <5>4 DEF p
      <4>3. QED BY <2>2, <4>1, <4>2 DEF x
    <3>4. CASE x \notin R
      <4>1. x # Chunking BY <1>4, <1>5, <3>1, <3>4
      <4>2. ppIdx'[x] = ppIdx[x] /\ chunksLeft'[x] = chunksLeft[x] BY <1>4, <1>12, <3>1, <3>4
      <4>3. QED BY <3>1, <3>2, <4>1, <4>2 DEF x
    <3>5. QED BY <3>3, <3>4
  <2>3. ASSUME NEW x \in Req, x \in Waiting' \/ x > arrived' PROVE chunksLeft'[x] > 0
    <3>1. x \notin R
      <4>1. R \subseteq (1 .. arrived) \cup {NoReq} BY <1>2, <1>5 DEF Known, InQueues
      <4>2. x \in 1 .. arrived \/ x = NoReq => ~(x > arrived)
        BY <1>2, <1>4 DEF RebType, NoReq
      <4>3. QED BY <1>1, <1>4, <1>11, <2>3, <4>1, <4>2
    <3>2. chunksLeft'[x] = chunksLeft[x] BY <1>4, <1>12, <3>1
    <3>3. x \in Waiting \/ x > arrived BY <1>1, <1>11, <2>3
    <3>4. QED BY <1>2, <3>2, <3>3 DEF ChunkRight
  <2>4. phase' \notin {"rebalance", "launch"} BY <1>1
  <2>5. QED BY <1>10, <1>14, <2>1, <2>2, <2>3, <2>4 DEF ChunkRight
<1>17. GoesOn'
  <2>1. ASSUME NEW s \in Slot, Launched'[s].partial # NoReq
        PROVE  \/ Launched'[s].partial = Chunking'
               \/ \E t \in Slot : Age'[t] > Age'[s] /\ Launched'[s].partial \in Joins'[t]
    <3>1. CASE s = cur BY <1>9, <1>14, <3>1
    <3>2. CASE s # cur
      <4> DEFINE x == Launched[s].partial
      <4>1. Launched'[s] = Launched[s] /\ x # NoReq BY <1>14, <2>1, <3>2
      <4>2. Age[cur] = P /\ Age[s] \in Nat /\ Age[s] < P BY <1>1, <1>4, <3>2, Turns
      <4>3. x = Chunking \/ \E t \in Slot : Age[t] > Age[s] /\ x \in Joins[t]
        BY <1>2, <4>1 DEF GoesOn
      <4> HIDE DEF x
      <4>4. CASE x = Chunking
        <5>1. x \in R BY <1>5, <4>1, <4>4
        <5>2. x = Chunking' \/ x \in Joins'[cur] BY <1>14, <5>1
        <5>3. Age'[cur] > Age'[s] BY <1>14, <4>2, PAssumption
        <5>4. QED BY <1>4, <4>1, <5>2, <5>3 DEF x
      <4>5. ASSUME NEW t \in Slot, Age[t] > Age[s], x \in Joins[t]
            PROVE  Age'[t] > Age'[s] /\ x \in Joins'[t]
        BY <1>4, <1>14, <4>5
      <4>6. QED BY <4>1, <4>3, <4>4, <4>5 DEF x
    <3>3. QED BY <3>1, <3>2
  <2>2. QED BY <2>1 DEF GoesOn
<1>18. /\ \A s \in Slot : s # cur => Here'[s] = Here[s]
       /\ Here[cur] = Running[cur]
       /\ Here'[cur] = (IF Mixed THEN {} ELSE Running[cur]) \cup ((R \cup Mix) \ {p})
       /\ InQueues' = (Waiting \ R) \cup Pending \cup {p}
  BY <1>4, <1>11, <1>14 DEF Here, InQueues
<1>19. /\ Here'[cur] \subseteq Here[cur] \cup R /\ Mix \subseteq Running[cur]
       /\ \A x \in Here[cur] : ~Finished(x) => x \in Here'[cur]
       /\ p \notin Here'[cur]
       /\ Mixed => {x \in Running[cur] : ~Finished(x)} = Mix
  <2>1. Mix \subseteq Running[cur] /\ (Mixed => {x \in Running[cur] : ~Finished(x)} = Mix)
        /\ (~Mixed => Mix = {})
    BY DEF Mix
  <2>2. p \notin Running[cur] BY <1>4, <1>5, <1>8
  <2>3. QED BY <1>18, <2>1, <2>2
<1>20. InQueues' \subseteq InQueues \cup {NoReq} BY <1>5, <1>18 DEF InQueues
<1>21. Apart'
  <2>1. Waiting' \cap Pending' = {} BY <1>2, <1>11, <1>14 DEF Apart
  <2>2. Chunking' \notin Waiting' \cup Pending' BY <1>4, <1>5, <1>8, <1>11, <1>14
  <2>3. ASSUME NEW s \in Slot PROVE Here'[s] \cap InQueues' = {} /\ Running'[s] \cap Joins'[s] = {}
    <3>1. CASE s = cur
      <4>1. Here'[cur] \cap (Waiting \ R) = {} /\ Here'[cur] \cap Pending = {}
        BY <1>2, <1>4, <1>8, <1>19 DEF Apart, InQueues
      <4>2. Running'[cur] \cap Joins'[cur] = {} BY <1>4, <1>8, <1>14 DEF Mix
      <4>3. QED BY <1>18, <1>19, <3>1, <4>1, <4>2
    <3>2. CASE s # cur
      <4>1. NoReq \notin Here[s] BY <1>2 DEF Known, NoReq
      <4>2. QED BY <1>2, <1>14, <1>18, <1>20, <3>2, <4>1 DEF Apart
    <3>3. QED BY <3>1, <3>2
  <2>4. \A s, t \in Slot : s # t => Here'[s] \cap Here'[t] = {}
    <3>1. ASSUME NEW s \in Slot, s # cur PROVE Here'[s] \cap Here'[cur] = {}
      BY <1>2, <1>4, <1>8, <1>18, <1>19, <3>1 DEF Apart
    <3>2. QED BY <1>2, <1>18, <3>1 DEF Apart
  <2>5. QED BY <2>1, <2>2, <2>3, <2>4 DEF Apart
<1>22. Known'
  <2>1. InQueues' \subseteq (1 .. arrived) \cup {NoReq} BY <1>2, <1>20 DEF Known
  <2>2. ASSUME NEW s \in Slot PROVE Here'[s] \subseteq 1 .. arrived
    <3>1. R \subseteq 1 .. arrived
      <4>1. R \subseteq InQueues /\ NoReq \notin R BY <1>4, <1>5 DEF InQueues
      <4>2. QED BY <1>2, <4>1 DEF Known
    <3>2. Here[s] \subseteq 1 .. arrived BY <1>2 DEF Known
    <3>3. QED BY <1>18, <1>19, <3>1, <3>2
  <2>3. ASSUME NEW x \in 1 .. arrived, ~Finished(x)
        PROVE  x \in InQueues' \/ \E s \in Slot : x \in Here'[s]
    <3>1. CASE x \in InQueues
      <4>1. CASE x \in R BY <1>4, <1>18, <4>1
      <4>2. CASE x \notin R
        <5>1. x # NoReq BY DEF NoReq
        <5>2. QED BY <1>5, <1>18, <3>1, <4>2, <5>1 DEF InQueues
      <4>3. QED BY <4>1, <4>2
    <3>2. ASSUME NEW s \in Slot, x \in Here[s] PROVE x \in Here'[s]
      BY <1>18, <1>19, <2>3, <3>2
    <3>3. QED BY <1>2, <2>3, <3>1, <3>2 DEF Known
  <2>4. QED BY <1>1, <2>1, <2>2, <2>3 DEF Known, Finished
<1>23. QED BY <1>13, <1>15, <1>16, <1>17, <1>21, <1>22 DEF RebInv

\* Decoding launches the running batch without its finished requests, when no prompt waits
\* for its next chunk (others may wait for room).
LEMMA DecodeHolds == RebInv /\ LaunchDecode => RebInv'
<1> SUFFICES ASSUME RebInv, LaunchDecode PROVE RebInv' OBVIOUS
<1> DEFINE r == running[cur]
           f == Filter(r, NoReq)
           b == IF f.reqs = <<>> THEN NoBatch ELSE [f EXCEPT !.mode = "decode", !.partial = NoReq]
<1>1. /\ phase = "launch" /\ phase' = "finish" /\ (Prefills = {} \/ Fetched = NoReq)
      /\ running' = [running EXCEPT ![cur] = b] /\ batch' = b
      /\ UNCHANGED <<cur, waiting, last, chunked, ppIdx, pending, chunksLeft, tokensLeft, arrived>>
  BY DEF LaunchDecode, progress
<1>2. RebType /\ LaunchedRight /\ ChunkRight /\ GoesOn /\ Apart /\ Known BY DEF RebInv
<1>3. /\ cur \in Slot /\ IsBatch(r) /\ Running[cur] = ToSet(r.reqs) /\ Joins[cur] = {}
      /\ DOMAIN running = Slot /\ chunked \in [Slot -> Req \cup {NoReq}] /\ NoReq \notin Req
      /\ Running[cur] \subseteq Req /\ Launched[cur] = NoBatch /\ Chunking \in Req \cup {NoReq}
      /\ waiting \in Seq(Req)
  BY <1>1, <1>2, Members, NoBatchIs DEF RebType
<1>4. Chunking = NoReq /\ chunked[cur] = NoReq
  <2>1. Fetched = Chunking BY <1>1, FetchedIs
  <2>2. ASSUME Chunking # NoReq PROVE FALSE
    <3> Prefills = {} BY <1>1, <2>1, <2>2
    <3>1. CASE HasMore(Chunking) BY <2>1, <2>2, <3>1 DEF Prefills
    <3>2. CASE ~HasMore(Chunking)
      <4> DEFINE s == <<Chunking>> \o SubSeq(waiting, 1, 0)
      <4>1. 0 \in 0 .. Len(waiting) /\ \A i \in 1 .. 0 - 1 : Chunks[waiting[i]] = 1 BY <1>3
      <4>2. s # <<>> BY <1>3
      <4>3. s \in Prefills BY <2>1, <2>2, <3>2, <4>1, <4>2 DEF Prefills
      <4>4. QED BY <4>3
    <3>3. QED BY <3>1, <3>2
  <2>3. CASE P = 1
    <3>1. Newest = cur BY <1>1, <1>3, <2>3, Turns
    <3>2. QED BY <2>2, <3>1 DEF Chunking
  <2>4. CASE P # 1
    <3>1. P > 1 BY <2>4, PAssumption
    <3>2. QED BY <1>1, <1>2, <2>2, <3>1 DEF ChunkRight
  <2>5. QED BY <2>3, <2>4
<1> HIDE DEF f
<1>5. IsBatch(f) /\ ToSet(f.reqs) = {x \in Running[cur] : ~Finished(x)}
  <2>1. /\ IsBatch(Filter(r, NoReq))
        /\ ToSet(Filter(r, NoReq).reqs) = {x \in ToSet(r.reqs) : ~Finished(x) /\ x # NoReq}
    BY <1>3, FilterIs
  <2>2. QED BY <1>3, <2>1 DEF f
<1>6. /\ IsBatch(b) /\ b.mode \in {"none", "decode"} /\ (b.mode = "none" => b.reqs = <<>>)
      /\ b.partial = NoReq /\ ToSet(b.reqs) = {x \in Running[cur] : ~Finished(x)}
  <2>1. CASE f.reqs = <<>>
    <3>1. b = NoBatch /\ ToSet(f.reqs) = {} BY <2>1 DEF ToSet
    <3>2. QED BY <1>5, <3>1, NoBatchIs
  <2>2. CASE f.reqs # <<>>
    <3> DEFINE g == [f EXCEPT !.mode = "decode", !.partial = NoReq]
    <3>1. b = g BY <2>2
    <3>2. DOMAIN f = {"mode", "reqs", "rows", "partial"} BY <1>5 DEF IsBatch
    <3>3. DOMAIN g = DOMAIN f OBVIOUS
    <3>4. g.mode = "decode" BY <3>2
    <3>5. g.partial = NoReq BY <3>2
    <3>6. g.reqs = f.reqs BY <3>2
    <3> HIDE DEF g, b
    <3>7. IsBatch(g) BY <1>5, <3>3, <3>4, <3>5, <3>6 DEF IsBatch
    <3>8. QED BY <1>5, <3>1, <3>4, <3>5, <3>6, <3>7
  <2>3. QED BY <2>1, <2>2
<1> HIDE DEF b
<1>7. /\ DOMAIN running' = Slot /\ running'[cur] = b
      /\ \A s \in Slot : s # cur => running'[s] = running[s]
  BY <1>1, <1>3
<1>8. RebType'
  <2>1. \A s \in Slot : IsBatch(running'[s]) BY <1>2, <1>6, <1>7 DEF RebType
  <2>2. QED BY <1>1, <1>2, <1>6, <1>7, <2>1 DEF RebType
<1>9. /\ Pending' = Pending /\ Waiting' = Waiting /\ Newest' = cur /\ Chunking' = NoReq /\ Age' = Age
      /\ Launched'[cur] = b /\ Joins'[cur] = {} /\ Running'[cur] = ToSet(b.reqs)
      /\ \A s \in Slot : s # cur => /\ Launched'[s] = Launched[s] /\ Joins'[s] = Joins[s]
                                    /\ Running'[s] = Running[s]
  <2>1. /\ Pending' = Pending /\ Waiting' = Waiting /\ Newest' = cur /\ Age' = Age
    BY <1>1 DEF Pending, Waiting, Newest, Age
  <2>2. Chunking' = NoReq BY <1>1, <1>4, <2>1 DEF Chunking
  <2>3. Launched'[cur] = b /\ \A s \in Slot : s # cur => Launched'[s] = Launched[s]
    BY <1>1, <1>3 DEF Launched
  <2>4. Joins'[cur] = {} /\ \A s \in Slot : s # cur => Joins'[s] = Joins[s]
    BY <1>3, <1>6, <2>3 DEF Joins
  <2>5. Running'[cur] = ToSet(b.reqs) /\ \A s \in Slot : s # cur => Running'[s] = Running[s]
    BY <1>3, <1>7 DEF Running
  <2>6. QED BY <2>1, <2>2, <2>3, <2>4, <2>5
<1>10. LaunchedRight'
  <2>1. ASSUME NEW s \in Slot
        PROVE  LET c == Launched'[s] IN
               /\ c.mode = "none" => c.reqs = <<>>
               /\ c.mode = "decode" => ToSet(c.reqs) \subseteq Running'[s]
               /\ c.partial # NoReq => c.mode = "extend" /\ c.partial \in ToSet(c.reqs)
               /\ c.partial = chunked'[s]
    <3>1. CASE s = cur BY <1>1, <1>4, <1>6, <1>9, <3>1
    <3>2. CASE s # cur BY <1>1, <1>2, <1>9, <3>2 DEF LaunchedRight
    <3>3. QED BY <3>1, <3>2
  <2>2. QED BY <2>1 DEF LaunchedRight
<1>11. ChunkRight'
  <2>1. ASSUME NEW s \in Slot, s # cur, chunked[s] # NoReq
        PROVE  ppIdx[chunked[s]] # s /\ ~(chunksLeft[chunked[s]] > 0)
    <3>1. s # Newest BY <1>4, <2>1 DEF Chunking
    <3>2. QED BY <1>2, <1>4, <2>1, <3>1 DEF ChunkRight
  <2>2. phase' \notin {"rebalance", "launch"} BY <1>1
  <2>3. QED BY <1>1, <1>2, <1>9, <2>1, <2>2 DEF ChunkRight
<1>12. GoesOn'
  <2>1. ASSUME NEW s \in Slot, Launched'[s].partial # NoReq
        PROVE  \E t \in Slot : Age'[t] > Age'[s] /\ Launched'[s].partial \in Joins'[t]
    <3>1. s # cur /\ Launched'[s] = Launched[s] BY <1>6, <1>9, <2>1
    <3>2. PICK t \in Slot : Age[t] > Age[s] /\ Launched[s].partial \in Joins[t]
      BY <1>2, <1>4, <2>1, <3>1 DEF GoesOn
    <3>3. Joins'[t] = Joins[t] BY <1>3, <1>9
    <3>4. QED BY <1>9, <3>1, <3>2, <3>3
  <2>2. QED BY <2>1 DEF GoesOn
<1>13. InQueues' = InQueues BY <1>4, <1>9 DEF InQueues
<1>14. \A s \in Slot : /\ Here'[s] \subseteq Here[s] /\ Running'[s] \cap Joins'[s] = {}
                       /\ \A x \in Here[s] : ~Finished(x) => x \in Here'[s]
  BY <1>2, <1>3, <1>6, <1>9 DEF Here, Apart
<1>15. Apart' BY <1>2, <1>4, <1>9, <1>13, <1>14 DEF Apart
<1>16. Known' BY <1>1, <1>2, <1>13, <1>14 DEF Known, Finished
<1>17. QED BY <1>8, <1>10, <1>11, <1>12, <1>15, <1>16 DEF RebInv

\* The end of an iteration makes every launched batch one turn older.
LEMMA FinishHolds == RebInv /\ FinishIteration => RebInv'
<1> SUFFICES ASSUME RebInv, FinishIteration PROVE RebInv' OBVIOUS
<1>1. /\ phase = "finish" /\ phase' = "merge" /\ last' = [last EXCEPT ![cur] = batch]
      /\ cur' = (cur + 1) % P /\ batch' = NoBatch
      /\ UNCHANGED <<waiting, running, chunked, ppIdx, pending, chunksLeft, arrived>>
  BY DEF FinishIteration
<1>2. RebType /\ LaunchedRight /\ ChunkRight /\ GoesOn /\ Apart /\ Known BY DEF RebInv
<1>3. cur \in Slot /\ DOMAIN last = Slot /\ tokensLeft \in [Req -> Nat] BY <1>2 DEF RebType
<1>4. PICK gets : tokensLeft' = [r \in Req |-> IF r \in gets /\ ~Finished(r) THEN tokensLeft[r] - 1
                                               ELSE tokensLeft[r]]
  BY DEF FinishIteration
<1>5. tokensLeft' \in [Req -> Nat] /\ \A r \in Req : tokensLeft'[r] # 0 => tokensLeft[r] # 0
  <2>1. ASSUME NEW r \in Req
        PROVE  /\ tokensLeft'[r] \in Nat /\ (tokensLeft'[r] # 0 => tokensLeft[r] # 0)
               /\ tokensLeft'[r] = IF r \in gets /\ ~Finished(r) THEN tokensLeft[r] - 1
                                   ELSE tokensLeft[r]
    BY <1>3, <1>4 DEF Finished
  <2>2. DOMAIN tokensLeft' = Req BY <1>4
  <2>3. tokensLeft' = [r \in Req |-> tokensLeft'[r]] BY <1>4, <2>2
  <2>4. QED BY <2>1, <2>3
<1>6. cur' \in Slot /\ cur' = IF cur = P - 1 THEN 0 ELSE cur + 1
  BY <1>1, <1>3, Neighbours, PAssumption DEF Slot
<1>7. RebType'
  <2>1. DOMAIN last' = Slot /\ \A s \in Slot : IsBatch(last'[s]) BY <1>1, <1>2, <1>3 DEF RebType
  <2>2. QED BY <1>1, <1>2, <1>5, <1>6, <2>1, NoBatchIs DEF RebType
<1>8. Newest' = cur /\ Newest = cur
  BY <1>1, <1>3, <1>6, PAssumption DEF Newest, Slot
<1>9. /\ Pending' = Pending /\ Waiting' = Waiting /\ Chunking' = Chunking
      /\ Launched' = Launched /\ Joins' = Joins /\ Running' = Running
  <2>1. Pending' = Pending /\ Waiting' = Waiting /\ Chunking' = Chunking /\ Running' = Running
    BY <1>1, <1>8 DEF Pending, Waiting, Chunking, Running
  <2>2. Launched' = [s \in Slot |-> last'[s]] BY <1>1 DEF Launched
  <2>3. \A s \in Slot : last'[s] = IF s = cur THEN batch ELSE last[s] BY <1>1, <1>3
  <2>4. Launched = [s \in Slot |-> IF s = cur THEN batch ELSE last[s]] BY <1>1 DEF Launched
  <2>5. Launched' = Launched BY <2>2, <2>3, <2>4
  <2>6. QED BY <2>1, <2>5 DEF Joins
<1>10. ASSUME NEW s \in Slot PROVE Age'[s] = Age[s] - 1
  <2>1. /\ Age[s] = IF s = cur THEN P ELSE IF s >= cur THEN s - cur ELSE s - cur + P
        /\ Age'[s] = IF s >= cur' THEN s - cur' ELSE s - cur' + P
    BY <1>1 DEF Age
  <2>2. P \in Nat \ {0} /\ cur \in 0 .. P - 1 /\ Slot = 0 .. P - 1 BY <1>3, PAssumption DEF Slot
  <2>3. CASE cur = P - 1 BY <1>6, <2>1, <2>2, <2>3
  <2>4. CASE cur # P - 1
    <3>1. cur' = cur + 1 BY <1>6, <2>4
    <3>2. CASE s = cur BY <2>1, <2>2, <3>1, <3>2
    <3>3. CASE s # cur BY <2>1, <2>2, <3>1, <3>3
    <3>4. QED BY <3>2, <3>3
  <2>5. QED BY <2>3, <2>4
<1>11. LaunchedRight' BY <1>1, <1>2, <1>9 DEF LaunchedRight
<1>12. ChunkRight' BY <1>1, <1>2, <1>8, <1>9 DEF ChunkRight
<1>13. GoesOn'
  <2>1. \A s \in Slot : Age[s] \in Nat BY <1>3, Turns
  <2>2. \A s, t \in Slot : Age[t] > Age[s] => Age'[t] > Age'[s] BY <1>10, <2>1
  <2>3. QED BY <1>2, <1>9, <2>2 DEF GoesOn
<1>14. InQueues' = InQueues /\ Here' = Here BY <1>9 DEF InQueues, Here
<1>15. Apart' BY <1>2, <1>9, <1>14 DEF Apart
<1>16. Known'
  <2>1. 1 .. arrived \subseteq Req BY <1>2, ReqAssumption DEF RebType, Req
  <2>2. QED BY <1>1, <1>2, <1>5, <1>14, <2>1 DEF Known, Finished
<1>17. QED BY <1>7, <1>11, <1>12, <1>13, <1>15, <1>16 DEF RebInv

\* A request that arrives is nowhere yet.
LEMMA ArriveHolds == RebInv /\ Arrive => RebInv'
<1> SUFFICES ASSUME RebInv, Arrive PROVE RebInv' OBVIOUS
<1> DEFINE a == arrived + 1
<1>1. /\ arrived < N /\ arrived' = a /\ waiting' = Append(waiting, a)
      /\ UNCHANGED <<phase, cur, running, last, chunked, ppIdx, pending, batch, chunksLeft, tokensLeft>>
  BY DEF Arrive, progress
<1>2. RebType /\ LaunchedRight /\ ChunkRight /\ GoesOn /\ Apart /\ Known BY DEF RebInv
<1>3. a \in Req /\ a \notin 1 .. arrived /\ a > arrived /\ a \in 0 .. N /\ a # NoReq
      /\ 1 .. a = (1 .. arrived) \cup {a} /\ arrived \in Nat
  <2>1. arrived \in 0 .. N /\ N \in Nat BY <1>2, ReqAssumption DEF RebType
  <2>2. QED BY <1>1, <2>1 DEF Req, NoReq
<1> HIDE DEF a
<1>4. a \notin InQueues /\ (\A s \in Slot : a \notin Here[s]) /\ a # Chunking /\ a \notin Waiting /\ a \notin Pending
  BY <1>2, <1>3 DEF Known, InQueues
<1>5. waiting' \in Seq(Req) /\ IsInjective(waiting') /\ Waiting' = Waiting \cup {a}
  <2>1. waiting \in Seq(Req) /\ IsInjective(waiting) /\ a \notin ToSet(waiting)
    BY <1>2, <1>4 DEF RebType, Waiting
  <2>2. QED BY <1>1, <1>3, <2>1, AppendedElement DEF Waiting
<1>6. RebType' BY <1>1, <1>2, <1>3, <1>5 DEF RebType
<1>7. /\ Pending' = Pending /\ Newest' = Newest /\ Chunking' = Chunking /\ Age' = Age
      /\ Launched' = Launched /\ Joins' = Joins /\ Running' = Running /\ Here' = Here
      /\ InQueues' = InQueues \cup {a}
  <2>1. Pending' = Pending /\ Newest' = Newest /\ Age' = Age /\ Launched' = Launched /\ Running' = Running
    BY <1>1 DEF Pending, Newest, Age, Launched, Running
  <2>2. Chunking' = Chunking /\ Joins' = Joins BY <1>1, <2>1 DEF Chunking, Joins
  <2>3. QED BY <1>5, <2>1, <2>2 DEF Here, InQueues
<1>8. LaunchedRight' BY <1>1, <1>2, <1>7 DEF LaunchedRight
<1>9. ChunkRight'
  <2>1. ASSUME NEW r \in Req, r \in Waiting' \/ r > arrived' PROVE chunksLeft[r] > 0
    <3>1. r \in Waiting \/ r > arrived
      <4>1. r \in Int BY ReqAssumption DEF Req
      <4>2. r = a \/ r \in Waiting \/ r > a BY <1>1, <1>5, <2>1
      <4>3. a = arrived + 1 BY DEF a
      <4>4. QED BY <1>3, <4>1, <4>2, <4>3
    <3>2. QED BY <1>2, <3>1 DEF ChunkRight
  <2>2. QED BY <1>1, <1>2, <1>7, <2>1 DEF ChunkRight
<1>10. GoesOn' BY <1>2, <1>7 DEF GoesOn
<1>11. Apart' BY <1>2, <1>4, <1>5, <1>7 DEF Apart
<1>12. Known' BY <1>1, <1>2, <1>3, <1>7 DEF Known, Finished
<1>13. QED BY <1>6, <1>8, <1>9, <1>10, <1>11, <1>12 DEF RebInv

-----------------------------------------------------------------------------
(* What the invariant says of the runs' properties.                          *)

LEMMA StepHolds == RebInv /\ [Next]_vars => RebInv'
<1> SUFFICES ASSUME RebInv, [Next]_vars PROVE RebInv' OBVIOUS
<1>1. CASE MergeLastBatch BY <1>1, MergeHolds
<1>2. ASSUME NEW tpot \in TpotFirst, NEW headroom \in Headroom, Rebalance(tpot, headroom)
      PROVE  RebInv'
  BY <1>2, RebalanceHolds
<1>3. ASSUME NEW reqs \in Prefills, LaunchPrefill(reqs) PROVE RebInv' BY <1>3, PrefillHolds
<1>4. CASE LaunchDecode BY <1>4, DecodeHolds
<1>5. CASE FinishIteration BY <1>5, FinishHolds
<1>6. CASE Arrive BY <1>6, ArriveHolds
<1>7. CASE UNCHANGED vars
  <2>1. UNCHANGED <<phase, cur, waiting, running, last, chunked, ppIdx, pending, batch,
                    chunksLeft, tokensLeft, arrived>>
    BY <1>7 DEF vars, progress
  <2>2. Launched' = Launched /\ Newest' = Newest /\ Running' = Running /\ Waiting' = Waiting
        /\ Pending' = Pending /\ Age' = Age
    BY <2>1 DEF Launched, Newest, Running, Waiting, Pending, Age
  <2>3. Joins' = Joins /\ Chunking' = Chunking BY <2>1, <2>2 DEF Joins, Chunking
  <2>4. Here' = Here /\ InQueues' = InQueues BY <2>2, <2>3 DEF Here, InQueues
  <2>5. RebType' BY <2>1 DEF RebInv, RebType
  <2>6. LaunchedRight' BY <2>1, <2>2 DEF RebInv, LaunchedRight
  <2>7. ChunkRight' BY <2>1, <2>2, <2>3 DEF RebInv, ChunkRight
  <2>8. GoesOn' BY <2>2, <2>3 DEF RebInv, GoesOn
  <2>9. Apart' BY <2>2, <2>3, <2>4 DEF RebInv, Apart
  <2>10. Known' BY <2>1, <2>4 DEF RebInv, Known, Finished
  <2>11. QED BY <2>5, <2>6, <2>7, <2>8, <2>9, <2>10 DEF RebInv
<1>8. QED BY <1>1, <1>2, <1>3, <1>4, <1>5, <1>6, <1>7 DEF Next, Iterate

\* Rebalancing, chunking and decoding lose no request and run none in two slots: received
\* and unfinished, it is in the queue, the pending batch, one slot or the chain of chunked
\* prompts (BatchRebalancer.rebalance, split_batch and merge_batch, fetch_chunked_prefill).
LEMMA InvGivesOnePlace == RebInv => OnePlace
<1> SUFFICES ASSUME RebInv, NEW r \in 1 .. arrived, ~Finished(r)
             PROVE  LET slots == {s \in Slot : r \in InSlot(s)}
                        chain == {s \in Slot : chunked[s] = r} # {} /\ chunksLeft[r] > 0
                        places == Cardinality(slots) + (IF r \in ToSet(waiting) THEN 1 ELSE 0)
                                  + (IF r \in ToSet(pending.reqs) THEN 1 ELSE 0)
                                  + (IF chain THEN 1 ELSE 0)
                    IN  places = 1
  BY DEF OnePlace
<1> DEFINE slots == {s \in Slot : r \in InSlot(s)}
           chain == {s \in Slot : chunked[s] = r} # {} /\ chunksLeft[r] > 0
<1>1. RebType /\ ChunkRight /\ Apart /\ Known BY DEF RebInv
<1>2. r # NoReq BY DEF NoReq
<1>3. \A s \in Slot : InSlot(s) = Here[s]
  <2>1. ASSUME NEW s \in Slot PROVE InSlot(s) = Here[s]
    <3> DEFINE l == IF s = cur /\ phase = "finish" THEN batch
                    ELSE IF s = cur /\ phase # "merge" THEN NoBatch ELSE last[s]
    <3>1. Launched[s] = l BY DEF Launched
    <3>2. InSlot(s) = (IF l.mode = "extend" THEN ToSet(l.reqs) \ {l.partial} ELSE {})
                      \cup ToSet(running[s].reqs)
      BY DEF InSlot
    <3>3. Joins[s] = IF l.mode = "extend" THEN ToSet(l.reqs) \ {l.partial} ELSE {}
      BY <1>1, <3>1, Members
    <3>4. Running[s] = ToSet(running[s].reqs) /\ Here[s] = Running[s] \cup Joins[s]
      BY DEF Running, Here
    <3>5. QED BY <3>2, <3>3, <3>4
  <2>2. QED BY <2>1
<1>4. chain <=> r = Chunking
  <2>1. Newest \in Slot BY <1>1, Turns DEF RebType
  <2>2. r = Chunking => chain BY <1>1, <1>2, <2>1 DEF ChunkRight, Chunking
  <2>3. ASSUME NEW s \in Slot, chunked[s] = r, chunksLeft[r] > 0 PROVE r = Chunking
    BY <1>1, <1>2, <2>3 DEF ChunkRight, Chunking
  <2>4. QED BY <2>2, <2>3
<1>5. r \in ToSet(waiting) <=> r \in Waiting BY DEF Waiting
<1>6. r \in ToSet(pending.reqs) <=> r \in Pending BY DEF Pending
<1>7. Cardinality({}) = 0 BY FS_EmptySet
<1> HIDE DEF chain
<1>8. CASE \E s \in Slot : r \in Here[s]
  <2>1. PICK s \in Slot : r \in Here[s] BY <1>8
  <2>2. slots = {s} BY <1>1, <1>3, <2>1 DEF Apart
  <2>3. r \notin InQueues BY <1>1, <2>1 DEF Apart
  <2>4. Cardinality(slots) = 1 BY <2>2, FS_Singleton
  <2> HIDE DEF slots
  <2>5. ~chain /\ r \notin Waiting /\ r \notin Pending BY <1>4, <2>3 DEF InQueues
  <2>6. QED BY <1>5, <1>6, <2>4, <2>5 DEF slots, chain
<1>9. CASE ~\E s \in Slot : r \in Here[s]
  <2>1. slots = {} BY <1>3, <1>9
  <2>2. Cardinality(slots) = 0 BY <1>7, <2>1
  <2>3. r \in InQueues BY <1>1, <1>9 DEF Known
  <2> HIDE DEF slots
  <2>4. CASE r \in Waiting
    <3>1. r \notin Pending /\ ~chain BY <1>1, <1>4, <2>4 DEF Apart
    <3>2. QED BY <1>5, <1>6, <2>2, <2>4, <3>1 DEF slots, chain
  <2>5. CASE r \in Pending
    <3>1. r \notin Waiting /\ ~chain BY <1>1, <1>4, <2>5 DEF Apart
    <3>2. QED BY <1>5, <1>6, <2>2, <2>5, <3>1 DEF slots, chain
  <2>6. CASE r = Chunking
    <3>1. r \notin Waiting /\ r \notin Pending /\ chain BY <1>1, <1>4, <2>6 DEF Apart
    <3>2. QED BY <1>5, <1>6, <2>2, <3>1 DEF slots, chain
  <2>7. QED BY <2>3, <2>4, <2>5, <2>6 DEF InQueues
<1>10. QED BY <1>8, <1>9

\* No slot waits for the result of a request that rebalance holds in the pending batch.
LEMMA InvGivesPendingQuiet == RebInv => PendingQuiet
<1> SUFFICES ASSUME RebInv, NEW s \in Slot, ~(s = cur /\ phase # "merge"),
                    NEW r \in ToSet(last[s].reqs)
             PROVE  r \notin ToSet(pending.reqs)
  BY DEF PendingQuiet
<1>1. RebType /\ LaunchedRight /\ GoesOn /\ Apart BY DEF RebInv
<1>2. Launched[s] = last[s] BY DEF Launched
<1>3. /\ \A t \in Slot : Here[t] \cap Pending = {} /\ Joins[t] \subseteq Here[t] /\ Running[t] \subseteq Here[t]
      /\ Chunking \notin Pending
  BY <1>1 DEF Apart, InQueues, Here
<1> DEFINE b == Launched[s]
<1>4. IsBatch(b) /\ r \in ToSet(b.reqs) BY <1>1, <1>2, Members
<1>5. b.mode \in {"none", "extend", "decode"} /\ r # NoReq
  <2>1. r \in Req /\ NoReq \notin Req BY <1>1, <1>4, Members
  <2>2. QED BY <1>4, <2>1 DEF IsBatch
<1>6. CASE b.mode = "none"
  <2>1. b.reqs = <<>> BY <1>1, <1>6 DEF LaunchedRight
  <2>2. QED BY <1>4, <2>1 DEF ToSet
<1>7. CASE b.mode = "decode"
  <2>1. r \in Running[s] BY <1>1, <1>4, <1>7 DEF LaunchedRight
  <2>2. QED BY <1>3, <2>1 DEF Pending
<1>8. CASE b.mode = "extend" /\ r # b.partial
  <2>1. r \in Joins[s] BY <1>1, <1>4, <1>8, Members
  <2>2. QED BY <1>3, <2>1 DEF Pending
<1>9. CASE r = b.partial
  <2>1. r = Chunking \/ \E t \in Slot : r \in Joins[t] BY <1>1, <1>5, <1>9 DEF GoesOn
  <2>2. QED BY <1>3, <2>1 DEF Pending
<1>10. QED BY <1>5, <1>6, <1>7, <1>8, <1>9

LEMMA RebInvHolds == Spec => []RebInv
<1>1. QED BY InitHolds, StepHolds, PTL DEF Spec

\* A received, unfinished request is in exactly one of the queue, the pending batch, the
\* slots and the chain of chunked prompts (rebalance, get_next_batch_to_run, any values).
THEOREM OnePlaceHolds == Spec => []OnePlace
<1>1. QED BY RebInvHolds, InvGivesOnePlace, PTL

\* The pending batch holds no request whose result a slot still waits for (rebalance moves
\* requests of the running batch only, after the last batch has joined it).
THEOREM PendingQuietHolds == Spec => []PendingQuiet
<1>1. QED BY RebInvHolds, InvGivesPendingQuiet, PTL

=============================================================================
