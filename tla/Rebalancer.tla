----------------------------- MODULE Rebalancer -----------------------------
(***************************************************************************)
(* BatchRebalancer: before a slot chooses its batch, requests move between *)
(* its running batch and the pending batch all slots share, so that slots  *)
(* get the same size.  The module has the parts of the scheduler that      *)
(* decide what the rebalancer sees: the merge of the last batch, chunked   *)
(* prefills passing from slot to slot, mixed batches and decoding.  One    *)
(* iteration is four phases, as the first rank runs it: the result of slot *)
(* cur + 1 is applied at the end.  Memory is not modelled (MicroBatch has  *)
(* it): how many waiting requests a prefill takes is any number.           *)
(***************************************************************************)
EXTENDS SequenceFilter, SequencesExt, FiniteSetsExt

CONSTANTS
  P,          \* server_args.pp_size
  N,          \* requests, numbered in the order they are received
  Chunks,     \* Chunks[r]: prefill batches that r's prompt takes
  Tokens,     \* the functions that give the requests their numbers of output tokens
  Backlog,    \* requests received before the first iteration
  BaseUnit,   \* br_base_unit
  Alpha,      \* br_load_alpha, in tenths
  TpotFirst,  \* the values use_tpot_first may have
  Headroom,   \* the values has_kv_headroom may have
  Mixed       \* is_mixed_chunk

ASSUME PAssumption == P \in Nat \ {0} /\ BaseUnit \in Nat \ {0} /\ Alpha \in Nat
ASSUME ChoiceAssumption == /\ TpotFirst \in (SUBSET BOOLEAN) \ {{}} /\ Mixed \in BOOLEAN
                           /\ Headroom \in (SUBSET BOOLEAN) \ {{}}

Slot == 0 .. P - 1
Req == 1 .. N
NoReq == 0

ASSUME ReqAssumption == Backlog \in 0 .. N /\ N \in Nat /\ Chunks \in [Req -> Nat \ {0}]
ASSUME TokensAssumption == Tokens \subseteq [Req -> Nat \ {0}] /\ Tokens # {}

\* A ScheduleBatch: its requests, and the requests whose rows req_pool_indices holds, in
\* the order of the tensor.  None has neither; a batch all of whose requests were
\* filtered out keeps its tensors.
NoBatch == [mode |-> "none", reqs |-> <<>>, rows |-> <<>>, partial |-> NoReq]

VARIABLES
  phase,       \* what the iteration does next
  cur,         \* cur_pp
  waiting,     \* waiting_queue
  running,     \* _running_batch
  last,        \* _last_batch
  shared,      \* last_batch and running_batch of slot cur are one object
  chunked,     \* _being_chunked_req
  ppIdx,       \* ppIdx[r]: pp_idx
  pending,     \* pending_batch
  batch,       \* the batch this iteration launches
  chunksLeft,  \* chunksLeft[r]: prefill batches r still needs
  tokensLeft,  \* tokensLeft[r]: output tokens r still gets
  arrived      \* number of requests received (not in the code)

progress == <<chunksLeft, tokensLeft>>
vars == <<phase, cur, waiting, running, last, shared, chunked, ppIdx, pending, batch,
          progress, arrived>>

Finished(r) == tokensLeft[r] = 0
Size(b) == Len(b.reqs)

Init ==
  /\ phase = "merge" /\ cur = 0 /\ shared = FALSE
  /\ waiting = [i \in 1 .. Backlog |-> i] /\ pending = NoBatch /\ batch = NoBatch
  /\ running = [s \in Slot |-> NoBatch] /\ last = [s \in Slot |-> NoBatch]
  /\ chunked = [s \in Slot |-> NoReq] /\ ppIdx = [r \in Req |-> 0]
  /\ chunksLeft = Chunks /\ tokensLeft \in Tokens /\ arrived = Backlog

-----------------------------------------------------------------------------
Merge(a, b) == [a EXCEPT !.reqs = @ \o b.reqs, !.rows = @ \o b.rows]

\* One half of split_batch; None if there is nothing in it.
Slice(b, i, j) == IF i > j THEN NoBatch
                  ELSE [b EXCEPT !.reqs = SubSeq(@, i, j), !.rows = SubSeq(@, i, j)]

\* Mutant: the tensors are not indexed when requests are filtered out.
FilterReqsOnly(b, excluded) ==
  [b EXCEPT !.reqs = Without(@, {r \in Req : Finished(r) \/ r = excluded})]

\* filter_batch returns before it touches the tensors if no request is kept.
Filter(b, excluded) ==
  LET kept == {i \in DOMAIN b.reqs : ~Finished(b.reqs[i]) /\ b.reqs[i] # excluded}
      keep == Without([i \in DOMAIN b.reqs |-> i], DOMAIN b.reqs \ kept)
  IN  IF kept = {} THEN [b EXCEPT !.reqs = <<>>]
      ELSE IF kept = DOMAIN b.reqs THEN b
      ELSE [b EXCEPT !.reqs = [k \in DOMAIN keep |-> b.reqs[keep[k]]],
                     !.rows = [k \in DOMAIN keep |-> b.rows[keep[k]]]]

\* First half of get_next_batch_to_run: the chunked request leaves the slot's last
\* prefill batch, the rest of the batch joins the running batch.
MergeLastBatch ==
  /\ phase = "merge"
  /\ LET own  == chunked[cur] # NoReq /\ ppIdx[chunked[cur]] = cur
         kept == IF last[cur].mode = "extend" /\ chunked[cur] # NoReq
                 THEN Filter(last[cur], chunked[cur]) ELSE last[cur]
         joins == last[cur].mode = "extend" /\ kept.reqs # <<>>
     IN  /\ last' = [last EXCEPT ![cur] = kept]
         /\ chunked' = IF last[cur].mode = "extend" /\ ~own
                       THEN [chunked EXCEPT ![cur] = NoReq] ELSE chunked
         /\ running' = [running EXCEPT ![cur] = IF ~joins THEN @
                                                ELSE IF @ = NoBatch THEN kept ELSE Merge(@, kept)]
         /\ shared' = (last[cur].mode = "decode" \/ (joins /\ running[cur] = NoBatch))
  /\ phase' = "rebalance"
  /\ UNCHANGED <<cur, waiting, ppIdx, pending, batch, progress, arrived>>

-----------------------------------------------------------------------------
\* n_reqs_total, with r the running batch of slot cur after filter_batch.
TotalRequests(r) ==
  LET counted == [s \in Slot |->
                    IF s = cur THEN (IF shared THEN Size(r) ELSE Size(last[s]))
                    ELSE Size(last[s]) - (IF chunked[s] # NoReq THEN 1 ELSE 0)]
  IN  SumFunctionOnSet(counted, Slot) + Size(pending)

BaseTh == BaseUnit * P
Threshold(n) == (n \div BaseTh) * BaseTh
LocalLimit(n) == (Threshold(n) \div P) + BaseUnit

\* Case 1 keeps the size of the tier until n is well above it.
Suppressed(n, headroom) ==
  Threshold(n) > 0 /\ 10 * n < 10 * Threshold(n) + Alpha * BaseTh /\ ~headroom

\* Mutant: the moved requests stay in the running batch.
GiveCopy(r, k, tpot) ==
  /\ running' = [running EXCEPT ![cur] = r]
  /\ pending' = Merge(Slice(r, 1, k), pending)

\* Requests given to pending go before the others, from the tail or the head of r.
Give(r, k, tpot) ==
  LET n == Size(r) IN
  /\ running' = [running EXCEPT ![cur] = IF tpot THEN Slice(r, 1, n - k) ELSE Slice(r, k + 1, n)]
  /\ pending' = Merge(IF tpot THEN Slice(r, n - k + 1, n) ELSE Slice(r, 1, k), pending)

\* Mutant: the tail is taken and the head dropped.
TakeDropHead(r, k, tpot) ==
  LET m == Size(pending)  taken == Slice(pending, m - k + 1, m) IN
  /\ running' = [running EXCEPT ![cur] = IF r.reqs = <<>> THEN taken ELSE Merge(r, taken)]
  /\ pending' = Slice(pending, k + 1, m)

\* Requests are taken from the tail of pending.
Take(r, k, tpot) ==
  LET m == Size(pending)  taken == Slice(pending, m - k + 1, m) IN
  /\ running' = [running EXCEPT ![cur] = IF r.reqs = <<>> THEN taken
                                         ELSE IF tpot THEN Merge(r, taken) ELSE Merge(taken, r)]
  /\ pending' = Slice(pending, 1, m - k)

\* Mutant: a slot without running requests is not refilled.
MoveIntoRunning(r, n, headroom) ==
  IF n \div P > Size(r) /\ Size(r) > 0 THEN -Min({n \div P - Size(r), Size(pending)})
  ELSE IF ~headroom /\ Size(r) > LocalLimit(n) THEN Size(r) - LocalLimit(n) ELSE 0

\* How many requests move: to pending if positive, from pending if negative.
Move(r, n, headroom) ==
  LET need(desired) == desired - Size(r)
      take(k) == IF k > 0 THEN -Min({k, Size(pending)}) ELSE 0
  IN  IF Suppressed(n, headroom)
      THEN LET d == Threshold(n) \div P IN IF Size(r) > d THEN Size(r) - d ELSE take(need(d))
      ELSE IF need(n \div P) > 0 /\ Size(pending) > 0 THEN take(need(n \div P))
      ELSE IF ~headroom /\ Size(r) > LocalLimit(n) THEN Size(r) - LocalLimit(n) ELSE 0

\* rebalance; there is headroom only if prompts are waiting.
Rebalance(tpot, headroom) ==
  /\ phase = "rebalance"
  /\ headroom => waiting # <<>>
  /\ IF running[cur].reqs = <<>> /\ pending.reqs = <<>> THEN UNCHANGED <<running, pending>>
     ELSE LET r == Filter(running[cur], NoReq)
              k == Move(r, TotalRequests(r), headroom)
          IN  IF k > 0 THEN Give(r, k, tpot)
              ELSE IF k < 0 THEN Take(r, -k, tpot)
              ELSE running' = [running EXCEPT ![cur] = r] /\ UNCHANGED pending
  /\ phase' = "launch"
  /\ UNCHANGED <<cur, waiting, last, shared, chunked, ppIdx, batch, progress, arrived>>

-----------------------------------------------------------------------------
\* fetch_chunked_prefill takes the chunked request of the slot before.
Fetched == LET prev == (cur - 1) % P IN
           IF P > 1 /\ chunked[prev] # NoReq THEN chunked[prev] ELSE chunked[cur]

\* The prompt is truncated to this chunk (new_being_chunked_req).
HasMore(r) == chunksLeft[r] > 1

\* The batches a prefill may compute: the chunked request first; then, if that was its
\* last chunk, requests from the head of the queue, the last of which may be chunked.
Prefills ==
  LET c == Fetched
      first == IF c = NoReq THEN <<>> ELSE <<c>>
      fits(k) == \A i \in 1 .. k - 1 : Chunks[waiting[i]] = 1
  IN  IF c # NoReq /\ HasMore(c) THEN {<<c>>}
      ELSE {first \o SubSeq(waiting, 1, k) : k \in {j \in 0 .. Len(waiting) : fits(j)}} \ {<<>>}

\* get_new_batch_prefill.  A mixed batch takes the running batch in and leaves None.
LaunchPrefill(reqs) ==
  /\ phase = "launch"
  /\ reqs \in Prefills
  /\ LET part == Last(reqs)
         more == HasMore(part)
         new  == [mode |-> "extend", reqs |-> reqs, rows |-> reqs,
                  partial |-> IF more THEN part ELSE NoReq]
         mixed == Filter(running[cur], NoReq)
     IN  /\ chunked' = [chunked EXCEPT ![cur] = IF more THEN part ELSE NoReq]
         /\ batch' = IF Mixed /\ mixed.reqs # <<>> THEN Merge(new, mixed) ELSE new
         /\ running' = IF Mixed THEN [running EXCEPT ![cur] = NoBatch] ELSE running
  /\ waiting' = Without(waiting, ToSet(reqs))
  /\ ppIdx' = [r \in Req |-> IF r \in ToSet(reqs) THEN cur ELSE ppIdx[r]]
  /\ chunksLeft' = [r \in Req |-> chunksLeft[r] - (IF r \in ToSet(reqs) THEN 1 ELSE 0)]
  /\ phase' = "finish"
  /\ UNCHANGED <<cur, last, shared, pending, tokensLeft, arrived>>

\* update_running_batch when nothing is prefilled: there is nothing to prefill, or the
\* running requests leave no room for a prompt (batch_is_full, max_running_requests, the
\* memory).
LaunchDecode ==
  /\ phase = "launch"
  /\ LET r == Filter(running[cur], NoReq)
         b == IF r.reqs = <<>> THEN NoBatch ELSE [r EXCEPT !.mode = "decode", !.partial = NoReq]
     IN  /\ Prefills = {} \/ (Fetched = NoReq /\ r.reqs # <<>>)
         /\ running' = [running EXCEPT ![cur] = b] /\ batch' = b
  /\ phase' = "finish"
  /\ UNCHANGED <<cur, waiting, last, shared, chunked, ppIdx, pending, progress, arrived>>

\* End of the iteration: the result of slot cur + 1 is applied (with one stage, the
\* batch's own), and the batch becomes the slot's last batch.
FinishIteration ==
  /\ phase = "finish"
  /\ LET done == IF P = 1 THEN batch ELSE last[(cur + 1) % P]
         gets == ToSet(done.reqs) \ {done.partial}
     IN  tokensLeft' = [r \in Req |-> IF r \in gets /\ ~Finished(r) THEN tokensLeft[r] - 1
                                      ELSE tokensLeft[r]]
  /\ last' = [last EXCEPT ![cur] = batch]
  /\ cur' = (cur + 1) % P
  /\ phase' = "merge" /\ batch' = NoBatch
  /\ UNCHANGED <<waiting, running, shared, chunked, ppIdx, pending, chunksLeft, arrived>>

Arrive ==
  /\ phase = "merge" /\ arrived < N
  /\ arrived' = arrived + 1 /\ waiting' = Append(waiting, arrived')
  /\ UNCHANGED <<phase, cur, running, last, shared, chunked, ppIdx, pending, batch, progress>>

Iterate ==
  \/ MergeLastBatch
  \/ \E tpot \in TpotFirst, headroom \in Headroom : Rebalance(tpot, headroom)
  \/ \E reqs \in Prefills : LaunchPrefill(reqs)
  \/ LaunchDecode
  \/ FinishIteration

Next == Iterate \/ Arrive

Spec == Init /\ [][Next]_vars /\ WF_vars(Iterate)

-----------------------------------------------------------------------------
\* Requests of slot s that are not chunked: running there, or in a prefill batch that
\* has not joined the running batch yet.
InSlot(s) ==
  LET launched == IF s = cur /\ phase = "finish" THEN batch
                  ELSE IF s = cur /\ phase # "merge" THEN NoBatch ELSE last[s]
      prefilled == IF launched.mode = "extend" THEN ToSet(launched.reqs) \ {launched.partial} ELSE {}
  IN  prefilled \cup ToSet(running[s].reqs)

\* Rebalancing loses no request and runs none in two slots: a request that was received
\* and has not ended is in exactly one of the queue, the pending batch, the slots and the
\* chain of chunked prefills (split_batch, merge_batch, the moves between batches).
OnePlace ==
  \A r \in 1 .. arrived : ~Finished(r) =>
    LET slots == {s \in Slot : r \in InSlot(s)}
        chain == {s \in Slot : chunked[s] = r} # {} /\ chunksLeft[r] > 0
        places == Cardinality(slots) + (IF r \in ToSet(waiting) THEN 1 ELSE 0)
                  + (IF r \in ToSet(pending.reqs) THEN 1 ELSE 0) + (IF chain THEN 1 ELSE 0)
    IN  places = 1

\* The tensors of a batch that is launched have one row per request, the request's own
\* ("shape: [b]" in ScheduleBatch): filtering, splitting and merging keep them together.
RowsAligned == batch.rows = batch.reqs

\* No request is in the pending batch while a slot still waits for its result.
PendingQuiet ==
  \A s \in Slot : ~(s = cur /\ phase # "merge") =>
    (ToSet(last[s].reqs) \ {r \in Req : Finished(r)}) \cap ToSet(pending.reqs) = {}

\* check_memory finds nothing allocated when no stage has a batch.
IdleMeansEmpty ==
  (phase = "finish" /\ batch = NoBatch /\ \A s \in Slot : last[s] = NoBatch)
    => pending.reqs = <<>>

\* A request moved to the pending batch runs again.
PendingResumed == \A r \in Req : r \in ToSet(pending.reqs) ~> r \notin ToSet(pending.reqs)

=============================================================================
