----------------------------- MODULE RadixCache -----------------------------
(***************************************************************************)
(* RadixCache and the scheduler that uses it (pp_size = 1): finished and   *)
(* running requests share the KV slots of common token prefixes.  A tree   *)
(* node is named by the tokens from the root to its end, which splitting   *)
(* the edge above it leaves alone; a path of the tree has one KV slot per  *)
(* token.  One iteration of the scheduler is the phases start, admit,      *)
(* extend or check/retract/decode, and results, with evict in between.     *)
(* Which leaf is the least recently used and which waiting request comes   *)
(* first (the scheduling policy) are any.  The row pool, mixed batches,    *)
(* the overlap loop and flush_cache are left to MicroBatch.                *)
(***************************************************************************)
EXTENDS Integers, SequencesExt, FiniteSetsExt

CONSTANTS
  Vocabulary,   \* token ids
  N,            \* requests
  Prompts,      \* the functions that give the requests their origin_input_ids
  MaxNew,       \* MaxNew[r]: max_new_tokens
  Slots,        \* KV slots of token_to_kv_pool
  ChunkSize,    \* chunked_prefill_size
  RetractSteps  \* global_config.retract_decode_steps

Req == 1 .. N
Path == Seq(Vocabulary)

ASSUME SizeAssumption == N \in Nat /\ Slots \subseteq Nat /\ IsFiniteSet(Slots) /\ ChunkSize \in Nat \ {0}
                         /\ RetractSteps \in Nat \ {0} /\ MaxNew \in [Req -> Nat \ {0}]
ASSUME PromptAssumption == Prompts \subseteq [Req -> Path \ {<<>>}]

VARIABLES
  phase,      \* what the iteration does next
  back,       \* the phase that called evict
  need,       \* num_tokens - num_evicted
  tree,       \* the radix tree: slots of its paths, lock_ref of its nodes, evictable_size_
  free,       \* free[s]: how often slot s is in free_slots
  content,    \* content[s]: the tokens s was computed for (the KV tensors)
  available,  \* self.available_size
  budget,     \* rem_total_tokens, in half tokens: new_token_ratio makes it a fraction
  chunkLeft,  \* rem_chunk_tokens
  batch,      \* requests of the batch being prepared or run
  todo,       \* requests of the batch whose results are not applied yet
  prompt,     \* prompt[r]: origin_input_ids
  req         \* req[r]: ids are origin_input_ids + output_ids, row is the row of req_pool_idx

memory == <<tree, free, content>>
vars == <<phase, back, need, memory, available, budget, chunkLeft, batch, todo, prompt, req>>

With(status) == {r \in Req : req[r].status = status}
Outputs(r) == Len(req[r].ids) - Len(prompt[r])
AvailableSize == SumFunctionOnSet(free, Slots)

Init ==
  /\ phase = "start" /\ back = "start" /\ need = 0
  /\ tree = [slots |-> <<>>, lock |-> <<>>, evictable |-> 0]
  /\ free = [s \in Slots |-> 1] /\ content = [s \in Slots |-> <<>>]
  /\ available = 0 /\ budget = 0 /\ chunkLeft = 0 /\ batch = {} /\ todo = {}
  /\ prompt \in Prompts
  /\ req = [r \in Req |-> [status |-> "waiting", ids |-> prompt[r], fill |-> 0,
                           row |-> <<>>, prefix |-> <<>>, node |-> <<>>]]

-----------------------------------------------------------------------------
(***************************************************************************)
(* The tree.                                                               *)
(***************************************************************************)
Nodes(t) == DOMAIN t.lock
Take(s, n) == SubSeq(s, 1, n)
Up(t, node) == {e \in Nodes(t) : IsPrefix(e, node)}
Edge(t, e) == Len(e) - Max({0} \cup {Len(d) : d \in Up(t, e) \ {e}})
Size(t, es) == SumFunctionOnSet([e \in es |-> Edge(t, e)], es)
SlotsOf(t, path) == [i \in 1 .. Len(path) |-> t.slots[Take(path, i)]]
Matched(t, key) == Max({0} \cup {i \in 1 .. Len(key) : Take(key, i) \in DOMAIN t.slots})

\* Mutant: the new node starts with no lock.
SplitUnlocked(t, path) ==
  IF path \in {<<>>} \cup Nodes(t) THEN t
  ELSE [t EXCEPT !.lock = [e \in Nodes(t) \cup {path} |-> IF e = path THEN 0 ELSE t.lock[e]]]

\* _split_node: the node whose edge path ends in gets a parent that ends there.
Split(t, path) ==
  IF path \in {<<>>} \cup Nodes(t) THEN t
  ELSE LET child == CHOOSE e \in Nodes(t) : /\ IsPrefix(path, e)
                                            /\ \A d \in Nodes(t) : IsPrefix(path, d) => Len(e) <= Len(d)
       IN  [t EXCEPT !.lock = [e \in Nodes(t) \cup {path} |-> t.lock[IF e = path THEN child ELSE e]]]

MatchPrefix(t, key) ==
  LET path == Take(key, Matched(t, key))
  IN  [tree |-> Split(t, path), node |-> path, slots |-> SlotsOf(t, path)]

\* insert: the slots of the part of key the tree does not hold go to a new leaf.
Insert(t, key, value) ==
  LET n == Matched(t, key)
      s == Split(t, Take(key, n))
      new == {Take(key, i) : i \in n + 1 .. Len(key)}
  IN  IF n = Len(key) THEN s
      ELSE [slots |-> [p \in DOMAIN s.slots \cup new |-> IF p \in new THEN value[Len(p)] ELSE s.slots[p]],
            lock |-> [e \in Nodes(s) \cup {key} |-> IF e = key THEN 0 ELSE s.lock[e]],
            evictable |-> s.evictable + Len(key) - n]

IncLock(t, node) ==
  [t EXCEPT !.evictable = @ - Size(t, {e \in Up(t, node) : t.lock[e] = 0}),
            !.lock = [e \in Nodes(t) |-> IF e \in Up(t, node) THEN @[e] + 1 ELSE @[e]]]

DecLock(t, node) ==
  [t EXCEPT !.evictable = @ + Size(t, {e \in Up(t, node) : t.lock[e] = 1}),
            !.lock = [e \in Nodes(t) |-> IF e \in Up(t, node) THEN @[e] - 1 ELSE @[e]]]

\* token_to_kv_pool.free.  What a free slot was computed for is forgotten.
Free(released) ==
  /\ free' = [s \in Slots |-> IF s \in released THEN free[s] + 1 ELSE free[s]]
  /\ content' = [s \in Slots |-> IF s \in released THEN <<>> ELSE content[s]]

\* The n slots alloc returns: a queue in the code, the smallest here.
Alloc(n) == LET unused == {s \in Slots : free[s] > 0}
            IN  [i \in 1 .. n |-> CHOOSE s \in unused : Cardinality({u \in unused : u <= s}) = i]

-----------------------------------------------------------------------------
(***************************************************************************)
(* cache_unfinished_req and cache_finished_req: the request's slots go to  *)
(* the tree; those of a prefix the tree got from another request meanwhile *)
(* are freed.                                                              *)
(***************************************************************************)
\* Mutant: the row keeps the slots that were freed.
CacheUnfinishedRowKept(r, key) ==
  LET q == req[r]
      kv == Take(q.row, Len(key))
      m == MatchPrefix(Insert(tree, key, kv), key)
  IN  [tree |-> IncLock(DecLock(m.tree, q.node), m.node),
       released |-> Range(SubSeq(kv, Len(q.prefix) + 1, Matched(tree, key))),
       req |-> [q EXCEPT !.prefix = m.slots, !.node = m.node]]

CacheUnfinished(r, key) ==
  LET q == req[r]
      kv == Take(q.row, Len(key))
      had == Len(q.prefix)
      m == MatchPrefix(Insert(tree, key, kv), key)
  IN  [tree |-> IncLock(DecLock(m.tree, q.node), m.node),
       released |-> Range(SubSeq(kv, had + 1, Matched(tree, key))),
       req |-> [q EXCEPT !.row = Take(q.row, had) \o SubSeq(m.slots, had + 1, Len(key)),
                         !.prefix = m.slots, !.node = m.node]]

\* Mutant: the slots of the prefix the request started from are freed too.
CacheFinishedFreesPrefix(r, key) ==
  LET q == req[r]
      kv == Take(q.row, Len(key))
  IN  [tree |-> DecLock(Insert(tree, key, kv), q.node),
       released |-> Range(Take(kv, Matched(tree, key))),
       req |-> [q EXCEPT !.status = "done", !.row = <<>>]]

CacheFinished(r, key) ==
  LET q == req[r]
      kv == Take(q.row, Len(key))
  IN  [tree |-> DecLock(Insert(tree, key, kv), q.node),
       released |-> Range(SubSeq(kv, Len(q.prefix) + 1, Matched(tree, key))),
       req |-> [q EXCEPT !.status = "done", !.row = <<>>]]

-----------------------------------------------------------------------------
(***************************************************************************)
(* Building a prefill batch.                                               *)
(***************************************************************************)
\* What the running requests may need, in half tokens: new_token_ratio, which is above 0,
\* times their missing tokens.  Requests that have just ended count too in the code; that
\* they keep others out is one of the limits StopAdding stands for.
Reserved == LET rest == SumFunctionOnSet([r \in Req |-> MaxNew[r] - Outputs(r)], With("running"))
            IN  IF rest = 0 THEN {0} ELSE 1 .. 2 * rest

\* recv_requests measures the pool; a chunked request's last chunk goes to the tree, and
\* its next one starts the new batch (add_being_chunked_req).
Start ==
  /\ phase = "start" /\ phase' = "admit" /\ available' = AvailableSize
  /\ \E reserved \in Reserved :
       IF With("chunked") = {}
       THEN /\ budget' = 2 * (AvailableSize + tree.evictable) - reserved
            /\ chunkLeft' = ChunkSize /\ batch' = {}
            /\ UNCHANGED <<memory, req>>
       ELSE LET c == CHOOSE r \in With("chunked") : TRUE
                k == CacheUnfinished(c, Take(req[c].ids, req[c].fill))
                rest == Len(req[c].ids) - req[c].fill
                now == Min({rest, ChunkSize})
            IN  /\ tree' = k.tree /\ Free(k.released)
                /\ req' = [req EXCEPT ![c] = [k.req EXCEPT !.row = <<>>, !.fill = @ + now,
                             !.status = IF now < rest THEN "chunked" ELSE "running"]]
                /\ batch' = {c} /\ chunkLeft' = ChunkSize - now
                /\ budget' = 2 * (AvailableSize + k.tree.evictable - now
                                  - (IF now < rest THEN 0 ELSE MaxNew[c])) - reserved
  /\ UNCHANGED <<back, need, todo, prompt>>

\* Mutant: what the request's own prefix takes from the evictable size is not looked at.
FitsUnlocked(total, delta) == 2 * total < budget

\* The two NO_TOKEN tests of add_one_req: before and after its prefix is locked.
Fits(total, delta) == 2 * total < budget /\ 2 * total <= budget + 2 * delta

Full == IF batch = {} THEN "check" ELSE "extend"

\* init_next_round_input and add_one_req for a waiting request.  If it is not taken, the
\* tree may still have been split for it, and no other request is looked at.
TryAdd(r) ==
  /\ phase = "admit" /\ req[r].status = "waiting"
  /\ LET ids == req[r].ids
         m == MatchPrefix(tree, Take(ids, Len(ids) - 1))
         ext == Len(ids) - Len(m.node)
         now == Min({ext, chunkLeft})
         locked == IncLock(m.tree, m.node)
         delta == locked.evictable - m.tree.evictable
     IN  IF Fits(ext + MaxNew[r], delta) /\ chunkLeft > 0
         THEN /\ tree' = locked /\ batch' = batch \cup {r}
              /\ chunkLeft' = chunkLeft - now
              /\ budget' = budget + 2 * (delta - now - (IF now < ext THEN 0 ELSE MaxNew[r]))
              /\ req' = [req EXCEPT ![r] = [@ EXCEPT !.prefix = m.slots, !.node = m.node,
                           !.fill = Len(m.node) + now,
                           !.status = IF now < ext THEN "chunked" ELSE "running"]]
              /\ phase' = IF budget' > 0 /\ chunkLeft' > 0 THEN "admit" ELSE "extend"
         ELSE /\ tree' = m.tree /\ phase' = Full
              /\ UNCHANGED <<batch, chunkLeft, budget, req>>
  /\ UNCHANGED <<back, need, free, content, available, todo, prompt>>

\* No other request has arrived, or one of the limits on the batch that are not modelled
\* is reached.
StopAdding ==
  /\ phase = "admit" /\ phase' = Full
  /\ UNCHANGED <<back, need, memory, available, budget, chunkLeft, batch, todo, prompt, req>>

-----------------------------------------------------------------------------
(***************************************************************************)
(* Memory for the batch.                                                   *)
(***************************************************************************)
New(use, r) == IF use = "decode" THEN 1 ELSE req[r].fill - Len(req[r].prefix)
Wanted(use) == SumFunctionOnSet([r \in batch |-> New(use, r)], batch)

\* alloc_token_slots, and the forward pass that computes the slots: rows of a prefill
\* start with the cached prefix.  A request not prefilled to its end gets no result.
Run ==
  /\ phase \in {"extend", "decode"} /\ AvailableSize >= Wanted(phase)
  /\ LET got == Alloc(Wanted(phase))
         skip(r) == SumFunctionOnSet([q \in batch |-> New(phase, q)], {q \in batch : q < r})
         mine(r) == SubSeq(got, skip(r) + 1, skip(r) + New(phase, r))
         row(r) == (IF phase = "decode" THEN req[r].row ELSE req[r].prefix) \o mine(r)
     IN  /\ req' = [r \in Req |-> IF r \in batch THEN [req[r] EXCEPT !.row = row(r)] ELSE req[r]]
         /\ free' = [s \in Slots |-> IF s \in Range(got) THEN free[s] - 1 ELSE free[s]]
         /\ content' = [s \in Slots |->
              IF s \notin Range(got) THEN content[s]
              ELSE LET r == CHOOSE q \in batch : s \in Range(mine(q))
                   IN  Take(req[r].ids, CHOOSE i \in DOMAIN row(r) : row(r)[i] = s)]
  /\ todo' = batch \ With("chunked") /\ back' = phase
  /\ phase' = IF todo' = {} THEN "start" ELSE "results"
  /\ UNCHANGED <<need, tree, available, budget, chunkLeft, batch, prompt>>

\* The first of the two allocations of alloc_token_slots failed.
EvictForBatch ==
  /\ phase \in {"extend", "decode"} /\ AvailableSize < Wanted(phase)
  /\ need' = Wanted(phase) /\ back' = phase /\ phase' = "evict"
  /\ UNCHANGED <<memory, available, budget, chunkLeft, batch, todo, prompt, req>>

\* The leaves evict may take: those no request holds.
Evictable == {e \in Nodes(tree) : /\ tree.lock[e] = 0
                                  /\ \A d \in Nodes(tree) \ {e} : ~IsPrefix(e, d)}

\* One turn of the loop of evict.
EvictLeaf ==
  /\ phase = "evict" /\ need > 0
  /\ \E e \in Evictable :
       LET gone == {Take(e, i) : i \in Len(e) - Edge(tree, e) + 1 .. Len(e)}
       IN  /\ need' = need - Edge(tree, e)
           /\ tree' = [slots |-> Restrict(tree.slots, DOMAIN tree.slots \ gone),
                       lock |-> Restrict(tree.lock, Nodes(tree) \ {e}),
                       evictable |-> tree.evictable - Edge(tree, e)]
           /\ Free({tree.slots[p] : p \in gone})
  /\ UNCHANGED <<phase, back, available, budget, chunkLeft, batch, todo, prompt, req>>

\* evict returns.  If the second allocation fails too, the process exits.
EvictDone ==
  /\ phase = "evict" /\ (need <= 0 \/ Evictable = {})
  /\ phase' = IF back \in {"extend", "decode"} /\ AvailableSize < Wanted(back)
              THEN "exited" ELSE back
  /\ need' = 0
  /\ UNCHANGED <<back, memory, available, budget, chunkLeft, batch, todo, prompt, req>>

\* check_decode_mem: available_size is tested again after evict, not the pool.
CheckDecodeMem ==
  /\ phase = "check"
  /\ batch' = With("running")
  /\ IF batch' = {} THEN phase' = "start" /\ UNCHANGED <<back, need>>
     ELSE IF available >= Cardinality(batch') THEN phase' = "decode" /\ UNCHANGED <<back, need>>
     ELSE phase' = "evict" /\ back' = "retract" /\ need' = Cardinality(batch')
  /\ UNCHANGED <<memory, available, budget, chunkLeft, todo, prompt, req>>

\* The requests retract_decode may take next: fewest output tokens, then longest prompt.
Victims == {r \in batch : \A q \in batch :
              \/ Outputs(r) < Outputs(q)
              \/ Outputs(r) = Outputs(q) /\ Len(prompt[r]) >= Len(prompt[q])}

\* retract_decode takes a request out of the batch: what the tree does not hold is freed,
\* the rest is unlocked and evicted at once if the others need it.
RetractOne ==
  /\ phase = "retract" /\ available < Cardinality(batch) * RetractSteps /\ Cardinality(batch) > 1
  /\ \E r \in Victims :
       /\ batch' = batch \ {r}
       /\ Free(Range(SubSeq(req[r].row, Len(req[r].prefix) + 1, Len(req[r].row))))
       /\ tree' = DecLock(tree, req[r].node)
       /\ req' = [req EXCEPT ![r] = [@ EXCEPT !.status = "waiting", !.row = <<>>,
                                               !.prefix = <<>>, !.node = <<>>]]
  /\ need' = Max({0, Cardinality(batch') * RetractSteps - SumFunctionOnSet(free', Slots)})
  /\ phase' = "evict"
  /\ UNCHANGED <<back, available, budget, chunkLeft, todo, prompt>>

\* retract_decode returns, or its assertion fails: available_size was measured before
\* anything was evicted.
RetractDone ==
  /\ phase = "retract"
  /\ available >= Cardinality(batch) * RetractSteps \/ Cardinality(batch) = 1
  /\ phase' = IF available >= Cardinality(batch) * RetractSteps \/ available > 0
              THEN "decode" ELSE "failed"
  /\ UNCHANGED <<back, need, memory, available, budget, chunkLeft, batch, todo, prompt, req>>

-----------------------------------------------------------------------------
\* process_batch_result for one request of the batch: it gets a token, and ends with it
\* at the latest after max_new_tokens.  A decoded token is not cached.
Result(r) ==
  /\ phase = "results" /\ r \in todo
  /\ \E token \in Vocabulary, ends \in BOOLEAN :
       LET k == IF ends THEN CacheFinished(r, req[r].ids)
                ELSE CacheUnfinished(r, Take(req[r].ids, req[r].fill))
           kept == [tree |-> tree, released |-> {}, req |-> req[r]]
           got == IF ~ends /\ back = "decode" THEN kept ELSE k
       IN  /\ Outputs(r) + 1 >= MaxNew[r] => ends
           /\ tree' = got.tree /\ Free(got.released)
           /\ req' = [req EXCEPT ![r] = [got.req EXCEPT !.ids = Append(@, token)]]
  /\ todo' = todo \ {r} /\ phase' = IF todo' = {} THEN "start" ELSE "results"
  /\ UNCHANGED <<back, need, available, budget, chunkLeft, batch, prompt>>

Next == \/ Start \/ StopAdding \/ Run \/ EvictForBatch \/ EvictLeaf \/ EvictDone
        \/ CheckDecodeMem \/ RetractOne \/ RetractDone
        \/ \E r \in Req : TryAdd(r) \/ Result(r)

Spec == Init /\ [][Next]_vars

-----------------------------------------------------------------------------
\* Slots of r's row that are not the tree's.
Private(r) == Range(SubSeq(req[r].row, Len(req[r].prefix) + 1, Len(req[r].row)))

\* Every KV slot is free, in the tree or in the uncached part of one row, and only once:
\* nothing is freed twice and nothing is lost, which is what check_memory looks for
\* ("KV cache pool leak detected!").
SlotsOwnedOnce ==
  \A s \in Slots : free[s] + Cardinality({p \in DOMAIN tree.slots : tree.slots[p] = s})
                           + Cardinality({r \in Req : s \in Private(r)}) = 1

\* lock_ref of a node is the number of requests whose last_node is at or below it, and
\* evictable_size_ counts the tokens of the nodes without any.
LocksMatchHolders ==
  /\ \A e \in Nodes(tree) : tree.lock[e] =
       Cardinality({r \in With("chunked") \cup With("running") : IsPrefix(e, req[r].node)})
  /\ tree.evictable = Size(tree, {e \in Nodes(tree) : tree.lock[e] = 0})

\* A request attends to the KV of its own tokens: each slot of its row, and each slot of
\* its cached prefix, was computed for exactly the tokens up to that place, and so was
\* each slot of the tree.
KVMatchesTokens ==
  /\ \A p \in DOMAIN tree.slots : content[tree.slots[p]] = p
  /\ \A r \in Req : /\ \A i \in DOMAIN req[r].row : content[req[r].row[i]] = Take(req[r].ids, i)
                    /\ req[r].status \in {"chunked", "running"} =>
                         req[r].prefix = SlotsOf(tree, req[r].node)

\* An admitted request finds its slots: what evictable_size promised to add_one_req can
\* be evicted when alloc_token_slots asks for it.
AdmittedFits == phase # "exited"

\* "No space left for only one request" (schedule_batch.py:936) is asserted of a batch
\* that memory cached for nobody could serve.
SpaceForLastRequest == phase = "failed" => tree.evictable = 0 /\ AvailableSize = 0

=============================================================================
