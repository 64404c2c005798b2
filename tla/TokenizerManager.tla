-------------------------- MODULE TokenizerManager --------------------------
(***************************************************************************)
(* The tokenizer manager: coroutines of one event loop that send requests  *)
(* to the scheduler, wait for their outputs in rid_to_state, and take the  *)
(* reader/writer lock of RWLock so that weight updates run alone.  An      *)
(* action is what a coroutine does between two awaits.  Readers are calls  *)
(* of generate_request, writers are calls of update_weights_from_disk.     *)
(* The scheduler behind the sockets is reduced to what it answers; clients *)
(* leave at any time.                                                      *)
(***************************************************************************)
EXTENDS RWLock, Sequences, SequencesExt

CONSTANTS
  Rid,        \* ids of requests
  Workloads   \* the functions that give every call the object it is called with

NoUpdate == "no update"

VARIABLES
  obj,         \* obj[c]: the GenerateReqInput of call c; it never changes
  pc,          \* pc[c]: where call c is
  sent,        \* sent[c]: how many of the call's requests are sent
  registered,  \* the keys of rid_to_state
  gen,         \* gen[r]: the generator _wait_one_response of r
  event,       \* the requests whose state.event is set
  finished,    \* the requests whose state.finished is set
  gone,        \* calls whose client has disconnected
  update,      \* update[u]: where update u is
  future,      \* the update that waits for model_update_result
  toScheduler, toTokenizer,  \* the sockets
  running,     \* requests in the scheduler whose last output is still to be sent
  unfiltered,  \* its running batch may still hold requests that have ended
  flushed,     \* those of running whose slots a flush has taken back
  parts,       \* requests of which the scheduler has sent an unfinished output
  exited       \* the scheduler failed an assertion or raised an exception

callVars == <<pc, sent, registered, gen, event, finished>>
serverVars == <<running, unfiltered, flushed, parts, exited>>
vars == <<obj, lockVars, callVars, gone, update, future, toScheduler, toTokenizer, serverVars>>

\* What of the object matters: the rids of its requests, in the order they are sent (with
\* parallel_sample_num > 1 the prefix's first, then the new ones), if it is a batch, if it
\* streams, if tokenizing one of its requests suspends (images), if its last request
\* fails to tokenize, if its client may disconnect, and which requests are long enough
\* for the scheduler to send an unfinished output.
Object == [rids : Seq(Rid), batch : BOOLEAN, parallel : BOOLEAN, stream : BOOLEAN,
           suspends : BOOLEAN, invalid : BOOLEAN, leaves : BOOLEAN, long : SUBSET Rid]

ASSUME WorkloadAssumption ==
  /\ Workloads # {} /\ NoUpdate \notin Writer
  /\ \A w \in Workloads :
       /\ w \in [Reader -> Object]
       /\ \A c \in Reader : /\ w[c].rids # <<>> /\ IsInjective(w[c].rids)
                            /\ w[c].parallel => w[c].batch /\ ~w[c].invalid
       /\ \A c, d \in Reader : c # d => ToSet(w[c].rids) \cap ToSet(w[d].rids) = {}

Subs(c) == obj[c].rids
Call(r) == CHOOSE c \in Reader : r \in ToSet(Subs(c))
Used == UNION {ToSet(Subs(c)) : c \in Reader}

Msg(kind, id) == [kind |-> kind, id |-> id]
Out(r, fin) == [kind |-> "out", id |-> r, fin |-> fin]
Requests(rids) == [i \in DOMAIN rids |-> Msg("req", rids[i])]

Init ==
  /\ LockInit /\ obj \in Workloads
  /\ pc = [c \in Reader |-> "lock"] /\ sent = [c \in Reader |-> 0]
  /\ registered = {} /\ event = {} /\ finished = {} /\ gen = [r \in Rid |-> "none"]
  /\ gone = {} /\ update = [u \in Writer |-> "lock"] /\ future = NoUpdate
  /\ toScheduler = <<>> /\ toTokenizer = <<>>
  /\ running = {} /\ unfiltered = FALSE /\ flushed = {} /\ parts = {} /\ exited = FALSE

-----------------------------------------------------------------------------
\* Calls of generate_request.

\* The call enters the reader lock or waits for it.
Enter(c) ==
  /\ pc[c] = "lock" /\ AcquireReader(c)
  /\ pc' = [pc EXCEPT ![c] = IF task'[c] = "in" THEN "tokenize" ELSE "lock"]
  /\ UNCHANGED <<obj, sent, registered, gen, event, finished, gone, update, future, toScheduler,
                 toTokenizer, serverVars>>

\* Mutant: requests are awaited without being registered.
SendUnregistered(c, k, rids) ==
  /\ sent' = [sent EXCEPT ![c] = @ + k]
  /\ toScheduler' = toScheduler \o Requests(SubSeq(Subs(c), sent[c] + 1, sent[c] + k))
  /\ gen' = [r \in Rid |-> IF r \in rids THEN "waiting" ELSE gen[r]]
  /\ UNCHANGED registered

\* Send the next k requests; the ones of rids are registered, their generators awaited.
SendAndRegister(c, k, rids) ==
  /\ sent' = [sent EXCEPT ![c] = @ + k]
  /\ toScheduler' = toScheduler \o Requests(SubSeq(Subs(c), sent[c] + 1, sent[c] + k))
  /\ registered' = registered \cup rids
  /\ gen' = [r \in Rid |-> IF r \in rids THEN "waiting" ELSE gen[r]]

Remaining(c) == Len(Subs(c)) - sent[c]
Unsent(c) == ToSet(SubSeq(Subs(c), sent[c] + 1, Len(Subs(c))))

\* Tokenize and send.  A batch registers its requests once all of them are sent, when
\* their generators are first awaited.  A parallel call first waits for its prefix.
Send(c) ==
  /\ pc[c] = "tokenize" /\ ~obj[c].invalid
  /\ LET one == obj[c].suspends /\ ~obj[c].parallel /\ Remaining(c) > 1 IN
     IF obj[c].parallel /\ sent[c] = 0
     THEN /\ SendAndRegister(c, 1, {Subs(c)[1]}) /\ pc' = [pc EXCEPT ![c] = "prefix"]
     ELSE IF one THEN SendAndRegister(c, 1, {}) /\ UNCHANGED pc
     ELSE /\ SendAndRegister(c, Remaining(c), IF obj[c].parallel THEN Unsent(c) ELSE ToSet(Subs(c)))
          /\ pc' = [pc EXCEPT ![c] = "wait"]
  /\ UNCHANGED <<obj, lockVars, event, finished, gone, update, future, toTokenizer, serverVars>>

\* _tokenize_one_request raises for the last request: the others have been sent.
TokenizeFails(c) ==
  /\ pc[c] = "tokenize" /\ obj[c].invalid
  /\ SendAndRegister(c, Remaining(c) - 1, {})
  /\ pc' = [pc EXCEPT ![c] = "release"]
  /\ UNCHANGED <<obj, lockVars, event, finished, gone, update, future, toTokenizer, serverVars>>

\* Mutant: the first generator that ends ends the call.
GatheredFirst(c) ==
  /\ \/ /\ pc[c] = "prefix" /\ gen[Subs(c)[1]] = "over" /\ pc' = [pc EXCEPT ![c] = "tokenize"]
     \/ /\ pc[c] = "prefix" /\ gen[Subs(c)[1]] = "raised" /\ pc' = [pc EXCEPT ![c] = "release"]
     \/ /\ pc[c] = "wait" /\ pc' = [pc EXCEPT ![c] = "release"]
        /\ \/ \E r \in ToSet(Subs(c)) : gen[r] = "raised"
           \/ \E r \in ToSet(Subs(c)) : gen[r] = "over"
  /\ UNCHANGED <<obj, lockVars, sent, registered, gen, event, finished, gone, update, future,
                 toScheduler, toTokenizer, serverVars>>

\* The generator of the prefix has yielded or raised, or all the generators have.
Gathered(c) ==
  /\ \/ /\ pc[c] = "prefix" /\ gen[Subs(c)[1]] = "over" /\ pc' = [pc EXCEPT ![c] = "tokenize"]
     \/ /\ pc[c] = "prefix" /\ gen[Subs(c)[1]] = "raised" /\ pc' = [pc EXCEPT ![c] = "release"]
     \/ /\ pc[c] = "wait" /\ pc' = [pc EXCEPT ![c] = "release"]
        /\ \/ \E r \in ToSet(Subs(c)) : gen[r] = "raised"
           \/ \A r \in ToSet(Subs(c)) : gen[r] = "over"
  /\ UNCHANGED <<obj, lockVars, sent, registered, gen, event, finished, gone, update, future,
                 toScheduler, toTokenizer, serverVars>>

\* __aexit__ of the reader lock; a streaming response then runs its background task.
Leave(c) ==
  /\ pc[c] = "release" /\ ReleaseReader(c)
  /\ pc' = [pc EXCEPT ![c] = IF obj[c].stream THEN "background" ELSE "done"]
  /\ UNCHANGED <<obj, sent, registered, gen, event, finished, gone, update, future, toScheduler,
                 toTokenizer, serverVars>>

\* Starlette cancels the generator of a streaming response whose client has left.  The
\* tasks that a batch made of its generators go on.
CancelStream(c) ==
  /\ c \in gone /\ obj[c].stream
  /\ LET stays == obj[c].batch /\ pc[c] = "wait" IN
     \/ /\ pc[c] = "lock" /\ CancelReader(c)
        /\ pc' = [pc EXCEPT ![c] = "background"] /\ UNCHANGED gen
     \/ /\ pc[c] \in {"prefix", "wait"} \/ (pc[c] = "tokenize" /\ obj[c].suspends)
        /\ pc' = [pc EXCEPT ![c] = "release"] /\ UNCHANGED lockVars
        /\ gen' = [r \in Rid |-> IF /\ r \in ToSet(Subs(c))
                                    /\ gen[r] = "yielded" \/ (gen[r] = "waiting" /\ ~stays)
                                 THEN "over" ELSE gen[r]]
  /\ UNCHANGED <<obj, sent, registered, event, finished, gone, update, future, toScheduler,
                 toTokenizer, serverVars>>

\* abort_request for the requests rids.
Abort(rids) ==
  /\ registered' = registered \ rids
  /\ toScheduler' = toScheduler \o SetToSeq({Msg("abort", r) : r \in rids \cap registered})

\* Mutant: the rids of a batch are not looked at.
AbortSingleOnly(c) ==
  /\ pc[c] = "background"
  /\ Abort(IF obj[c].batch THEN {} ELSE ToSet(Subs(c)))
  /\ pc' = [pc EXCEPT ![c] = "done"]
  /\ UNCHANGED <<obj, lockVars, sent, gen, event, finished, gone, update, future, toTokenizer,
                 serverVars>>

\* create_abort_task, a second after the stream has ended: obj.rid does not hold the new
\* rids that parallel sampling made.
BackgroundAbort(c) ==
  /\ pc[c] = "background"
  /\ Abort(IF obj[c].parallel THEN {} ELSE ToSet(Subs(c)))
  /\ pc' = [pc EXCEPT ![c] = "done"]
  /\ UNCHANGED <<obj, lockVars, sent, gen, event, finished, gone, update, future, toTokenizer,
                 serverVars>>

-----------------------------------------------------------------------------
\* _wait_one_response for request r.

\* The event is set: take the output.
Wake(r) ==
  /\ gen[r] = "waiting" /\ r \in event
  /\ IF r \in finished
     THEN /\ registered' = registered \ {r} /\ gen' = [gen EXCEPT ![r] = "over"]
          /\ UNCHANGED <<event, toScheduler>>
     ELSE /\ event' = event \ {r}
          /\ IF obj[Call(r)].stream
             THEN /\ gen' = [gen EXCEPT ![r] = IF pc[Call(r)] = "wait" THEN "yielded" ELSE "over"]
                  /\ UNCHANGED <<registered, toScheduler>>
             ELSE IF Call(r) \in gone
             THEN gen' = [gen EXCEPT ![r] = "raised"] /\ Abort({r})
             ELSE UNCHANGED <<gen, registered, toScheduler>>
  /\ UNCHANGED <<obj, lockVars, pc, sent, finished, gone, update, future, toTokenizer, serverVars>>

\* wait_for timed out and the client has left.
TimedOut(r) ==
  /\ gen[r] = "waiting" /\ r \notin event /\ Call(r) \in gone
  /\ gen' = [gen EXCEPT ![r] = "raised"] /\ Abort({r})
  /\ UNCHANGED <<obj, lockVars, pc, sent, event, finished, gone, update, future, toTokenizer,
                 serverVars>>

\* The client has taken a part of the stream and asks for the next.
Resume(r) ==
  /\ gen[r] = "yielded" /\ pc[Call(r)] = "wait"
  /\ gen' = [gen EXCEPT ![r] = "waiting"]
  /\ UNCHANGED <<obj, lockVars, pc, sent, registered, event, finished, gone, update, future,
                 toScheduler, toTokenizer, serverVars>>

\* handle_loop: outputs of requests that are not registered are dropped.
HandleLoop ==
  /\ toTokenizer # <<>>
  /\ toTokenizer' = Tail(toTokenizer)
  /\ LET m == Head(toTokenizer) IN
     \/ /\ m.kind = "out" /\ m.id \in registered
        /\ event' = event \cup {m.id}
        /\ finished' = IF m.fin THEN finished \cup {m.id} ELSE finished
        /\ UNCHANGED <<update, future>>
     \/ m.kind = "out" /\ m.id \notin registered /\ UNCHANGED <<event, finished, update, future>>
     \/ /\ m.kind = "updated"
        /\ update' = [update EXCEPT ![future] = "release"] /\ future' = NoUpdate
        /\ UNCHANGED <<event, finished>>
  /\ UNCHANGED <<obj, lockVars, pc, sent, registered, gen, gone, toScheduler, serverVars>>

-----------------------------------------------------------------------------
\* update_weights_from_disk, update_weights_from_distributed (dp_size = 1).

EnterUpdate(u) ==
  /\ update[u] = "lock" /\ AcquireWriter(u)
  /\ IF task'[u] = "in"
     THEN /\ toScheduler' = Append(toScheduler, Msg("update", u))
          /\ update' = [update EXCEPT ![u] = "asked"] /\ future' = u
     ELSE UNCHANGED <<toScheduler, update, future>>
  /\ UNCHANGED <<obj, callVars, gone, toTokenizer, serverVars>>

LeaveUpdate(u) ==
  /\ update[u] = "release" /\ ReleaseWriter(u)
  /\ update' = [update EXCEPT ![u] = "done"]
  /\ UNCHANGED <<obj, callVars, gone, future, toScheduler, toTokenizer, serverVars>>

-----------------------------------------------------------------------------
\* The scheduler takes messages in order at the beginning of its iterations.

Answer(u) == toTokenizer' = Append(toTokenizer, Msg("updated", u))

\* update_weights_from_disk or _from_distributed, which asserts that flush_cache succeeds.
\* That looks at waiting_queue and at the running batch of slot 0.  It may find a request
\* that has ended, until filter_batch drops it in a later iteration (when is left open); a
\* request in another slot or in a prefill batch that is not merged yet it does not find.
\* An update that fails flushes nothing.
UpdateWeights(u) ==
  \/ (running # {} \/ unfiltered) /\ exited' = TRUE /\ UNCHANGED <<flushed, toTokenizer>>
  \/ Answer(u) /\ flushed' = flushed \cup running /\ UNCHANGED exited
  \/ Answer(u) /\ UNCHANGED <<flushed, exited>>

\* An abort takes a request out of waiting_queue; one that runs goes on to its end.
SchedulerReceives ==
  /\ ~exited /\ toScheduler # <<>>
  /\ toScheduler' = Tail(toScheduler)
  /\ LET m == Head(toScheduler) IN
     \/ /\ m.kind = "req" /\ running' = running \cup {m.id}
        /\ UNCHANGED <<flushed, toTokenizer, exited>>
     \/ /\ m.kind = "abort" /\ running' \in {running, running \ {m.id}}
        /\ flushed' = flushed \cap running' /\ UNCHANGED <<toTokenizer, exited>>
     \/ m.kind = "update" /\ UpdateWeights(m.id) /\ UNCHANGED running
  /\ UNCHANGED <<obj, lockVars, callVars, gone, update, future, unfiltered, parts>>

\* A prefix has no unfinished outputs: its max_new_tokens is 0.
Prefix(r) == obj[Call(r)].parallel /\ r = Subs(Call(r))[1]

\* stream_output at the end of process_batch_result.
SchedulerSends(r, fin) ==
  /\ ~exited /\ r \in running
  /\ fin \/ (r \in obj[Call(r)].long \ parts /\ ~Prefix(r))
  /\ toTokenizer' = Append(toTokenizer, Out(r, fin))
  /\ running' = IF fin THEN running \ {r} ELSE running
  /\ unfiltered' = (unfiltered \/ fin) /\ flushed' = flushed \cap running'
  /\ parts' = IF fin THEN parts ELSE parts \cup {r}
  /\ UNCHANGED <<obj, lockVars, callVars, gone, update, future, toScheduler, exited>>

\* The end of a request whose node the flush has dropped with the tree: dec_lock_ref raises.
FlushedFails(r) ==
  /\ ~exited /\ r \in flushed /\ exited' = TRUE
  /\ UNCHANGED <<obj, lockVars, callVars, gone, update, future, toScheduler, toTokenizer,
                 running, unfiltered, flushed, parts>>

ClientLeaves(c) ==
  /\ obj[c].leaves /\ c \notin gone /\ task[c] # "out"
  /\ gone' = gone \cup {c}
  /\ UNCHANGED <<obj, lockVars, callVars, update, future, toScheduler, toTokenizer, serverVars>>

-----------------------------------------------------------------------------
CallStep(c) == \/ Enter(c) \/ Send(c) \/ TokenizeFails(c) \/ Gathered(c) \/ Leave(c)
               \/ CancelStream(c) \/ BackgroundAbort(c)
GenStep(r) == Wake(r) \/ TimedOut(r) \/ Resume(r)
UpdateStep(u) == EnterUpdate(u) \/ LeaveUpdate(u)
SchedulerStep(r) ==
  FlushedFails(r) \/ \E fin \in BOOLEAN : SchedulerSends(r, fin)

Next ==
  \/ \E c \in Reader : CallStep(c) \/ ClientLeaves(c)
  \/ \E r \in Rid : GenStep(r) \/ SchedulerStep(r)
  \/ \E u \in Writer : UpdateStep(u)
  \/ HandleLoop
  \/ SchedulerReceives

\* The event loop runs every coroutine that is ready, the scheduler ends every request.
\* No call has to arrive, no client to leave.
Spec ==
  /\ Init /\ [][Next]_vars
  /\ \A c \in Reader : WF_vars((task[c] # "out" \/ pc[c] = "background") /\ CallStep(c))
  /\ \A r \in Rid : WF_vars(GenStep(r)) /\ WF_vars(SchedulerSends(r, TRUE))
  /\ \A u \in Writer : WF_vars(task[u] # "out" /\ UpdateStep(u))
  /\ WF_vars(HandleLoop) /\ WF_vars(SchedulerReceives)

-----------------------------------------------------------------------------
\* "weight sync cannot run while requests are in progress": from the moment an update is
\* sent until its result is taken no call is between its tokenization and the end of its
\* generators, and no other update is under way.
InProgress == {"tokenize", "prefix", "wait", "release"}
UnderWay == {"asked", "release"}

UpdatesRunAlone ==
  \A u \in Writer : update[u] \in UnderWay =>
    /\ \A c \in Reader : pc[c] \notin InProgress
    /\ \A v \in Writer \ {u} : update[v] \notin UnderWay

\* What that is good for: while a weight update is under way the scheduler has no request
\* to go on with whose call waits for it, so no answer is computed partly with the old
\* weights and partly with the new, unless a client has left or a request was refused while
\* others of its batch ran.
NoAnswerSpansUpdate ==
  (\E u \in Writer : update[u] \in UnderWay) =>
    \A r \in running : Call(r) \in gone \/ obj[Call(r)].invalid

\* "Cache flush failed after updating weights": the scheduler's assertion does not fail if
\* no client leaves and no request is refused.
SyncFindsIdle == exited => gone # {} \/ \E c \in Reader : obj[c].invalid

\* Every call that has entered gets all its answers, every weight update is done, unless
\* the client leaves, a request is refused or the scheduler exits.
Answered(c) == pc[c] \in {"background", "done"} /\ \A r \in ToSet(Subs(c)) : gen[r] = "over"

Served ==
  /\ \A c \in Reader : (task[c] # "out" /\ ~obj[c].invalid) ~> (Answered(c) \/ c \in gone \/ exited)
  /\ \A u \in Writer : (task[u] # "out") ~> (update[u] = "done" \/ exited)

\* rid_to_state becomes empty again, whoever leaves, so that sigterm_watchdog can drain.
StatesCleared == \A r \in Rid : (r \in registered) ~> (r \notin registered \/ exited)

=============================================================================
