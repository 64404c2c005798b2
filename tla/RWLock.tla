------------------------------- MODULE RWLock -------------------------------
(***************************************************************************)
(* The reader/writer lock of the tokenizer manager (aio_rwlock.py).  Tasks *)
(* of one event loop acquire it; what a task does between two awaits is    *)
(* one step, and the condition variable's own lock is never held across an *)
(* await, so it is not modelled.                                           *)
(***************************************************************************)
EXTENDS Naturals, FiniteSets

CONSTANTS Reader, Writer   \* the tasks that take the lock as reader, as writer

ASSUME TaskAssumption == /\ IsFiniteSet(Reader) /\ IsFiniteSet(Writer)
                         /\ Reader \cap Writer = {}

VARIABLES
  readers,         \* _readers
  writerActive,    \* _writer_active
  waitingWriters,  \* _waiting_writers
  task             \* task[t]: "out", "asleep" in _cond, "woken" by a notify, or "in"

lockVars == <<readers, writerActive, waitingWriters, task>>

Task == Reader \cup Writer
Waiting == {"asleep", "woken"}

LockInit ==
  /\ readers = 0 /\ writerActive = FALSE /\ waitingWriters = 0
  /\ task = [t \in Task |-> "out"]

\* The task runs until it is in or sleeps in _cond.wait().  A task that was notified
\* tests its condition again.
AcquireReader(t) ==
  /\ t \in Reader /\ task[t] \in {"out", "woken"}
  /\ IF writerActive \/ waitingWriters > 0
     THEN task' = [task EXCEPT ![t] = "asleep"] /\ UNCHANGED readers
     ELSE task' = [task EXCEPT ![t] = "in"] /\ readers' = readers + 1
  /\ UNCHANGED <<writerActive, waitingWriters>>

\* Mutant: a writer does not wait for the readers.
AcquireWriterEager(t) ==
  /\ t \in Writer /\ task[t] \in {"out", "woken"}
  /\ IF writerActive
     THEN /\ task' = [task EXCEPT ![t] = "asleep"]
          /\ waitingWriters' = waitingWriters + (IF task[t] = "out" THEN 1 ELSE 0)
          /\ UNCHANGED writerActive
     ELSE /\ task' = [task EXCEPT ![t] = "in"] /\ writerActive' = TRUE
          /\ waitingWriters' = waitingWriters - (IF task[t] = "woken" THEN 1 ELSE 0)
  /\ UNCHANGED readers

\* _waiting_writers counts a writer from its first test until it is in.
AcquireWriter(t) ==
  /\ t \in Writer /\ task[t] \in {"out", "woken"}
  /\ IF writerActive \/ readers > 0
     THEN /\ task' = [task EXCEPT ![t] = "asleep"]
          /\ waitingWriters' = waitingWriters + (IF task[t] = "out" THEN 1 ELSE 0)
          /\ UNCHANGED writerActive
     ELSE /\ task' = [task EXCEPT ![t] = "in"] /\ writerActive' = TRUE
          /\ waitingWriters' = waitingWriters - (IF task[t] = "woken" THEN 1 ELSE 0)
  /\ UNCHANGED readers

\* task after t has left, with everybody notified or nobody.
Left(t, notified) ==
  [u \in Task |-> IF u = t THEN "out"
                  ELSE IF notified /\ task[u] = "asleep" THEN "woken" ELSE task[u]]

\* Mutant: the last reader notifies nobody.
ReleaseReaderQuiet(t) ==
  /\ t \in Reader /\ task[t] = "in"
  /\ readers' = readers - 1
  /\ task' = Left(t, FALSE)
  /\ UNCHANGED <<writerActive, waitingWriters>>

ReleaseReader(t) ==
  /\ t \in Reader /\ task[t] = "in"
  /\ readers' = readers - 1
  /\ task' = Left(t, readers' = 0)
  /\ UNCHANGED <<writerActive, waitingWriters>>

ReleaseWriter(t) ==
  /\ t \in Writer /\ task[t] = "in"
  /\ writerActive' = FALSE
  /\ task' = Left(t, TRUE)
  /\ UNCHANGED <<readers, waitingWriters>>

\* A reader's task is cancelled while it waits; only streaming responses are cancelled,
\* and weight updates do not stream.
CancelReader(t) ==
  /\ t \in Reader /\ task[t] \in Waiting
  /\ task' = Left(t, FALSE)
  /\ UNCHANGED <<readers, writerActive, waitingWriters>>

LockNext == \/ \E t \in Reader : AcquireReader(t) \/ ReleaseReader(t) \/ CancelReader(t)
            \/ \E t \in Writer : AcquireWriter(t) \/ ReleaseWriter(t)

LockSpec == LockInit /\ [][LockNext]_lockVars

-----------------------------------------------------------------------------
\* Types of the lock's state: no counter goes below 0.
LockTypeOK ==
  /\ readers \in Nat /\ writerActive \in BOOLEAN /\ waitingWriters \in Nat
  /\ task \in [Task -> {"out", "asleep", "woken", "in"}]

\* The counters agree with the tasks.
CountersAgree ==
  /\ readers = Cardinality({t \in Reader : task[t] = "in"})
  /\ waitingWriters = Cardinality({t \in Writer : task[t] \in Waiting})
  /\ writerActive <=> \E t \in Writer : task[t] = "in"

\* A writer holds the lock alone ("weight sync cannot run while requests are in progress").
MutualExclusion ==
  \A w \in Writer : task[w] = "in" => \A t \in Task \ {w} : task[t] # "in"

\* Nobody sleeps for ever: while a task sleeps somebody will notify it, a holder of the
\* lock or a writer that was notified and has not run yet (the wait loops test the state,
\* and a reader that goes back to sleep behind such a writer relies on it).
NoLostWakeup ==
  (\E t \in Task : task[t] = "asleep")
    => readers > 0 \/ writerActive \/ \E w \in Writer : task[w] = "woken"

=============================================================================
