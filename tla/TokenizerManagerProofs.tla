----------------------- MODULE TokenizerManagerProofs -----------------------
(***************************************************************************)
(* The lock's invariant, for any finite sets of readers and writers.  The  *)
(* four parts need one another: who is excluded follows from the counters, *)
(* and the counters are right because who is in is excluded.  The          *)
(* tokenizer manager uses its lock as RWLock specifies it, so what is      *)
(* proved of the lock holds of calls and weight updates, for any number of *)
(* them and any workload, and while weights are updated the scheduler runs *)
(* no request that a call waits for.                                       *)
(***************************************************************************)
EXTENDS TokenizerManager, CollectionLemmas

ReadersIn(f) == {t \in Reader : f[t] = "in"}
WritersWaiting(f) == {t \in Writer : f[t] \in Waiting}

LockInv == LockTypeOK /\ CountersAgree /\ MutualExclusion /\ NoLostWakeup

\* The sets the counters count are finite.
LEMMA CountedFinite ==
  ASSUME NEW f
  PROVE  /\ IsFiniteSet(ReadersIn(f)) /\ Cardinality(ReadersIn(f)) \in Nat
         /\ IsFiniteSet(WritersWaiting(f)) /\ Cardinality(WritersWaiting(f)) \in Nat
         /\ Cardinality(ReadersIn(f)) = 0 <=> ReadersIn(f) = {}
         /\ Cardinality(WritersWaiting(f)) = 0 <=> WritersWaiting(f) = {}
<1>1. ReadersIn(f) \in SUBSET Reader /\ WritersWaiting(f) \in SUBSET Writer
  BY DEF ReadersIn, WritersWaiting
<1>2. IsFiniteSet(ReadersIn(f)) /\ IsFiniteSet(WritersWaiting(f))
  BY <1>1, FS_Subset, TaskAssumption
<1>3. QED BY <1>2, FS_CardinalityType, FS_EmptySet

\* Adding a task to a counted set, or taking it out, changes the count by one.
LEMMA CountAdd ==
  ASSUME NEW S, NEW x, IsFiniteSet(S), x \notin S
  PROVE  Cardinality(S \cup {x}) = Cardinality(S) + 1
BY FS_AddElement

LEMMA CountRemove ==
  ASSUME NEW S, NEW x, IsFiniteSet(S), x \in S
  PROVE  Cardinality(S \ {x}) = Cardinality(S) - 1
BY FS_RemoveElement

\* A reader takes the lock or goes to sleep.
LEMMA AcquireReaderKeeps ==
  ASSUME LockInv, NEW t \in Reader, AcquireReader(t)
  PROVE  LockInv'
<1>1. t \in Task /\ t \notin Writer BY TaskAssumption DEF Task
<1>2. task \in [Task -> {"out", "asleep", "woken", "in"}] /\ task[t] \in {"out", "woken"}
  BY DEF LockInv, LockTypeOK, AcquireReader
<1>3. readers \in Nat /\ readers = Cardinality(ReadersIn(task))
      /\ waitingWriters \in Nat /\ waitingWriters = Cardinality(WritersWaiting(task))
  BY DEF LockInv, LockTypeOK, CountersAgree, ReadersIn, WritersWaiting
<1>4. CASE writerActive \/ waitingWriters > 0
  <2>1. task' = [task EXCEPT ![t] = "asleep"] /\ readers' = readers
        /\ writerActive' = writerActive /\ waitingWriters' = waitingWriters
    BY <1>4 DEF AcquireReader
  <2>2. \A u \in Task : task'[u] = IF u = t THEN "asleep" ELSE task[u]
    BY <2>1, <1>2
  <2>3. LockTypeOK' BY <2>1, <1>1 DEF LockTypeOK, LockInv
  <2>4. ReadersIn(task') = ReadersIn(task)
    BY <2>2, <1>2 DEF ReadersIn, Task
  <2>5. WritersWaiting(task') = WritersWaiting(task)
    BY <2>2, <1>1 DEF WritersWaiting, Task
  <2>6. CountersAgree'
    <3>1. readers' = Cardinality(ReadersIn(task'))
          /\ waitingWriters' = Cardinality(WritersWaiting(task'))
      BY <2>1, <2>4, <2>5, <1>3
    <3>2. (writerActive <=> \E w \in Writer : task[w] = "in")'
      BY <2>1, <2>2, <1>1 DEF LockInv, CountersAgree, Task
    <3>3. QED BY <3>1, <3>2 DEF CountersAgree, ReadersIn, WritersWaiting
  <2>7. MutualExclusion'
    BY <2>2, <1>1 DEF LockInv, MutualExclusion, Task
  <2>8. NoLostWakeup'
    <3>1. CASE writerActive BY <3>1, <2>1 DEF NoLostWakeup
    <3>2. CASE waitingWriters > 0
      <4>1. PICK w \in Writer : task[w] \in Waiting
        <5>1. Cardinality(WritersWaiting(task)) # 0 BY <3>2, <1>3
        <5>2. WritersWaiting(task) # {} BY <5>1, CountedFinite
        <5>3. QED BY <5>2 DEF WritersWaiting
      <4>2. CASE task[w] = "woken"
        BY <4>2, <2>2, <1>1 DEF NoLostWakeup, Task
      <4>3. CASE task[w] = "asleep"
        <5>1. readers > 0 \/ writerActive \/ \E v \in Writer : task[v] = "woken"
          BY <4>3 DEF LockInv, NoLostWakeup, Task
        <5>2. QED BY <5>1, <2>1, <2>2, <1>1 DEF NoLostWakeup, Task
      <4>4. QED BY <4>1, <4>2, <4>3 DEF Waiting
    <3>3. QED BY <1>4, <3>1, <3>2
  <2>9. QED BY <2>3, <2>6, <2>7, <2>8 DEF LockInv
<1>5. CASE ~(writerActive \/ waitingWriters > 0)
  <2>1. task' = [task EXCEPT ![t] = "in"] /\ readers' = readers + 1
        /\ writerActive' = writerActive /\ waitingWriters' = waitingWriters
    BY <1>5 DEF AcquireReader
  <2>2. \A u \in Task : task'[u] = IF u = t THEN "in" ELSE task[u]
    BY <2>1, <1>2
  <2>3. LockTypeOK' BY <2>1, <1>1 DEF LockTypeOK, LockInv
  <2>4. ReadersIn(task') = ReadersIn(task) \cup {t} /\ t \notin ReadersIn(task)
    BY <2>2, <1>2 DEF ReadersIn, Task
  <2>5. WritersWaiting(task') = WritersWaiting(task)
    BY <2>2, <1>1 DEF WritersWaiting, Task
  <2>6. Cardinality(ReadersIn(task')) = Cardinality(ReadersIn(task)) + 1
    BY <2>4, CountAdd, CountedFinite
  <2>7. \A w \in Writer : task[w] # "in"
    BY <1>5 DEF LockInv, CountersAgree
  <2>8. \A w \in Writer : task'[w] # "in"
    BY <2>7, <2>2, <1>1 DEF Task
  <2>9. CountersAgree'
    <3>1. readers' = Cardinality(ReadersIn(task'))
          /\ waitingWriters' = Cardinality(WritersWaiting(task'))
      BY <2>1, <2>5, <2>6, <1>3
    <3>2. writerActive' <=> \E w \in Writer : task'[w] = "in"
      BY <2>1, <2>8, <1>5
    <3>3. QED BY <3>1, <3>2 DEF CountersAgree, ReadersIn, WritersWaiting
  <2>10. MutualExclusion' BY <2>8 DEF MutualExclusion
  <2>11. NoLostWakeup' BY <2>1, <1>3 DEF NoLostWakeup
  <2>12. QED BY <2>3, <2>9, <2>10, <2>11 DEF LockInv
<1>6. QED BY <1>4, <1>5

\* A writer takes the lock or goes to sleep, counted as waiting from its first test on.
LEMMA AcquireWriterKeeps ==
  ASSUME LockInv, NEW t \in Writer, AcquireWriter(t)
  PROVE  LockInv'
<1>1. t \in Task /\ t \notin Reader BY TaskAssumption DEF Task
<1>2. task \in [Task -> {"out", "asleep", "woken", "in"}] /\ task[t] \in {"out", "woken"}
  BY DEF LockInv, LockTypeOK, AcquireWriter
<1>3. readers \in Nat /\ readers = Cardinality(ReadersIn(task))
      /\ waitingWriters \in Nat /\ waitingWriters = Cardinality(WritersWaiting(task))
  BY DEF LockInv, LockTypeOK, CountersAgree, ReadersIn, WritersWaiting
<1>4. CASE writerActive \/ readers > 0
  <2>1. /\ task' = [task EXCEPT ![t] = "asleep"] /\ readers' = readers
        /\ writerActive' = writerActive
        /\ waitingWriters' = waitingWriters + (IF task[t] = "out" THEN 1 ELSE 0)
    BY <1>4 DEF AcquireWriter
  <2>2. \A u \in Task : task'[u] = IF u = t THEN "asleep" ELSE task[u]
    BY <2>1, <1>2
  <2>3. LockTypeOK' BY <2>1, <1>1 DEF LockTypeOK, LockInv
  <2>4. ReadersIn(task') = ReadersIn(task)
    BY <2>2, <1>1 DEF ReadersIn, Task
  <2>5. Cardinality(WritersWaiting(task')) = waitingWriters'
    <3>1. CASE task[t] = "out"
      <4>1. WritersWaiting(task') = WritersWaiting(task) \cup {t} /\ t \notin WritersWaiting(task)
        BY <3>1, <2>2 DEF WritersWaiting, Waiting, Task
      <4>2. Cardinality(WritersWaiting(task')) = Cardinality(WritersWaiting(task)) + 1
        BY <4>1, CountAdd, CountedFinite
      <4>3. QED BY <3>1, <4>2, <2>1, <1>3
    <3>2. CASE task[t] = "woken"
      <4>1. WritersWaiting(task') = WritersWaiting(task)
        BY <3>2, <2>2 DEF WritersWaiting, Waiting, Task
      <4>2. QED BY <3>2, <4>1, <2>1, <1>3
    <3>3. QED BY <3>1, <3>2, <1>2
  <2>6. CountersAgree'
    <3>1. (writerActive <=> \E w \in Writer : task[w] = "in")'
      BY <2>1, <2>2, <1>1, <1>2 DEF LockInv, CountersAgree, Task
    <3>2. readers' = Cardinality(ReadersIn(task')) BY <2>1, <2>4, <1>3
    <3>3. QED BY <3>1, <3>2, <2>5 DEF CountersAgree, ReadersIn, WritersWaiting
  <2>7. MutualExclusion' BY <2>2, <1>1 DEF LockInv, MutualExclusion, Task
  <2>8. NoLostWakeup' BY <2>1, <1>4 DEF NoLostWakeup
  <2>9. QED BY <2>3, <2>6, <2>7, <2>8 DEF LockInv
<1>5. CASE ~(writerActive \/ readers > 0)
  <2>1. /\ task' = [task EXCEPT ![t] = "in"] /\ readers' = readers /\ writerActive' = TRUE
        /\ waitingWriters' = waitingWriters - (IF task[t] = "woken" THEN 1 ELSE 0)
    BY <1>5 DEF AcquireWriter
  <2>2. \A u \in Task : task'[u] = IF u = t THEN "in" ELSE task[u]
    BY <2>1, <1>2
  <2>3. ReadersIn(task) = {}
    <3>1. Cardinality(ReadersIn(task)) = 0 BY <1>5, <1>3
    <3>2. QED BY <3>1, CountedFinite
  <2>4. \A u \in Task : task[u] # "in"
    <3>1. \A u \in Reader : task[u] # "in" BY <2>3 DEF ReadersIn
    <3>2. \A u \in Writer : task[u] # "in" BY <1>5 DEF LockInv, CountersAgree
    <3>3. QED BY <3>1, <3>2 DEF Task
  <2>5. ReadersIn(task') = ReadersIn(task)
    BY <2>2, <1>1 DEF ReadersIn, Task
  <2>6. Cardinality(WritersWaiting(task')) = waitingWriters' /\ waitingWriters' \in Nat
    <3>1. CASE task[t] = "out"
      <4>1. WritersWaiting(task') = WritersWaiting(task)
        BY <3>1, <2>2 DEF WritersWaiting, Waiting, Task
      <4>2. QED BY <3>1, <4>1, <2>1, <1>3
    <3>2. CASE task[t] = "woken"
      <4>1. WritersWaiting(task') = WritersWaiting(task) \ {t} /\ t \in WritersWaiting(task)
        BY <3>2, <2>2 DEF WritersWaiting, Waiting, Task
      <4>2. Cardinality(WritersWaiting(task')) = Cardinality(WritersWaiting(task)) - 1
        BY <4>1, CountRemove, CountedFinite
      <4>3. waitingWriters' = Cardinality(WritersWaiting(task'))
        BY <3>2, <4>2, <2>1, <1>3
      <4>4. QED BY <4>3, CountedFinite
    <3>3. QED BY <3>1, <3>2, <1>2
  <2>7. LockTypeOK' BY <2>1, <2>6, <1>1, <1>3 DEF LockTypeOK, LockInv
  <2>8. CountersAgree'
    <3>1. writerActive' <=> \E w \in Writer : task'[w] = "in" BY <2>1, <2>2, <1>1
    <3>2. readers' = Cardinality(ReadersIn(task')) BY <2>1, <2>5, <1>3
    <3>3. QED BY <3>1, <3>2, <2>6 DEF CountersAgree, ReadersIn, WritersWaiting
  <2>9. MutualExclusion' BY <2>2, <2>4 DEF MutualExclusion, Task
  <2>10. NoLostWakeup' BY <2>1 DEF NoLostWakeup
  <2>11. QED BY <2>7, <2>8, <2>9, <2>10 DEF LockInv
<1>6. QED BY <1>4, <1>5

\* Leaving disturbs no count of those who wait, notified or not.
LEMMA LeftWaiting ==
  ASSUME LockTypeOK, NEW t \in Task, NEW notified \in BOOLEAN, task' = Left(t, notified)
  PROVE  /\ task' \in [Task -> {"out", "asleep", "woken", "in"}]
         /\ task'[t] = "out"
         /\ \A u \in Task \ {t} : /\ task'[u] = "in" <=> task[u] = "in"
                                  /\ task'[u] \in Waiting <=> task[u] \in Waiting
                                  /\ task[u] = "woken" => task'[u] = "woken"
                                  /\ task'[u] = "asleep" => ~notified /\ task[u] = "asleep"
BY DEF LockTypeOK, Left, Waiting

\* A reader leaves; the last one wakes everybody.
LEMMA ReleaseReaderKeeps ==
  ASSUME LockInv, NEW t \in Reader, ReleaseReader(t)
  PROVE  LockInv'
<1>1. t \in Task /\ t \notin Writer BY TaskAssumption DEF Task
<1>2. /\ task[t] = "in" /\ readers' = readers - 1 /\ task' = Left(t, readers' = 0)
      /\ writerActive' = writerActive /\ waitingWriters' = waitingWriters
  BY DEF ReleaseReader
<1>3. readers = Cardinality(ReadersIn(task)) /\ waitingWriters = Cardinality(WritersWaiting(task))
  BY DEF LockInv, CountersAgree, ReadersIn, WritersWaiting
<1>4. PICK notified \in BOOLEAN : notified = (readers' = 0) OBVIOUS
<1>5. /\ task' \in [Task -> {"out", "asleep", "woken", "in"}]
      /\ task'[t] = "out"
      /\ \A u \in Task \ {t} : /\ task'[u] = "in" <=> task[u] = "in"
                               /\ task'[u] \in Waiting <=> task[u] \in Waiting
                               /\ task'[u] = "asleep" => ~(readers' = 0)
  BY <1>1, <1>2, <1>4, LeftWaiting DEF LockInv
<1>6. ReadersIn(task') = ReadersIn(task) \ {t} /\ t \in ReadersIn(task)
  BY <1>2, <1>5 DEF ReadersIn, Task
<1>7. readers' = Cardinality(ReadersIn(task')) /\ readers' \in Nat
  BY <1>2, <1>3, <1>6, CountRemove, CountedFinite
<1>8. WritersWaiting(task') = WritersWaiting(task)
  BY <1>5, <1>1 DEF WritersWaiting, Task
<1>9. LockTypeOK' BY <1>2, <1>5, <1>7 DEF LockTypeOK, LockInv
<1>10. CountersAgree'
  <2>1. (writerActive <=> \E w \in Writer : task[w] = "in")'
    BY <1>2, <1>5, <1>1 DEF LockInv, CountersAgree, Task
  <2>2. waitingWriters' = Cardinality(WritersWaiting(task')) BY <1>2, <1>3, <1>8
  <2>3. QED BY <2>1, <2>2, <1>7 DEF CountersAgree, ReadersIn, WritersWaiting
<1>11. MutualExclusion' BY <1>5, <1>1 DEF LockInv, MutualExclusion, Task
<1>12. NoLostWakeup'
  <2>1. (\E u \in Task : task'[u] = "asleep") => readers' > 0 BY <1>5, <1>7
  <2>2. QED BY <2>1 DEF NoLostWakeup
<1>13. QED BY <1>9, <1>10, <1>11, <1>12 DEF LockInv

\* The writer leaves and wakes everybody.
LEMMA ReleaseWriterKeeps ==
  ASSUME LockInv, NEW t \in Writer, ReleaseWriter(t)
  PROVE  LockInv'
<1>1. t \in Task /\ t \notin Reader BY TaskAssumption DEF Task
<1>2. /\ task[t] = "in" /\ readers' = readers /\ task' = Left(t, TRUE)
      /\ writerActive' = FALSE /\ waitingWriters' = waitingWriters
  BY DEF ReleaseWriter
<1>3. readers = Cardinality(ReadersIn(task)) /\ waitingWriters = Cardinality(WritersWaiting(task))
  BY DEF LockInv, CountersAgree, ReadersIn, WritersWaiting
<1>4. /\ task' \in [Task -> {"out", "asleep", "woken", "in"}]
      /\ task'[t] = "out"
      /\ \A u \in Task \ {t} : /\ task'[u] = "in" <=> task[u] = "in"
                               /\ task'[u] \in Waiting <=> task[u] \in Waiting
                               /\ task'[u] # "asleep"
  BY <1>1, <1>2, LeftWaiting DEF LockInv
<1>5. \A u \in Task : task'[u] # "in"
  BY <1>2, <1>4 DEF LockInv, MutualExclusion
<1>6. ReadersIn(task') = ReadersIn(task) BY <1>1, <1>4 DEF ReadersIn, Task
<1>7. WritersWaiting(task') = WritersWaiting(task)
  BY <1>2, <1>4 DEF WritersWaiting, Waiting, Task
<1>8. LockTypeOK' BY <1>2, <1>4 DEF LockTypeOK, LockInv
<1>9. CountersAgree'
  <2>1. writerActive' <=> \E w \in Writer : task'[w] = "in" BY <1>2, <1>5 DEF Task
  <2>2. readers' = Cardinality(ReadersIn(task')) BY <1>2, <1>3, <1>6
  <2>3. waitingWriters' = Cardinality(WritersWaiting(task')) BY <1>2, <1>3, <1>7
  <2>4. QED BY <2>1, <2>2, <2>3 DEF CountersAgree, ReadersIn, WritersWaiting
<1>10. MutualExclusion' BY <1>5 DEF MutualExclusion, Task
<1>11. NoLostWakeup' BY <1>4 DEF NoLostWakeup
<1>12. QED BY <1>8, <1>9, <1>10, <1>11 DEF LockInv

\* A cancelled reader was counted nowhere.
LEMMA CancelReaderKeeps ==
  ASSUME LockInv, NEW t \in Reader, CancelReader(t)
  PROVE  LockInv'
<1>1. t \in Task /\ t \notin Writer BY TaskAssumption DEF Task
<1>2. /\ task[t] \in Waiting /\ task' = Left(t, FALSE)
      /\ readers' = readers /\ writerActive' = writerActive /\ waitingWriters' = waitingWriters
  BY DEF CancelReader
<1>3. readers = Cardinality(ReadersIn(task)) /\ waitingWriters = Cardinality(WritersWaiting(task))
  BY DEF LockInv, CountersAgree, ReadersIn, WritersWaiting
<1>4. /\ task' \in [Task -> {"out", "asleep", "woken", "in"}]
      /\ task'[t] = "out"
      /\ \A u \in Task \ {t} : /\ task'[u] = "in" <=> task[u] = "in"
                               /\ task'[u] \in Waiting <=> task[u] \in Waiting
                               /\ task[u] = "woken" => task'[u] = "woken"
                               /\ task'[u] = "asleep" => task[u] = "asleep"
  BY <1>1, <1>2, LeftWaiting DEF LockInv
<1>5. ReadersIn(task') = ReadersIn(task) BY <1>2, <1>4 DEF ReadersIn, Waiting, Task
<1>6. WritersWaiting(task') = WritersWaiting(task)
  BY <1>1, <1>4 DEF WritersWaiting, Task
<1>7. LockTypeOK' BY <1>2, <1>4 DEF LockTypeOK, LockInv
<1>8. CountersAgree'
  <2>1. (writerActive <=> \E w \in Writer : task[w] = "in")'
    BY <1>1, <1>2, <1>4 DEF LockInv, CountersAgree, Task
  <2>2. readers' = Cardinality(ReadersIn(task')) BY <1>2, <1>3, <1>5
  <2>3. waitingWriters' = Cardinality(WritersWaiting(task')) BY <1>2, <1>3, <1>6
  <2>4. QED BY <2>1, <2>2, <2>3 DEF CountersAgree, ReadersIn, WritersWaiting
<1>9. MutualExclusion' BY <1>1, <1>4 DEF LockInv, MutualExclusion, Task
<1>10. NoLostWakeup'
  <2>1. SUFFICES ASSUME NEW u \in Task, task'[u] = "asleep"
                 PROVE  readers > 0 \/ writerActive \/ \E w \in Writer : task'[w] = "woken"
    BY <1>2 DEF NoLostWakeup
  <2>2. task[u] = "asleep" BY <2>1, <1>4
  <2>3. readers > 0 \/ writerActive \/ \E w \in Writer : task[w] = "woken"
    BY <2>2 DEF LockInv, NoLostWakeup
  <2>4. QED BY <2>3, <1>1, <1>4 DEF Task
<1>11. QED BY <1>7, <1>8, <1>9, <1>10 DEF LockInv

\* The four parts together are an invariant of the lock.
THEOREM LockInvariant == LockSpec => []LockInv
<1>1. LockInit => LockInv
  <2>1. SUFFICES ASSUME LockInit PROVE LockInv OBVIOUS
  <2>2. ReadersIn(task) = {} /\ WritersWaiting(task) = {}
    BY <2>1 DEF LockInit, ReadersIn, WritersWaiting, Waiting, Task
  <2>3. Cardinality(ReadersIn(task)) = 0 /\ Cardinality(WritersWaiting(task)) = 0
    BY <2>2, FS_EmptySet
  <2>4. CountersAgree
    BY <2>1, <2>3 DEF LockInit, CountersAgree, ReadersIn, WritersWaiting, Task
  <2>5. LockTypeOK /\ MutualExclusion /\ NoLostWakeup
    BY <2>1 DEF LockInit, LockTypeOK, MutualExclusion, NoLostWakeup, Task
  <2>6. QED BY <2>4, <2>5 DEF LockInv
<1>2. LockInv /\ [LockNext]_lockVars => LockInv'
  <2>1. SUFFICES ASSUME LockInv, [LockNext]_lockVars PROVE LockInv' OBVIOUS
  <2>2. CASE UNCHANGED lockVars
    BY <2>1, <2>2 DEF LockInv, LockTypeOK, CountersAgree, MutualExclusion, NoLostWakeup, lockVars
  <2>3. CASE LockNext
    BY <2>1, <2>3, AcquireReaderKeeps, AcquireWriterKeeps, ReleaseReaderKeeps,
       ReleaseWriterKeeps, CancelReaderKeeps DEF LockNext
  <2>4. QED BY <2>1, <2>2, <2>3
<1>3. QED BY <1>1, <1>2, PTL DEF LockSpec

\* A weight update holds the lock alone: no request is between the entry and the exit of
\* generate_request's reader lock, and no other update is running.
THEOREM WriterAlone == LockSpec => []MutualExclusion
<1>1. LockInv => MutualExclusion BY DEF LockInv
<1>2. QED BY <1>1, LockInvariant, PTL

\* Whoever sleeps in the lock's condition will be notified.
THEOREM SleepersAreWoken == LockSpec => []NoLostWakeup
<1>1. LockInv => NoLostWakeup BY DEF LockInv
<1>2. QED BY <1>1, LockInvariant, PTL

-----------------------------------------------------------------------------
(* The calls and updates that use the lock.                                  *)

\* A call touches the lock only by the operations of its context manager.
LEMMA CallUsesLock ==
  ASSUME NEW c \in Reader, CallStep(c) \/ ClientLeaves(c)
  PROVE  LockNext \/ UNCHANGED lockVars
<1>1. CASE Enter(c) BY <1>1 DEF Enter, LockNext
<1>2. CASE Leave(c) BY <1>2 DEF Leave, LockNext
<1>3. CASE CancelStream(c) BY <1>3 DEF CancelStream, LockNext, lockVars
<1>4. CASE Send(c) BY <1>4 DEF Send
<1>5. CASE TokenizeFails(c) BY <1>5 DEF TokenizeFails
<1>6. CASE Gathered(c) BY <1>6 DEF Gathered
<1>7. CASE BackgroundAbort(c) BY <1>7 DEF BackgroundAbort
<1>8. CASE ClientLeaves(c) BY <1>8 DEF ClientLeaves
<1>9. QED BY <1>1, <1>2, <1>3, <1>4, <1>5, <1>6, <1>7, <1>8 DEF CallStep

\* So does a weight update.
LEMMA UpdateUsesLock ==
  ASSUME NEW u \in Writer, UpdateStep(u)
  PROVE  LockNext \/ UNCHANGED lockVars
<1>1. CASE EnterUpdate(u) BY <1>1 DEF EnterUpdate, LockNext
<1>2. CASE LeaveUpdate(u) BY <1>2 DEF LeaveUpdate, LockNext
<1>3. QED BY <1>1, <1>2 DEF UpdateStep

\* Every step of the tokenizer manager is a step of the lock or leaves it alone.
LEMMA StepUsesLock ==
  ASSUME [Next]_vars
  PROVE  [LockNext]_lockVars
<1>1. ASSUME NEW c \in Reader, CallStep(c) \/ ClientLeaves(c) PROVE [LockNext]_lockVars
  BY <1>1, CallUsesLock
<1>2. ASSUME NEW u \in Writer, UpdateStep(u) PROVE [LockNext]_lockVars
  BY <1>2, UpdateUsesLock
<1>3. ASSUME NEW r \in Rid, GenStep(r) PROVE UNCHANGED lockVars
  BY <1>3 DEF GenStep, Wake, TimedOut, Resume
<1>4. ASSUME NEW r \in Rid, SchedulerStep(r) PROVE UNCHANGED lockVars
  BY <1>4 DEF SchedulerStep, SchedulerSends, FlushedFails
<1>5. CASE HandleLoop BY <1>5 DEF HandleLoop
<1>6. CASE SchedulerReceives BY <1>6 DEF SchedulerReceives
<1>7. CASE UNCHANGED vars BY <1>7 DEF vars
<1>8. QED BY <1>1, <1>2, <1>3, <1>4, <1>5, <1>6, <1>7 DEF Next

\* The tokenizer manager implements the lock's specification (generate_request and the
\* update calls take it with "async with" only).
THEOREM UsesLock == Spec => LockSpec
<1>1. Init => LockInit BY DEF Init
<1>2. [Next]_vars => [LockNext]_lockVars BY StepUsesLock
<1>3. QED BY <1>1, <1>2, PTL DEF Spec, LockSpec

-----------------------------------------------------------------------------
\* Where a call or an update is says whether its task holds the lock; model_update_result
\* belongs to an update that waits for it.
PlacesMatchLock ==
  /\ pc \in [Reader -> InProgress \cup {"lock", "background", "done"}]
  /\ update \in [Writer -> UnderWay \cup {"lock", "done"}]
  /\ \A c \in Reader : pc[c] \in InProgress <=> task[c] = "in"
  /\ \A u \in Writer : update[u] \in UnderWay <=> task[u] = "in"
  /\ future \in Writer \cup {NoUpdate}
  /\ future # NoUpdate => update[future] = "asked"

\* The lock's operations change who is in for the task alone.
LEMMA OthersStay ==
  ASSUME LockTypeOK, NEW t \in Task,
         \/ AcquireReader(t) \/ ReleaseReader(t) \/ CancelReader(t)
         \/ AcquireWriter(t) \/ ReleaseWriter(t)
  PROVE  /\ \A v \in Task \ {t} : task'[v] = "in" <=> task[v] = "in"
         /\ AcquireReader(t) \/ AcquireWriter(t) => task[t] # "in" /\ task'[t] \in {"in", "asleep"}
         /\ ReleaseReader(t) \/ ReleaseWriter(t) => task[t] = "in" /\ task'[t] = "out"
         /\ CancelReader(t) => task[t] # "in" /\ task'[t] = "out"
<1>1. CASE AcquireReader(t) \/ AcquireWriter(t)
  <2>1. task[t] \in {"out", "woken"} BY <1>1 DEF AcquireReader, AcquireWriter
  <2>2. task' = [task EXCEPT ![t] = "in"] \/ task' = [task EXCEPT ![t] = "asleep"]
    BY <1>1 DEF AcquireReader, AcquireWriter
  <2>3. ~CancelReader(t) \/ task'[t] = "out"
    BY <2>1 DEF LockTypeOK, CancelReader, Left
  <2>4. QED BY <2>1, <2>2, <2>3 DEF LockTypeOK, ReleaseReader, ReleaseWriter
<1>2. CASE ReleaseReader(t) \/ ReleaseWriter(t) \/ CancelReader(t)
  BY <1>2 DEF LockTypeOK, ReleaseReader, ReleaseWriter, CancelReader, AcquireReader, AcquireWriter,
              Left, Waiting
<1>3. QED BY <1>1, <1>2

\* A call changes its own place, and with it its hold of the lock.
LEMMA CallKeepsPlaces ==
  ASSUME LockTypeOK, PlacesMatchLock, NEW c \in Reader, CallStep(c) \/ ClientLeaves(c)
  PROVE  PlacesMatchLock'
<1>0. c \in Task /\ c \notin Writer /\ \A u \in Writer : u \in Task \ {c}
  BY TaskAssumption DEF Task
<1>1. CASE Enter(c)
  <2>1. AcquireReader(c) BY <1>1 DEF Enter
  <2>2. /\ \A v \in Task \ {c} : task'[v] = "in" <=> task[v] = "in"
        /\ task'[c] \in {"in", "asleep"}
    BY <1>0, <2>1, OthersStay
  <2>3. QED BY <1>0, <1>1, <2>2 DEF Enter, PlacesMatchLock, InProgress, UnderWay, Task
<1>2. CASE Leave(c)
  <2>1. ReleaseReader(c) BY <1>2 DEF Leave
  <2>2. (\A v \in Task \ {c} : task'[v] = "in" <=> task[v] = "in") /\ task'[c] = "out"
    BY <1>0, <2>1, OthersStay
  <2>3. QED BY <1>0, <1>2, <2>2 DEF Leave, PlacesMatchLock, InProgress, UnderWay, Task
<1>3. CASE CancelStream(c)
  <2>1. CASE CancelReader(c) /\ pc[c] = "lock" /\ pc' = [pc EXCEPT ![c] = "background"]
    <3>1. (\A v \in Task \ {c} : task'[v] = "in" <=> task[v] = "in") /\ task'[c] = "out"
      BY <1>0, <2>1, OthersStay
    <3>2. update' = update /\ future' = future BY <1>3 DEF CancelStream
    <3>3. QED BY <1>0, <2>1, <3>1, <3>2 DEF PlacesMatchLock, InProgress, UnderWay, Task
  <2>2. CASE pc[c] \in InProgress /\ pc' = [pc EXCEPT ![c] = "release"] /\ UNCHANGED lockVars
    <3>1. update' = update /\ future' = future BY <1>3 DEF CancelStream
    <3>2. QED BY <2>2, <3>1 DEF PlacesMatchLock, InProgress, UnderWay, lockVars
  <2>3. QED BY <1>3, <2>1, <2>2 DEF CancelStream, InProgress
<1>4. CASE Send(c)
  <2>1. /\ pc[c] = "tokenize" /\ UNCHANGED <<lockVars, update, future>>
        /\ \/ pc' = [pc EXCEPT ![c] = "prefix"] \/ pc' = pc \/ pc' = [pc EXCEPT ![c] = "wait"]
    BY <1>4 DEF Send
  <2>2. QED BY <2>1 DEF PlacesMatchLock, InProgress, UnderWay, lockVars
<1>5. CASE TokenizeFails(c) \/ Gathered(c)
  <2>1. /\ pc[c] \in InProgress /\ UNCHANGED <<lockVars, update, future>>
        /\ pc' = [pc EXCEPT ![c] = "release"] \/ pc' = [pc EXCEPT ![c] = "tokenize"]
    BY <1>5 DEF TokenizeFails, Gathered, InProgress
  <2>2. QED BY <2>1 DEF PlacesMatchLock, InProgress, UnderWay, lockVars
<1>6. CASE BackgroundAbort(c)
  BY <1>6 DEF BackgroundAbort, PlacesMatchLock, InProgress, UnderWay, lockVars
<1>7. CASE ClientLeaves(c)
  BY <1>7 DEF ClientLeaves, PlacesMatchLock, callVars, lockVars
<1>8. QED BY <1>1, <1>2, <1>3, <1>4, <1>5, <1>6, <1>7 DEF CallStep

\* So does an update; the future it awaits is its own.
LEMMA UpdateKeepsPlaces ==
  ASSUME LockTypeOK, PlacesMatchLock, NEW u \in Writer, UpdateStep(u)
  PROVE  PlacesMatchLock'
<1>0. u \in Task /\ u \notin Reader /\ \A c \in Reader : c \in Task \ {u}
  BY TaskAssumption DEF Task
<1>1. CASE EnterUpdate(u)
  <2>1. AcquireWriter(u) /\ pc' = pc BY <1>1 DEF EnterUpdate, callVars
  <2>2. /\ \A v \in Task \ {u} : task'[v] = "in" <=> task[v] = "in"
        /\ task'[u] \in {"in", "asleep"}
    BY <1>0, <2>1, OthersStay
  <2>3. QED BY <1>0, <1>1, <2>1, <2>2 DEF EnterUpdate, PlacesMatchLock, InProgress, UnderWay, Task
<1>2. CASE LeaveUpdate(u)
  <2>1. ReleaseWriter(u) /\ pc' = pc BY <1>2 DEF LeaveUpdate, callVars
  <2>2. (\A v \in Task \ {u} : task'[v] = "in" <=> task[v] = "in") /\ task'[u] = "out"
    BY <1>0, <2>1, OthersStay
  <2>3. QED BY <1>0, <1>2, <2>1, <2>2 DEF LeaveUpdate, PlacesMatchLock, InProgress, UnderWay, Task
<1>3. QED BY <1>1, <1>2 DEF UpdateStep

\* Results resolve the future of an update that waits.
LEMMA LoopKeepsPlaces ==
  ASSUME PlacesMatchLock, HandleLoop
  PROVE  PlacesMatchLock'
<1>1. pc' = pc /\ task' = task BY DEF HandleLoop, lockVars
<1>2. CASE update' = update /\ future' = future
  BY <1>1, <1>2 DEF PlacesMatchLock
<1>3. CASE update' = [update EXCEPT ![future] = "release"] /\ future' = NoUpdate
  BY <1>1, <1>3, WorkloadAssumption DEF PlacesMatchLock, UnderWay
<1>4. QED BY <1>2, <1>3 DEF HandleLoop

\* Every step keeps places and lock together.
LEMMA StepKeepsPlaces ==
  ASSUME LockTypeOK, PlacesMatchLock, [Next]_vars
  PROVE  PlacesMatchLock'
<1>1. ASSUME NEW c \in Reader, CallStep(c) \/ ClientLeaves(c) PROVE PlacesMatchLock'
  BY <1>1, CallKeepsPlaces
<1>2. ASSUME NEW u \in Writer, UpdateStep(u) PROVE PlacesMatchLock'
  BY <1>2, UpdateKeepsPlaces
<1>3. ASSUME NEW r \in Rid, GenStep(r) PROVE UNCHANGED <<pc, update, future, task>>
  BY <1>3 DEF GenStep, Wake, TimedOut, Resume, lockVars
<1>4. ASSUME NEW r \in Rid, SchedulerStep(r) PROVE UNCHANGED <<pc, update, future, task>>
  BY <1>4 DEF SchedulerStep, SchedulerSends, FlushedFails, callVars, lockVars
<1>5. CASE HandleLoop BY <1>5, LoopKeepsPlaces
<1>6. CASE SchedulerReceives \/ UNCHANGED vars
  BY <1>6 DEF SchedulerReceives, vars, callVars, lockVars, PlacesMatchLock
<1>7. CASE UNCHANGED <<pc, update, future, task>> BY <1>7 DEF PlacesMatchLock
<1>8. QED BY <1>1, <1>2, <1>3, <1>4, <1>5, <1>6, <1>7 DEF Next

\* "weight sync cannot run while requests are in progress": what the lock guarantees its
\* tasks holds for the places in generate_request and update_weights_from_disk.
THEOREM UpdatesAlone == Spec => []UpdatesRunAlone
<1>1. Init => PlacesMatchLock
  BY DEF Init, LockInit, PlacesMatchLock, InProgress, UnderWay, Task
<1>2. LockTypeOK /\ PlacesMatchLock /\ [Next]_vars => PlacesMatchLock'
  BY StepKeepsPlaces
<1>3. MutualExclusion /\ PlacesMatchLock => UpdatesRunAlone
  BY TaskAssumption DEF MutualExclusion, PlacesMatchLock, UpdatesRunAlone, Task
<1>4. Spec => [](LockTypeOK /\ MutualExclusion)
  <2>1. LockInv => LockTypeOK /\ MutualExclusion BY DEF LockInv
  <2>2. QED BY <2>1, UsesLock, LockInvariant, PTL
<1>5. QED BY <1>1, <1>2, <1>3, <1>4, PTL DEF Spec

\* No call and no update sleeps on the lock with nobody left to wake it.
THEOREM CallsAreWoken == Spec => []NoLostWakeup
BY UsesLock, SleepersAreWoken, PTL

-----------------------------------------------------------------------------
(* What an update finds in the scheduler.                                    *)

\* A call that waits for all of its answers.
Stays(c) == c \notin gone /\ ~obj[c].invalid

SentBy(c) == {Subs(c)[i] : i \in 1 .. sent[c]}
Sent == UNION {SentBy(c) : c \in Reader}

SchedulerMsg == [kind : {"req", "abort"}, id : Rid] \cup [kind : {"update"}, id : Writer]
TokenizerMsg == [kind : {"out"}, id : Rid, fin : BOOLEAN] \cup [kind : {"updated"}, id : Writer]

\* The requests on the way to the scheduler; their last outputs, and the others, on the way
\* back; the positions of the messages of updates.
Queued == {r \in Rid : \E i \in DOMAIN toScheduler : toScheduler[i] = Msg("req", r)}
Ending == {r \in Rid : \E i \in DOMAIN toTokenizer : toTokenizer[i] = Out(r, TRUE)}
Partial == {r \in Rid : \E i \in DOMAIN toTokenizer : toTokenizer[i] = Out(r, FALSE)}

Asking == {i \in DOMAIN toScheduler : toScheduler[i].kind = "update"}
Telling == {i \in DOMAIN toTokenizer : toTokenizer[i].kind = "updated"}

CallTypes ==
  /\ obj \in Workloads /\ gone \subseteq Reader
  /\ sent \in [Reader -> Nat] /\ \A c \in Reader : sent[c] <= Len(Subs(c))
  /\ gen \in [Rid -> {"none", "waiting", "yielded", "over", "raised"}]
  /\ toScheduler \in Seq(SchedulerMsg) /\ toTokenizer \in Seq(TokenizerMsg)

\* No request is in the queue twice.
QueuedOnce ==
  \A i, j \in DOMAIN toScheduler :
    toScheduler[i].kind = "req" /\ toScheduler[i] = toScheduler[j] => i = j

\* A request is sent once and ends once.
EndsOnce ==
  /\ running \cup Queued \cup Ending \cup finished \subseteq Sent
  /\ running \cap Queued = {} /\ (running \cup Queued) \cap (Ending \cup finished) = {}
  /\ QueuedOnce

\* A prefix has one output, its last.
PrefixEnds ==
  /\ \A r \in Partial : ~Prefix(r)
  /\ \A r \in event : Prefix(r) => r \in finished

\* Where a call is and what it still waits for.
CallWaits ==
  \A c \in Reader :
    /\ pc[c] = "lock" \/ (pc[c] = "tokenize" /\ obj[c].invalid) => sent[c] = 0
    /\ pc[c] = "prefix" => ~obj[c].invalid
    /\ Stays(c) =>
         /\ pc[c] \in {"release", "background", "done"} => \A r \in ToSet(Subs(c)) : gen[r] = "over"
         /\ \A r \in ToSet(Subs(c)) :
              /\ gen[r] \in {"waiting", "yielded"} =>
                   pc[c] = "wait" \/ (pc[c] = "prefix" /\ Prefix(r))
              /\ gen[r] = "over" => r \in finished
              /\ gen[r] # "raised"

\* One update at a time has a message on its way.
OneUpdate ==
  /\ \A i, j \in Asking : i = j
  /\ \A i, j \in Telling : i = j
  /\ Asking = {} \/ Telling = {}
  /\ Asking \cup Telling # {} => future # NoUpdate

IdleInv == CallTypes /\ EndsOnce /\ PrefixEnds /\ CallWaits /\ OneUpdate

\* A request belongs to one call.
LEMMA CallOf ==
  ASSUME CallTypes, NEW c \in Reader
  PROVE  /\ Subs(c) \in Seq(Rid) /\ IsInjective(Subs(c)) /\ Len(Subs(c)) \in Nat \ {0}
         /\ obj[c].invalid \in BOOLEAN
         /\ \A r \in ToSet(Subs(c)) : r \in Rid /\ Call(r) = c
<1>1. obj \in Workloads BY DEF CallTypes
<1>2. /\ obj[c] \in Object /\ obj[c].rids # <<>> /\ IsInjective(obj[c].rids)
      /\ \A d \in Reader : c # d => ToSet(obj[c].rids) \cap ToSet(obj[d].rids) = {}
  BY <1>1, WorkloadAssumption
<1>3. Subs(c) \in Seq(Rid) /\ Subs(c) # <<>> /\ obj[c].invalid \in BOOLEAN
  BY <1>2 DEF Object, Subs
<1>4. ToSet(Subs(c)) \subseteq Rid /\ Len(Subs(c)) \in Nat \ {0} BY <1>3 DEF ToSet
<1>5. \A r \in ToSet(Subs(c)) : \A d \in Reader : r \in ToSet(Subs(d)) => d = c BY <1>2 DEF Subs
<1>6. \A r \in ToSet(Subs(c)) : Call(r) = c BY <1>5 DEF Call
<1>7. QED BY <1>2, <1>3, <1>4, <1>6 DEF Subs

\* What is not sent yet nobody has sent.
LEMMA SentOnce ==
  ASSUME CallTypes, NEW c \in Reader
  PROVE  /\ SentBy(c) \subseteq ToSet(Subs(c)) /\ Sent \subseteq Rid
         /\ \A i \in sent[c] + 1 .. Len(Subs(c)) : Subs(c)[i] \in ToSet(Subs(c)) \ Sent
<1>1. \A d \in Reader : /\ sent[d] \in Nat /\ sent[d] <= Len(Subs(d)) /\ Len(Subs(d)) \in Nat
                        /\ DOMAIN Subs(d) = 1 .. Len(Subs(d))
  BY CallOf DEF CallTypes
<1>2. \A d \in Reader : \A i \in 1 .. sent[d] : i \in DOMAIN Subs(d) BY <1>1
<1>3. \A d \in Reader : SentBy(d) \subseteq ToSet(Subs(d)) BY <1>2 DEF SentBy, ToSet
<1>4. Sent \subseteq Rid BY <1>3, CallOf DEF Sent
<1>5. ASSUME NEW i \in sent[c] + 1 .. Len(Subs(c)) PROVE Subs(c)[i] \in ToSet(Subs(c)) \ Sent
  <2>1. i \in DOMAIN Subs(c) /\ i \notin 1 .. sent[c] BY <1>1
  <2>2. Subs(c)[i] \in ToSet(Subs(c)) BY <2>1 DEF ToSet
  <2>3. \A d \in Reader : Subs(c)[i] \in SentBy(d) => d = c BY <1>3, <2>2, CallOf
  <2>4. Subs(c)[i] \notin SentBy(c) BY <1>2, <2>1, CallOf DEF SentBy, IsInjective
  <2>5. QED BY <2>2, <2>3, <2>4 DEF Sent
<1>6. QED BY <1>3, <1>4, <1>5

-----------------------------------------------------------------------------
\* t is q, of length n, followed by s, of length m.
Joins(t, q, s, n, m) ==
  /\ n \in Nat /\ m \in Nat /\ DOMAIN q = 1 .. n /\ DOMAIN s = 1 .. m /\ DOMAIN t = 1 .. n + m
  /\ \A i \in 1 .. n : t[i] = q[i]
  /\ \A i \in 1 .. m : t[n + i] = s[i]
  /\ \A i \in 1 .. n + m : i \in 1 .. n \/ \E j \in 1 .. m : i = n + j

LEMMA JoinedAt ==
  ASSUME NEW E, NEW q \in Seq(E), NEW s \in Seq(E)
  PROVE  q \o s \in Seq(E) /\ Joins(q \o s, q, s, Len(q), Len(s))
<1>1. PICK n, m \in Nat : /\ n = Len(q) /\ m = Len(s)
                          /\ DOMAIN q = 1 .. n /\ DOMAIN s = 1 .. m
  OBVIOUS
<1> DEFINE t == q \o s
<1>2. /\ t \in Seq(E) /\ DOMAIN t = 1 .. n + m
      /\ \A i \in 1 .. n : t[i] = q[i]
      /\ \A i \in 1 .. m : t[n + i] = s[i]
  BY <1>1
<1> HIDE DEF t
<1>3. \A i \in 1 .. n + m : i \in 1 .. n \/ \E j \in 1 .. m : i = n + j
  <2> TAKE i \in 1 .. n + m
  <2>1. i \notin 1 .. n => i - n \in 1 .. m /\ i = n + (i - n) OBVIOUS
  <2>2. QED BY <2>1
<1>4. Joins(t, q, s, n, m) BY <1>1, <1>2, <1>3 DEF Joins
<1>5. QED BY <1>1, <1>2, <1>4 DEF t

\* The length of the second part.
LEMMA JoinsLength ==
  ASSUME NEW t, NEW q, NEW s, NEW n, NEW m, NEW k \in Nat, Joins(t, q, s, n, m), DOMAIN s = 1 .. k
  PROVE  m = k
<1>1. m \in Nat /\ 1 .. m = 1 .. k BY DEF Joins
<1>2. m = k
  <2>1. CASE m < k
    <3>1. m + 1 \in 1 .. k /\ m + 1 \notin 1 .. m BY <1>1, <2>1
    <3>2. QED BY <1>1, <3>1
  <2>2. CASE k < m
    <3>1. k + 1 \in 1 .. m /\ k + 1 \notin 1 .. k BY <1>1, <2>2
    <3>2. QED BY <1>1, <3>1
  <2>3. QED BY <1>1, <2>1, <2>2
<1>3. QED BY <1>2

LEMMA TakenAt ==
  ASSUME NEW E, NEW q \in Seq(E), q # <<>>
  PROVE  /\ Tail(q) \in Seq(E) /\ Head(q) \in E /\ Head(q) = q[1]
         /\ \E n \in Nat : /\ DOMAIN q = 1 .. n + 1 /\ DOMAIN Tail(q) = 1 .. n
                           /\ \A i \in 1 .. n : Tail(q)[i] = q[i + 1]
<1>1. PICK n \in Nat : n + 1 = Len(q)
  <2>1. Len(q) \in Nat /\ Len(q) # 0 OBVIOUS
  <2>2. QED BY <2>1
<1>2. /\ DOMAIN q = 1 .. n + 1 /\ DOMAIN Tail(q) = 1 .. n
      /\ \A i \in 1 .. n : Tail(q)[i] = q[i + 1]
  BY <1>1
<1>3. QED BY <1>1, <1>2

\* The messages by what they say.
LEMMA Messages ==
  /\ \A m \in SchedulerMsg : \A r : m = Msg("req", r) <=> (m.kind = "req" /\ m.id = r)
  /\ \A m \in TokenizerMsg : \A r : m = Out(r, TRUE) <=> (m.kind = "out" /\ m.id = r /\ m.fin)
BY DEF SchedulerMsg, TokenizerMsg, Msg, Out

\* Requests that are appended: each was not queued.
LEMMA RequestsAdded ==
  ASSUME toScheduler \in Seq(SchedulerMsg), QueuedOnce, NEW rids \in Seq(Rid), IsInjective(rids),
         ToSet(rids) \cap Queued = {}, toScheduler' = toScheduler \o Requests(rids)
  PROVE  /\ toScheduler' \in Seq(SchedulerMsg) /\ QueuedOnce'
         /\ Queued' = Queued \cup ToSet(rids) /\ Asking' = Asking
<1> DEFINE s == Requests(rids)
<1>1. PICK k \in Nat : k = Len(rids) /\ DOMAIN rids = 1 .. k OBVIOUS
<1>2. /\ s \in Seq(SchedulerMsg) /\ DOMAIN s = 1 .. k
      /\ \A i \in 1 .. k : s[i].kind = "req" /\ s[i].id = rids[i] /\ rids[i] \in Rid
  <2>1. s = [i \in 1 .. k |-> Msg("req", rids[i])] BY <1>1 DEF Requests
  <2>2. \A i \in 1 .. k : rids[i] \in Rid BY <1>1
  <2>3. \A i \in 1 .. k : Msg("req", rids[i]) \in SchedulerMsg BY <2>2 DEF Msg, SchedulerMsg
  <2>4. s \in [1 .. k -> SchedulerMsg] BY <2>1, <2>3
  <2>5. QED BY <2>1, <2>2, <2>4 DEF Msg
<1>3. toScheduler' = toScheduler \o s OBVIOUS
<1> HIDE DEF s
<1>4. PICK n, m : toScheduler' \in Seq(SchedulerMsg) /\ Joins(toScheduler', toScheduler, s, n, m)
  BY <1>2, <1>3, JoinedAt
<1>5. /\ n \in Nat /\ m = k /\ DOMAIN toScheduler = 1 .. n /\ DOMAIN toScheduler' = 1 .. n + k
      /\ \A i \in 1 .. n : toScheduler'[i] = toScheduler[i]
      /\ \A i \in 1 .. k : toScheduler'[n + i] = s[i]
      /\ \A i \in 1 .. n + k : i \in 1 .. n \/ \E j \in 1 .. k : i = n + j
  <2>1. Joins(toScheduler', toScheduler, s, n, m) /\ k \in Nat /\ DOMAIN s = 1 .. k
    BY <1>1, <1>2, <1>4
  <2>2. m = k BY <2>1, JoinsLength
  <2>3. QED BY <2>1, <2>2, Zenon DEF Joins
<1>6. \A i \in 1 .. n : toScheduler[i] \in SchedulerMsg BY <1>5
<1>8. \A i \in 1 .. n : toScheduler[i].kind = "req" => toScheduler[i].id \notin ToSet(rids)
  <2> SUFFICES ASSUME NEW i \in 1 .. n, toScheduler[i].kind = "req", toScheduler[i].id \in ToSet(rids)
               PROVE  FALSE
    OBVIOUS
  <2>1. toScheduler[i].id \in Rid BY <1>1 DEF ToSet
  <2>2. toScheduler[i] = Msg("req", toScheduler[i].id) BY <1>6, Messages
  <2>3. toScheduler[i].id \in Queued BY <1>5, <2>1, <2>2 DEF Queued
  <2>4. QED BY <2>3
<1>9. \A i \in 1 .. k : rids[i] \in ToSet(rids) BY <1>1 DEF ToSet
<1>10. \A i, j \in 1 .. k : rids[i] = rids[j] => i = j BY <1>1 DEF IsInjective
<1>11. QueuedOnce'
  <2> SUFFICES ASSUME NEW i \in 1 .. n + k, NEW j \in 1 .. n + k,
                      toScheduler'[i].kind = "req", toScheduler'[i] = toScheduler'[j]
               PROVE  i = j
    BY <1>5 DEF QueuedOnce
  <2>1. CASE i \in 1 .. n /\ j \in 1 .. n BY <1>5, <2>1 DEF QueuedOnce
  <2>2. ASSUME NEW x \in 1 .. n, NEW y \in 1 .. k PROVE toScheduler'[x] # toScheduler'[n + y]
    <3>1. toScheduler'[x] = toScheduler[x] /\ toScheduler'[n + y] = s[y] BY <1>5
    <3>2. s[y].kind = "req" /\ s[y].id \in ToSet(rids) BY <1>2, <1>9
    <3>3. QED BY <1>8, <3>1, <3>2
  <2>3. i \in 1 .. n <=> j \in 1 .. n
    <3>1. ASSUME i \in 1 .. n, j \notin 1 .. n PROVE FALSE
      <4>1. PICK y \in 1 .. k : j = n + y BY <1>5, <3>1
      <4>2. QED BY <2>2, <3>1, <4>1
    <3>2. ASSUME j \in 1 .. n, i \notin 1 .. n PROVE FALSE
      <4>1. PICK y \in 1 .. k : i = n + y BY <1>5, <3>2
      <4>2. QED BY <2>2, <3>2, <4>1
    <3>3. QED BY <3>1, <3>2
  <2>4. CASE i \notin 1 .. n /\ j \notin 1 .. n
    <3>1. PICK x \in 1 .. k, y \in 1 .. k : i = n + x /\ j = n + y BY <1>5, <2>4
    <3>2. toScheduler'[i] = s[x] /\ toScheduler'[j] = s[y] BY <1>5, <3>1
    <3>3. rids[x] = rids[y] BY <1>2, <3>2
    <3>4. QED BY <1>10, <3>1, <3>3
  <2>5. QED BY <2>1, <2>3, <2>4
<1>12. Queued' = Queued \cup ToSet(rids)
  <2>1. ASSUME NEW r \in Queued' PROVE r \in Queued \cup ToSet(rids)
    <3>1. PICK i \in 1 .. n + k : toScheduler'[i] = Msg("req", r) BY <1>5 DEF Queued
    <3>2. CASE i \in 1 .. n BY <1>5, <3>1, <3>2 DEF Queued
    <3>3. CASE i \notin 1 .. n
      <4>1. PICK j \in 1 .. k : i = n + j BY <1>5, <3>3
      <4>2. r = rids[j] BY <1>2, <1>5, <3>1, <4>1 DEF Msg
      <4>3. QED BY <1>9, <4>2
    <3>4. QED BY <3>2, <3>3
  <2>2. Queued \subseteq Queued'
    <3>1. \A i \in 1 .. n : i \in 1 .. n + k BY <1>5
    <3>2. QED BY <1>5, <3>1 DEF Queued
  <2>3. ASSUME NEW r \in ToSet(rids) PROVE r \in Queued'
    <3>1. PICK j \in 1 .. k : r = rids[j] BY <1>1 DEF ToSet
    <3>2. s[j] = Msg("req", r) BY <1>1, <1>2, <3>1, Messages
    <3>3. n + j \in 1 .. n + k /\ toScheduler'[n + j] = Msg("req", r) BY <1>5, <3>2
    <3>4. QED BY <1>2, <1>5, <3>1, <3>3 DEF Queued
  <2>4. QED BY <2>1, <2>2, <2>3
<1>13. Asking' = Asking
  <2>1. \A i \in 1 .. k : toScheduler'[n + i].kind # "update" BY <1>2, <1>5
  <2>2. \A i \in 1 .. n : i \in 1 .. n + k BY <1>5
  <2>3. \A i \in 1 .. n + k : toScheduler'[i].kind = "update"
                               <=> i \in 1 .. n /\ toScheduler[i].kind = "update"
    BY <1>5, <2>1
  <2>4. QED BY <1>5, <2>2, <2>3 DEF Asking
<1>14. QED BY <1>4, <1>11, <1>12, <1>13

\* Other messages that are appended.
LEMMA OthersAdded ==
  ASSUME toScheduler \in Seq(SchedulerMsg), QueuedOnce, NEW s \in Seq(SchedulerMsg),
         \A i \in DOMAIN s : s[i].kind # "req", toScheduler' = toScheduler \o s
  PROVE  /\ toScheduler' \in Seq(SchedulerMsg) /\ QueuedOnce' /\ Queued' = Queued
         /\ (\A i \in DOMAIN s : s[i].kind = "abort") => Asking' = Asking
         /\ Asking = {} /\ Len(s) = 1 => \A i, j \in Asking' : i = j
<1>1. PICK n, m : toScheduler' \in Seq(SchedulerMsg) /\ Joins(toScheduler', toScheduler, s, n, m)
  BY JoinedAt
<1>2. /\ n \in Nat /\ m \in Nat /\ DOMAIN toScheduler = 1 .. n /\ DOMAIN s = 1 .. m
      /\ DOMAIN toScheduler' = 1 .. n + m
      /\ \A i \in 1 .. n : toScheduler'[i] = toScheduler[i]
      /\ \A i \in 1 .. m : toScheduler'[n + i] = s[i]
      /\ \A i \in 1 .. n + m : i \in 1 .. n \/ \E j \in 1 .. m : i = n + j
  BY <1>1 DEF Joins
<1>3. \A i \in 1 .. n : i \in 1 .. n + m BY <1>2
<1>4. \A i \in 1 .. n + m : toScheduler'[i].kind = "req" => i \in 1 .. n
  <2> SUFFICES ASSUME NEW i \in 1 .. n + m, toScheduler'[i].kind = "req", i \notin 1 .. n
               PROVE  FALSE
    OBVIOUS
  <2>1. PICK j \in 1 .. m : i = n + j BY <1>2
  <2>2. toScheduler'[i] = s[j] /\ s[j].kind # "req" BY <1>2, <2>1
  <2>3. QED BY <2>2
<1>5. QueuedOnce' BY <1>2, <1>4 DEF QueuedOnce
<1>6. Queued' = Queued
  <2>1. \A r : Msg("req", r).kind = "req" BY DEF Msg
  <2>2. ASSUME NEW r \in Rid
        PROVE  (\E i \in 1 .. n + m : toScheduler'[i] = Msg("req", r))
                 <=> \E i \in 1 .. n : toScheduler[i] = Msg("req", r)
    BY <1>2, <1>3, <1>4, <2>1
  <2>3. QED BY <1>2, <2>2 DEF Queued
<1>7. (\A i \in DOMAIN s : s[i].kind = "abort") => Asking' = Asking
  BY <1>2, <1>3 DEF Asking
<1>8. Asking = {} /\ Len(s) = 1 => \A i, j \in Asking' : i = j
  <2> SUFFICES ASSUME Asking = {}, Len(s) = 1 PROVE Asking' \subseteq {n + 1} OBVIOUS
  <2>1. m = 1
    <3>1. DOMAIN s = 1 .. 1 OBVIOUS
    <3>2. 1 .. m = 1 .. 1 /\ m \in Nat BY <1>2, <3>1
    <3>3. 1 \in 1 .. 1 /\ 2 \notin 1 .. 1 OBVIOUS
    <3>4. 1 \in 1 .. m /\ 2 \notin 1 .. m BY <3>2, <3>3
    <3>5. QED BY <3>2, <3>4
  <2>2. \A i \in 1 .. n : toScheduler[i].kind # "update" BY <1>2 DEF Asking
  <2>3. QED BY <1>2, <2>1, <2>2 DEF Asking
<1>9. QED BY <1>1, <1>5, <1>6, <1>7, <1>8

\* The first message is taken.
LEMMA MessageTaken ==
  ASSUME toScheduler \in Seq(SchedulerMsg), QueuedOnce, toScheduler # <<>>,
         toScheduler' = Tail(toScheduler)
  PROVE  LET m == Head(toScheduler) IN
         /\ m \in SchedulerMsg /\ toScheduler' \in Seq(SchedulerMsg) /\ QueuedOnce'
         /\ m.kind = "req" => m.id \in Queued /\ Queued' = Queued \ {m.id}
         /\ m.kind # "req" => Queued' = Queued
         /\ Asking = {} => Asking' = {}
         /\ (\A i, j \in Asking : i = j) =>
              (\A i, j \in Asking' : i = j) /\ (m.kind = "update" => Asking # {} /\ Asking' = {})
<1> DEFINE m == Head(toScheduler)
<1>1. m \in SchedulerMsg /\ toScheduler' \in Seq(SchedulerMsg) /\ m = toScheduler[1]
  BY TakenAt
<1>2. PICK n \in Nat : /\ DOMAIN toScheduler = 1 .. n + 1 /\ DOMAIN toScheduler' = 1 .. n
                       /\ \A i \in 1 .. n : toScheduler'[i] = toScheduler[i + 1]
  BY TakenAt
<1> HIDE DEF m
<1>3. \A i \in 1 .. n : i + 1 \in 1 .. n + 1 /\ i + 1 # 1 BY <1>2
<1>4. \A i \in 1 .. n + 1 : i = 1 \/ \E j \in 1 .. n : i = j + 1
  <2> TAKE i \in 1 .. n + 1
  <2>1. i # 1 => i - 1 \in 1 .. n /\ i = (i - 1) + 1 BY <1>2
  <2>2. QED BY <2>1
<1>5. 1 \in 1 .. n + 1 BY <1>2
<1>6. QueuedOnce'
  <2> SUFFICES ASSUME NEW i \in 1 .. n, NEW j \in 1 .. n,
                      toScheduler'[i].kind = "req", toScheduler'[i] = toScheduler'[j]
               PROVE  i = j
    BY <1>2 DEF QueuedOnce
  <2>1. i + 1 = j + 1 BY <1>2, <1>3 DEF QueuedOnce
  <2>2. QED BY <2>1
<1>7. \A r \in Queued : Msg("req", r) = m \/ r \in Queued'
  <2> TAKE r \in Queued
  <2>1. PICK i \in 1 .. n + 1 : toScheduler[i] = Msg("req", r) /\ r \in Rid BY <1>2 DEF Queued
  <2>2. CASE i = 1 BY <1>1, <2>1, <2>2
  <2>3. CASE i # 1
    <3>1. PICK j \in 1 .. n : i = j + 1 BY <1>4, <2>3
    <3>2. toScheduler'[j] = Msg("req", r) BY <1>2, <2>1, <3>1
    <3>3. QED BY <1>2, <2>1, <3>2 DEF Queued
  <2>4. QED BY <2>2, <2>3
<1>8. \A r \in Queued' : r \in Queued /\ Msg("req", r) # m
  <2> TAKE r \in Queued'
  <2>1. PICK j \in 1 .. n : toScheduler'[j] = Msg("req", r) /\ r \in Rid BY <1>2 DEF Queued
  <2>2. toScheduler[j + 1] = Msg("req", r) /\ j + 1 \in 1 .. n + 1 /\ j + 1 # 1
    BY <1>2, <1>3, <2>1
  <2>3. r \in Queued BY <1>2, <2>1, <2>2 DEF Queued
  <2>4. Msg("req", r).kind = "req" BY DEF Msg
  <2>5. Msg("req", r) # m BY <1>1, <1>2, <1>5, <2>2, <2>4 DEF QueuedOnce
  <2>6. QED BY <2>3, <2>5
<1>9. m.kind = "req" => m.id \in Queued /\ Queued' = Queued \ {m.id}
  <2> SUFFICES ASSUME m.kind = "req" PROVE m.id \in Queued /\ Queued' = Queued \ {m.id} OBVIOUS
  <2>1. m = Msg("req", m.id) /\ m.id \in Rid BY <1>1 DEF SchedulerMsg, Msg
  <2>2. m.id \in Queued BY <1>1, <1>2, <1>5, <2>1 DEF Queued
  <2>3. \A r : Msg("req", r) = m <=> r = m.id BY <2>1 DEF Msg
  <2>4. QED BY <1>7, <1>8, <2>2, <2>3
<1>10. m.kind # "req" => Queued' = Queued
  <2>1. \A r : Msg("req", r).kind = "req" BY DEF Msg
  <2>2. QED BY <1>7, <1>8, <2>1
<1>11. \A i \in Asking' : i + 1 \in Asking /\ i \in Nat /\ i + 1 # 1 BY <1>2, <1>3 DEF Asking
<1>12. m.kind = "update" => 1 \in Asking BY <1>1, <1>2, <1>5 DEF Asking
<1>13. (\A i, j \in Asking : i = j) =>
         (\A i, j \in Asking' : i = j) /\ (m.kind = "update" => Asking # {} /\ Asking' = {})
  <2> SUFFICES ASSUME \A i, j \in Asking : i = j
               PROVE  /\ \A i, j \in Asking' : i = j
                      /\ m.kind = "update" => Asking # {} /\ Asking' = {}
    OBVIOUS
  <2>1. ASSUME NEW i \in Asking', NEW j \in Asking' PROVE i = j
    <3>1. i + 1 = j + 1 /\ i \in Nat /\ j \in Nat BY <1>11
    <3>2. QED BY <3>1
  <2>2. m.kind = "update" => Asking' = {} BY <1>11, <1>12
  <2>3. QED BY <1>12, <2>1, <2>2
<1>14. Asking = {} => Asking' = {} BY <1>11
<1>15. QED BY <1>1, <1>6, <1>9, <1>10, <1>13, <1>14 DEF m

-----------------------------------------------------------------------------
\* The same of the answers.
LEMMA AnswerAdded ==
  ASSUME toTokenizer \in Seq(TokenizerMsg), NEW m \in TokenizerMsg,
         toTokenizer' = Append(toTokenizer, m)
  PROVE  /\ toTokenizer' \in Seq(TokenizerMsg)
         /\ \A r \in Rid : /\ r \in Ending' <=> r \in Ending \/ m = Out(r, TRUE)
                           /\ r \in Partial' <=> r \in Partial \/ m = Out(r, FALSE)
         /\ m.kind # "updated" => Telling' = Telling
         /\ Telling = {} => \A i, j \in Telling' : i = j
<1>1. PICK n \in Nat : n = Len(toTokenizer) /\ DOMAIN toTokenizer = 1 .. n OBVIOUS
<1>2. /\ toTokenizer' \in Seq(TokenizerMsg) /\ DOMAIN toTokenizer' = 1 .. n + 1
      /\ \A i \in 1 .. n : toTokenizer'[i] = toTokenizer[i]
      /\ toTokenizer'[n + 1] = m
  BY <1>1
<1>3. \A i : i \in 1 .. n + 1 <=> i \in 1 .. n \/ i = n + 1 BY <1>1
<1>4. n + 1 \notin 1 .. n BY <1>1
<1>5. ASSUME NEW v
      PROVE  (\E i \in DOMAIN toTokenizer' : toTokenizer'[i] = v)
               <=> (\E i \in DOMAIN toTokenizer : toTokenizer[i] = v) \/ m = v
  BY <1>1, <1>2, <1>3
<1>6. \A r \in Rid : /\ r \in Ending' <=> r \in Ending \/ m = Out(r, TRUE)
                     /\ r \in Partial' <=> r \in Partial \/ m = Out(r, FALSE)
  BY <1>5 DEF Ending, Partial
<1>7. Telling' = {i \in 1 .. n + 1 : i \in Telling \/ (i = n + 1 /\ m.kind = "updated")}
  BY <1>1, <1>2, <1>3, <1>4 DEF Telling
<1>8. Telling \subseteq 1 .. n + 1 BY <1>1, <1>3 DEF Telling
<1>9. QED BY <1>2, <1>6, <1>7, <1>8

LEMMA AnswerTaken ==
  ASSUME toTokenizer \in Seq(TokenizerMsg), toTokenizer # <<>>, toTokenizer' = Tail(toTokenizer)
  PROVE  LET m == Head(toTokenizer) IN
         /\ m \in TokenizerMsg /\ toTokenizer' \in Seq(TokenizerMsg)
         /\ Ending' \subseteq Ending /\ Partial' \subseteq Partial
         /\ \A r \in Rid : /\ m = Out(r, TRUE) => r \in Ending
                           /\ m = Out(r, FALSE) => r \in Partial
         /\ Telling = {} => Telling' = {}
         /\ (\A i, j \in Telling : i = j) =>
              (\A i, j \in Telling' : i = j) /\ (m.kind = "updated" => Telling # {} /\ Telling' = {})
<1> DEFINE m == Head(toTokenizer)
<1>1. m \in TokenizerMsg /\ toTokenizer' \in Seq(TokenizerMsg) /\ m = toTokenizer[1]
  BY TakenAt
<1>2. PICK n \in Nat : /\ DOMAIN toTokenizer = 1 .. n + 1 /\ DOMAIN toTokenizer' = 1 .. n
                       /\ \A i \in 1 .. n : toTokenizer'[i] = toTokenizer[i + 1]
  BY TakenAt
<1> HIDE DEF m
<1>3. \A i \in 1 .. n : i + 1 \in 1 .. n + 1 /\ i + 1 # 1 BY <1>2
<1>4. 1 \in 1 .. n + 1 BY <1>2
<1>5. Ending' \subseteq Ending BY <1>2, <1>3 DEF Ending
<1>6. Partial' \subseteq Partial BY <1>2, <1>3 DEF Partial
<1>7. \A r \in Rid : (m = Out(r, TRUE) => r \in Ending) /\ (m = Out(r, FALSE) => r \in Partial)
  BY <1>1, <1>2, <1>4 DEF Ending, Partial
<1>8. \A i \in Telling' : i + 1 \in Telling /\ i \in Nat /\ i + 1 # 1 BY <1>2, <1>3 DEF Telling
<1>9. m.kind = "updated" => 1 \in Telling BY <1>1, <1>2, <1>4 DEF Telling
<1>10. (\A i, j \in Telling : i = j) =>
         (\A i, j \in Telling' : i = j) /\ (m.kind = "updated" => Telling # {} /\ Telling' = {})
  <2> SUFFICES ASSUME \A i, j \in Telling : i = j
               PROVE  /\ \A i, j \in Telling' : i = j
                      /\ m.kind = "updated" => Telling # {} /\ Telling' = {}
    OBVIOUS
  <2>1. ASSUME NEW i \in Telling', NEW j \in Telling' PROVE i = j
    <3>1. i + 1 = j + 1 /\ i \in Nat /\ j \in Nat BY <1>8
    <3>2. QED BY <3>1
  <2>2. m.kind = "updated" => Telling' = {} BY <1>8, <1>9
  <2>3. QED BY <1>9, <2>1, <2>2
<1>11. Telling = {} => Telling' = {} BY <1>8
<1>12. QED BY <1>1, <1>5, <1>6, <1>7, <1>10, <1>11 DEF m

-----------------------------------------------------------------------------
\* The objects of the calls never change.
LEMMA ObjectsStay ==
  ASSUME obj' = obj
  PROVE  /\ \A c : Subs(c)' = Subs(c)
         /\ \A r : Call(r)' = Call(r) /\ (Prefix(r)' <=> Prefix(r))
<1>1. ASSUME NEW c PROVE Subs(c)' = Subs(c) BY DEF Subs
<1>2. ASSUME NEW r PROVE Call(r)' = Call(r) BY DEF Call, Subs
<1>3. ASSUME NEW r PROVE Prefix(r)' <=> Prefix(r) BY <1>1, <1>2 DEF Prefix
<1>4. QED BY <1>1, <1>2, <1>3

\* What does not change who has been sent.
LEMMA SentStays ==
  ASSUME obj' = obj, sent' = sent
  PROVE  Sent' = Sent
BY DEF Sent, SentBy, Subs

\* What a step of a call or of a generator leaves alone, whatever becomes of the
\* generators, if it sends nothing but aborts.
LEMMA CallSide ==
  ASSUME IdleInv, UNCHANGED <<obj, sent, finished, future, toTokenizer, running>>,
         event' \subseteq event, gone \subseteq gone', gone' \subseteq Reader,
         gen' \in [Rid -> {"none", "waiting", "yielded", "over", "raised"}],
         toScheduler' \in Seq(SchedulerMsg), QueuedOnce', Queued' = Queued, Asking' = Asking
  PROVE  CallTypes' /\ EndsOnce' /\ PrefixEnds' /\ OneUpdate'
<1>1. /\ \A c : Subs(c)' = Subs(c)
      /\ \A r : Call(r)' = Call(r) /\ (Prefix(r)' <=> Prefix(r))
  BY ObjectsStay
<1>2. CallTypes' BY <1>1 DEF IdleInv, CallTypes
<1>3. Sent' = Sent BY SentStays
<1>4. Ending' = Ending /\ Partial' = Partial /\ Telling' = Telling
  BY DEF Ending, Partial, Telling
<1>5. EndsOnce' BY <1>3, <1>4 DEF IdleInv, EndsOnce
<1>6. PrefixEnds' BY <1>1, <1>4 DEF IdleInv, PrefixEnds
<1>7. OneUpdate' BY <1>4 DEF IdleInv, OneUpdate
<1>8. QED BY <1>2, <1>5, <1>6, <1>7

\* What the other side leaves alone: the calls.
LEMMA CallsStay ==
  ASSUME CallWaits, UNCHANGED <<obj, pc, sent, gen>>, gone \subseteq gone', finished \subseteq finished'
  PROVE  CallWaits'
<1>1. /\ \A c : Subs(c)' = Subs(c)
      /\ \A r : Prefix(r)' <=> Prefix(r)
  BY ObjectsStay
<1>2. \A c : Stays(c)' => Stays(c) BY DEF Stays
<1>3. QED BY <1>1, <1>2 DEF CallWaits

-----------------------------------------------------------------------------
\* abort_request puts aborts in the queue and nothing else.
LEMMA AbortsAdded ==
  ASSUME toScheduler \in Seq(SchedulerMsg), QueuedOnce, NEW rids \in SUBSET Rid, IsFiniteSet(rids),
         Abort(rids)
  PROVE  toScheduler' \in Seq(SchedulerMsg) /\ QueuedOnce' /\ Queued' = Queued /\ Asking' = Asking
<1> DEFINE A == {Msg("abort", r) : r \in rids \cap registered}
           s == SetToSeq(A)
           f == [r \in rids \cap registered |-> Msg("abort", r)]
<1>1. IsFiniteSet(rids \cap registered) BY FS_Subset
<1>2. f \in Surjection(rids \cap registered, A)
  <2>1. f \in [rids \cap registered -> A] OBVIOUS
  <2>2. \A m \in A : \E r \in rids \cap registered : f[r] = m OBVIOUS
  <2>3. QED BY <2>1, <2>2 DEF Surjection
<1>3. \A m \in A : m \in SchedulerMsg /\ m.kind = "abort" BY DEF Msg, SchedulerMsg
<1>4. toScheduler' = toScheduler \o s BY DEF Abort
<1> HIDE DEF f, A
<1>5. IsFiniteSet(A) BY <1>1, <1>2, FS_Surjection
<1>6. PICK n \in Nat : ExistsBijection(1 .. n, A) BY <1>5, FS_NatBijection
<1>7. Cardinality(A) = n BY <1>6, FS_CountingElements
<1>8. \E g \in [1 .. n -> A] : IsInjective(g)
  BY <1>6 DEF ExistsBijection, Bijection, Injection
<1>9. s \in [1 .. n -> A] BY <1>7, <1>8 DEF SetToSeq
<1> HIDE DEF s
<1>10. s \in Seq(SchedulerMsg) /\ \A i \in DOMAIN s : s[i].kind = "abort" BY <1>3, <1>9
<1>11. \A i \in DOMAIN s : s[i].kind # "req" BY <1>10
<1>12. QED BY <1>4, <1>10, <1>11, OthersAdded

\* A queue that is left alone.
LEMMA QueueStays ==
  ASSUME CallTypes, QueuedOnce, toScheduler' = toScheduler
  PROVE  toScheduler' \in Seq(SchedulerMsg) /\ QueuedOnce' /\ Queued' = Queued /\ Asking' = Asking
BY DEF CallTypes, QueuedOnce, Queued, Asking

\* A call that moves, and sends nothing but aborts.
LEMMA CallMovesIdle ==
  ASSUME IdleInv, PlacesMatchLock, NEW c \in Reader,
         \/ Enter(c) \/ Gathered(c) \/ Leave(c) \/ CancelStream(c) \/ BackgroundAbort(c)
         \/ ClientLeaves(c)
  PROVE  IdleInv'
<1>1. obj' = obj /\ sent' = sent
  BY DEF Enter, Gathered, Leave, CancelStream, BackgroundAbort, ClientLeaves, callVars
<1>2. UNCHANGED <<finished, future, toTokenizer, running, event>>
  BY DEF Enter, Gathered, Leave, CancelStream, BackgroundAbort, ClientLeaves, callVars, serverVars
<1>3. gone \subseteq gone' /\ gone' \subseteq Reader
  BY DEF Enter, Gathered, Leave, CancelStream, BackgroundAbort, ClientLeaves, IdleInv, CallTypes
<1>4. gen' \in [Rid -> {"none", "waiting", "yielded", "over", "raised"}]
  <2>1. CASE CancelStream(c) BY <2>1 DEF CancelStream, IdleInv, CallTypes
  <2>2. CASE ~CancelStream(c)
    BY <2>2 DEF Enter, Gathered, Leave, BackgroundAbort, ClientLeaves, callVars, IdleInv, CallTypes
  <2>3. QED BY <2>1, <2>2
<1>5. toScheduler' \in Seq(SchedulerMsg) /\ QueuedOnce' /\ Queued' = Queued /\ Asking' = Asking
  <2>1. CASE BackgroundAbort(c)
    <3>1. PICK rids \in {{}, ToSet(Subs(c))} : Abort(rids) BY <2>1 DEF BackgroundAbort
    <3>2. rids \in SUBSET Rid /\ IsFiniteSet(rids)
      <4>1. CASE rids = {} BY <4>1, FS_EmptySet
      <4>2. CASE rids = ToSet(Subs(c)) BY <4>2, CallOf, InjectiveLen DEF IdleInv
      <4>3. QED BY <3>1, <4>1, <4>2
    <3>3. QED BY <3>1, <3>2, AbortsAdded DEF IdleInv, CallTypes, EndsOnce
  <2>2. CASE ~BackgroundAbort(c)
    <3>1. toScheduler' = toScheduler
      BY <2>2 DEF Enter, Gathered, Leave, CancelStream, ClientLeaves
    <3>2. QED BY <3>1, QueueStays DEF IdleInv, EndsOnce
  <2>3. QED BY <2>1, <2>2
<1>6. CallTypes' /\ EndsOnce' /\ PrefixEnds' /\ OneUpdate'
  BY <1>1, <1>2, <1>3, <1>4, <1>5, CallSide
<1>7. CallWaits'
  <2>0. /\ \A d : Subs(d)' = Subs(d)
        /\ \A r : Prefix(r)' <=> Prefix(r)
    BY <1>1, ObjectsStay
  <2>1. \A d : Stays(d)' => Stays(d) BY <1>1, <1>3 DEF Stays
  <2>2. CallWaits /\ CallTypes /\ pc \in [Reader -> InProgress \cup {"lock", "background", "done"}]
    BY DEF IdleInv, PlacesMatchLock
  <2>3. CASE ClientLeaves(c)
    BY <1>1, <1>2, <1>3, <2>2, <2>3, CallsStay DEF ClientLeaves, callVars
  <2>4. CASE Enter(c)
    <3>1. pc[c] = "lock" /\ \E p \in {"tokenize", "lock"} : pc' = [pc EXCEPT ![c] = p]
      BY <2>4 DEF Enter
    <3>2. gen' = gen BY <2>4 DEF Enter
    <3>3. QED BY <1>1, <1>2, <2>0, <2>1, <2>2, <3>1, <3>2 DEF CallWaits
  <2>5. CASE Gathered(c)
    <3>1. gen' = gen BY <2>5 DEF Gathered
    <3>0. /\ Subs(c)[1] \in ToSet(Subs(c))
          /\ \A r \in ToSet(Subs(c)) : Prefix(r) => r = Subs(c)[1]
      <4>1. Len(Subs(c)) \in Nat \ {0} /\ DOMAIN Subs(c) = 1 .. Len(Subs(c)) BY <2>2, CallOf
      <4>2. 1 \in DOMAIN Subs(c) BY <4>1
      <4>3. Subs(c)[1] \in ToSet(Subs(c)) BY <4>2 DEF ToSet
      <4>4. QED BY <2>2, <4>3, CallOf DEF Prefix
    <3>2. CASE pc[c] = "prefix" /\ gen[Subs(c)[1]] = "over" /\ pc' = [pc EXCEPT ![c] = "tokenize"]
      BY <1>1, <1>2, <2>0, <2>1, <2>2, <3>0, <3>1, <3>2 DEF CallWaits
    <3>3. CASE pc[c] = "prefix" /\ gen[Subs(c)[1]] = "raised" /\ pc' = [pc EXCEPT ![c] = "release"]
      BY <1>1, <1>2, <2>0, <2>1, <2>2, <3>0, <3>1, <3>3 DEF CallWaits
    <3>4. CASE /\ pc[c] = "wait" /\ pc' = [pc EXCEPT ![c] = "release"]
               /\ \E r \in ToSet(Subs(c)) : gen[r] = "raised"
      BY <1>1, <1>2, <2>0, <2>1, <2>2, <3>1, <3>4 DEF CallWaits
    <3>5. CASE /\ pc[c] = "wait" /\ pc' = [pc EXCEPT ![c] = "release"]
               /\ \A r \in ToSet(Subs(c)) : gen[r] = "over"
      BY <1>1, <1>2, <2>0, <2>1, <2>2, <3>1, <3>5 DEF CallWaits
    <3>6. QED BY <2>5, <3>2, <3>3, <3>4, <3>5 DEF Gathered
  <2>6. CASE Leave(c) \/ BackgroundAbort(c)
    <3>1. gen' = gen BY <2>6 DEF Leave, BackgroundAbort
    <3>2. /\ pc[c] \in {"release", "background"}
          /\ \E p \in {"background", "done"} : pc' = [pc EXCEPT ![c] = p]
      BY <2>6 DEF Leave, BackgroundAbort
    <3>3. QED BY <1>1, <1>2, <2>0, <2>1, <2>2, <3>1, <3>2 DEF CallWaits
  <2>7. CASE CancelStream(c)
    <3>1. c \in gone BY <2>7 DEF CancelStream
    <3>2. \A d \in Reader \ {c} : pc'[d] = pc[d] /\ \A r \in ToSet(Subs(d)) : gen'[r] = gen[r]
      <4>1. \A d \in Reader \ {c} : pc'[d] = pc[d] BY <2>2, <2>7 DEF CancelStream
      <4>2. \A d \in Reader \ {c} : \A r \in ToSet(Subs(d)) : r \in Rid /\ r \notin ToSet(Subs(c))
        BY <2>2, CallOf
      <4>3. \A r \in Rid : r \notin ToSet(Subs(c)) => gen'[r] = gen[r]
        BY <2>2, <2>7 DEF CancelStream, CallTypes
      <4>4. QED BY <4>1, <4>2, <4>3
    <3>3. pc'[c] \in {"background", "release"}
      BY <2>2, <2>7 DEF CancelStream
    <3>4. ~Stays(c)' BY <1>3, <3>1 DEF Stays
    <3>5. QED BY <1>1, <1>2, <2>0, <2>1, <2>2, <3>2, <3>3, <3>4 DEF CallWaits
  <2>8. QED BY <2>3, <2>4, <2>5, <2>6, <2>7
<1>8. QED BY <1>6, <1>7 DEF IdleInv

-----------------------------------------------------------------------------
\* k elements of a sequence, after the first a.
LEMMA NextElements ==
  ASSUME NEW E, NEW u \in Seq(E), NEW a \in Nat, NEW k \in Nat, a + k <= Len(u)
  PROVE  LET new == SubSeq(u, a + 1, a + k) IN
         /\ new \in Seq(E) /\ DOMAIN new = 1 .. k
         /\ \A i \in 1 .. k : new[i] = u[a + i] /\ a + i \in a + 1 .. Len(u)
         /\ ToSet(new) \subseteq ToSet(u)
<1>1. SubSeq(u, a + 1, a + k) = [i \in 1 .. k |-> u[a + i]]
  <2>1. (a + k) - (a + 1) + 1 = k OBVIOUS
  <2>2. SubSeq(u, a + 1, a + k) = [i \in 1 .. ((a + k) - (a + 1) + 1) |-> u[(a + 1) + i - 1]]
    OBVIOUS
  <2>3. \A i \in 1 .. k : (a + 1) + i - 1 = a + i OBVIOUS
  <2>4. QED BY <2>1, <2>2, <2>3
<1>2. \A i \in 1 .. k : a + i \in a + 1 .. Len(u) /\ a + i \in 1 .. Len(u) OBVIOUS
<1>3. \A i \in 1 .. k : u[a + i] \in E /\ u[a + i] \in ToSet(u) BY <1>2 DEF ToSet
<1>4. [i \in 1 .. k |-> u[a + i]] \in Seq(E) BY <1>3
<1> DEFINE new == [i \in 1 .. k |-> u[a + i]]
<1>5. \A i \in 1 .. k : new[i] = u[a + i] /\ new[i] \in ToSet(u) BY <1>3
<1>6. DOMAIN new = 1 .. k OBVIOUS
<1>7. new = SubSeq(u, a + 1, a + k) /\ new \in Seq(E) BY <1>1, <1>4
<1> HIDE DEF new
<1>8. ToSet(new) \subseteq ToSet(u)
  <2>1. ToSet(new) = {new[i] : i \in 1 .. k} BY <1>6 DEF ToSet
  <2>2. QED BY <1>5, <2>1
<1>9. QED BY <1>2, <1>5, <1>6, <1>7, <1>8

\* Requests that are sent: the next ones of the call.
LEMMA SendAdds ==
  ASSUME IdleInv, NEW c \in Reader, NEW k \in Nat, sent[c] + k <= Len(Subs(c)),
         NEW rids, SendAndRegister(c, k, rids),
         UNCHANGED <<obj, event, finished, gone, future, toTokenizer, running>>
  PROVE  /\ CallTypes' /\ EndsOnce' /\ PrefixEnds' /\ OneUpdate'
         /\ \A d \in Reader \ {c} : sent'[d] = sent[d]
         /\ sent'[c] = sent[c] + k
<1> DEFINE new == SubSeq(Subs(c), sent[c] + 1, sent[c] + k)
<1>1. CallTypes /\ EndsOnce /\ PrefixEnds /\ OneUpdate BY DEF IdleInv
<1>2. /\ \A d : Subs(d)' = Subs(d)
      /\ \A r : Call(r)' = Call(r) /\ (Prefix(r)' <=> Prefix(r))
  BY ObjectsStay
<1>3. Subs(c) \in Seq(Rid) /\ IsInjective(Subs(c)) /\ Len(Subs(c)) \in Nat /\ sent[c] \in Nat
  BY <1>1, CallOf DEF CallTypes
<1>4. /\ new \in Seq(Rid) /\ DOMAIN new = 1 .. k
      /\ \A i \in 1 .. k : new[i] = Subs(c)[sent[c] + i] /\ sent[c] + i \in sent[c] + 1 .. Len(Subs(c))
  <2> DEFINE u == Subs(c)
             a == sent[c]
  <2>1. u \in Seq(Rid) /\ a \in Nat /\ a + k <= Len(u) BY <1>3
  <2> HIDE DEF u, a
  <2>2. /\ SubSeq(u, a + 1, a + k) \in Seq(Rid) /\ DOMAIN SubSeq(u, a + 1, a + k) = 1 .. k
        /\ \A i \in 1 .. k : /\ SubSeq(u, a + 1, a + k)[i] = u[a + i]
                             /\ a + i \in a + 1 .. Len(u)
    BY <2>1, NextElements
  <2>3. QED BY <2>2 DEF u, a
<1>5. toScheduler' = toScheduler \o Requests(new) /\ sent' = [sent EXCEPT ![c] = @ + k]
      /\ gen' = [r \in Rid |-> IF r \in rids THEN "waiting" ELSE gen[r]]
  BY DEF SendAndRegister
<1> HIDE DEF new
<1>6. \A i \in 1 .. k : new[i] \in ToSet(Subs(c)) \ Sent BY <1>1, <1>4, SentOnce
<1>7. ToSet(new) \cap Sent = {} BY <1>4, <1>6 DEF ToSet
<1>8. IsInjective(new)
  <2>1. \A i \in 1 .. k : sent[c] + i \in DOMAIN Subs(c) BY <1>3, <1>4
  <2>2. ASSUME NEW i \in 1 .. k, NEW j \in 1 .. k, new[i] = new[j] PROVE i = j
    <3>1. Subs(c)[sent[c] + i] = Subs(c)[sent[c] + j] BY <1>4, <2>2
    <3>2. sent[c] + i = sent[c] + j BY <1>3, <2>1, <3>1 DEF IsInjective
    <3>3. QED BY <1>3, <3>2
  <2>3. QED BY <1>4, <2>2 DEF IsInjective
<1>9. /\ toScheduler' \in Seq(SchedulerMsg) /\ QueuedOnce'
      /\ Queued' = Queued \cup ToSet(new) /\ Asking' = Asking
  <2>1. ToSet(new) \cap Queued = {} BY <1>1, <1>7 DEF EndsOnce
  <2>2. QED BY <1>1, <1>4, <1>5, <1>8, <2>1, RequestsAdded DEF CallTypes, EndsOnce
<1>10. /\ \A d \in Reader \ {c} : sent'[d] = sent[d]
       /\ sent'[c] = sent[c] + k
       /\ sent' \in [Reader -> Nat]
  BY <1>1, <1>3, <1>5 DEF CallTypes
<1>11. Sent' = Sent \cup ToSet(new)
  <2>1. \A d \in Reader \ {c} : SentBy(d)' = SentBy(d) BY <1>2, <1>10 DEF SentBy
  <2>2. SentBy(c)' = SentBy(c) \cup ToSet(new)
    <3>1. SentBy(c)' = {Subs(c)[i] : i \in 1 .. sent[c] + k} BY <1>2, <1>10 DEF SentBy
    <3>2. \A i \in 1 .. sent[c] + k : i \in 1 .. sent[c] \/ \E j \in 1 .. k : i = sent[c] + j
      <4> TAKE i \in 1 .. sent[c] + k
      <4>1. i \notin 1 .. sent[c] => i - sent[c] \in 1 .. k /\ i = sent[c] + (i - sent[c])
        BY <1>3
      <4>2. QED BY <4>1
    <3>3. /\ \A i \in 1 .. sent[c] : i \in 1 .. sent[c] + k
          /\ \A j \in 1 .. k : sent[c] + j \in 1 .. sent[c] + k
      BY <1>3
    <3>4. ToSet(new) = {Subs(c)[sent[c] + j] : j \in 1 .. k} BY <1>4 DEF ToSet
    <3>5. SentBy(c) = {Subs(c)[i] : i \in 1 .. sent[c]} BY DEF SentBy
    <3> DEFINE at(i) == Subs(c)[i]
               n == sent[c]
               after == {at(n + j) : j \in 1 .. k}
    <3> HIDE DEF at, n
    <3>6. {at(i) : i \in 1 .. n + k} = {at(i) : i \in 1 .. n} \cup after
      <4>1. ASSUME NEW i \in 1 .. n + k PROVE at(i) \in {at(x) : x \in 1 .. n} \cup after
        <5>1. CASE i \in 1 .. n BY <5>1
        <5>2. CASE i \notin 1 .. n
          <6>1. PICK j \in 1 .. k : i = n + j BY <3>2, <5>2 DEF n
          <6>2. QED BY <6>1
        <5>3. QED BY <5>1, <5>2
      <4>2. {at(i) : i \in 1 .. n} \subseteq {at(i) : i \in 1 .. n + k} BY <3>3 DEF n
      <4>3. after \subseteq {at(i) : i \in 1 .. n + k} BY <3>3 DEF n
      <4>4. QED BY <4>1, <4>2, <4>3
    <3>7. QED BY <3>1, <3>4, <3>5, <3>6 DEF at, n
  <2>3. QED BY <2>1, <2>2 DEF Sent
<1>12. Ending' = Ending /\ Partial' = Partial /\ Telling' = Telling
  BY DEF Ending, Partial, Telling
<1>13. EndsOnce'
  BY <1>1, <1>7, <1>9, <1>11, <1>12 DEF EndsOnce
<1>14. CallTypes'
  <2>1. gen' \in [Rid -> {"none", "waiting", "yielded", "over", "raised"}]
    BY <1>1, <1>5 DEF CallTypes
  <2>2. \A d \in Reader : sent'[d] <= Len(Subs(d)) BY <1>1, <1>10 DEF CallTypes
  <2>3. QED BY <1>1, <1>2, <1>9, <1>10, <2>1, <2>2 DEF CallTypes
<1>15. PrefixEnds' BY <1>1, <1>2, <1>12 DEF PrefixEnds
<1>16. OneUpdate' BY <1>1, <1>9, <1>12 DEF OneUpdate
<1>17. QED BY <1>10, <1>13, <1>14, <1>15, <1>16

\* A call that tokenizes and sends.
LEMMA CallSendsIdle ==
  ASSUME IdleInv, PlacesMatchLock, NEW c \in Reader, Send(c) \/ TokenizeFails(c)
  PROVE  IdleInv'
<1>1. UNCHANGED <<obj, event, finished, gone, future, toTokenizer, running>>
  BY DEF Send, TokenizeFails, serverVars
<1>2. CallTypes /\ CallWaits /\ pc[c] = "tokenize"
      /\ pc \in [Reader -> InProgress \cup {"lock", "background", "done"}]
  BY DEF IdleInv, PlacesMatchLock, Send, TokenizeFails
<1>3. /\ sent[c] \in Nat /\ sent[c] <= Len(Subs(c)) /\ Len(Subs(c)) \in Nat \ {0}
      /\ DOMAIN Subs(c) = 1 .. Len(Subs(c))
      /\ \A r \in ToSet(Subs(c)) : r \in Rid /\ Call(r) = c
  BY <1>2, CallOf DEF CallTypes
<1>4. /\ \A d : Subs(d)' = Subs(d)
      /\ \A r : Prefix(r)' <=> Prefix(r)
      /\ \A d : Stays(d)' <=> Stays(d)
  BY <1>1, ObjectsStay DEF Stays
<1>5. Subs(c)[1] \in ToSet(Subs(c))
  <2>1. 1 \in DOMAIN Subs(c) BY <1>3
  <2>2. QED BY <2>1 DEF ToSet
<1>6. Unsent(c) \subseteq ToSet(Subs(c))
  <2>1. Subs(c) \in Seq(Rid) BY <1>2, CallOf
  <2>2. Remaining(c) \in Nat /\ sent[c] + Remaining(c) = Len(Subs(c)) BY <1>3 DEF Remaining
  <2>3. ToSet(SubSeq(Subs(c), sent[c] + 1, sent[c] + Remaining(c))) \subseteq ToSet(Subs(c))
    BY <1>3, <2>1, <2>2, NextElements
  <2>4. QED BY <2>2, <2>3 DEF Unsent
<1>7. PICK k \in Nat, rids \in SUBSET ToSet(Subs(c)) :
        /\ sent[c] + k <= Len(Subs(c)) /\ SendAndRegister(c, k, rids)
        /\ \/ obj[c].invalid /\ pc' = [pc EXCEPT ![c] = "release"]
           \/ /\ ~obj[c].invalid /\ obj[c].parallel /\ rids = {Subs(c)[1]}
              /\ pc' = [pc EXCEPT ![c] = "prefix"]
           \/ ~obj[c].invalid /\ rids = {} /\ pc' = pc
           \/ ~obj[c].invalid /\ pc' = [pc EXCEPT ![c] = "wait"]
  <2>1. CASE TokenizeFails(c)
    <3>1. sent[c] = 0 BY <1>2, <2>1 DEF CallWaits, TokenizeFails
    <3>2. Remaining(c) - 1 \in Nat /\ sent[c] + (Remaining(c) - 1) <= Len(Subs(c))
      BY <1>3, <3>1 DEF Remaining
    <3>3. QED BY <2>1, <3>2 DEF TokenizeFails
  <2>2. CASE Send(c)
    <3>1. CASE obj[c].parallel /\ sent[c] = 0
      <4>1. SendAndRegister(c, 1, {Subs(c)[1]}) /\ pc' = [pc EXCEPT ![c] = "prefix"]
        BY <2>2, <3>1 DEF Send
      <4>2. 1 \in Nat /\ sent[c] + 1 <= Len(Subs(c)) /\ {Subs(c)[1]} \in SUBSET ToSet(Subs(c))
        BY <1>3, <1>5, <3>1
      <4>3. QED BY <2>2, <3>1, <4>1, <4>2 DEF Send
    <3>2. CASE ~(obj[c].parallel /\ sent[c] = 0) /\ SendAndRegister(c, 1, {}) /\ Remaining(c) > 1 /\ pc' = pc
      <4>1. 1 \in Nat /\ sent[c] + 1 <= Len(Subs(c)) BY <1>3, <3>2 DEF Remaining
      <4>2. QED BY <2>2, <3>2, <4>1 DEF Send
    <3>3. CASE \E rids \in {Unsent(c), ToSet(Subs(c))} :
                  SendAndRegister(c, Remaining(c), rids) /\ pc' = [pc EXCEPT ![c] = "wait"]
      <4>1. Remaining(c) \in Nat /\ sent[c] + Remaining(c) <= Len(Subs(c)) BY <1>3 DEF Remaining
      <4>2. PICK rids \in {Unsent(c), ToSet(Subs(c))} :
              SendAndRegister(c, Remaining(c), rids) /\ pc' = [pc EXCEPT ![c] = "wait"]
        BY <3>3
      <4>3. rids \in SUBSET ToSet(Subs(c)) BY <1>6
      <4>4. QED BY <2>2, <4>1, <4>2, <4>3 DEF Send
    <3>4. QED BY <2>2, <3>1, <3>2, <3>3 DEF Send
  <2>3. QED BY <2>1, <2>2
<1>8. /\ CallTypes' /\ EndsOnce' /\ PrefixEnds' /\ OneUpdate'
      /\ \A d \in Reader \ {c} : sent'[d] = sent[d]
      /\ sent'[c] = sent[c] + k
  BY <1>1, <1>7, SendAdds
<1>9. gen' = [r \in Rid |-> IF r \in rids THEN "waiting" ELSE gen[r]]
  BY <1>7 DEF SendAndRegister
<1>10. CallWaits'
  <2>1. \A d \in Reader \ {c} : pc'[d] = pc[d] /\ \A r \in ToSet(Subs(d)) : gen'[r] = gen[r]
    <3>1. \A d \in Reader \ {c} : pc'[d] = pc[d] BY <1>2, <1>7
    <3>2. \A d \in Reader \ {c} : \A r \in ToSet(Subs(d)) : r \in Rid /\ r \notin ToSet(Subs(c))
      BY <1>2, CallOf
    <3>3. QED BY <1>7, <1>9, <3>1, <3>2
  <2>2. \A r \in ToSet(Subs(c)) : gen'[r] = IF r \in rids THEN "waiting" ELSE gen[r]
    BY <1>3, <1>9
  <2>3. CASE obj[c].invalid /\ pc' = [pc EXCEPT ![c] = "release"]
    <3>1. ~Stays(c)' BY <1>1, <2>3 DEF Stays
    <3>2. QED BY <1>1, <1>2, <1>4, <1>8, <2>1, <2>3, <3>1 DEF CallWaits
  <2>4. CASE /\ ~obj[c].invalid /\ obj[c].parallel /\ rids = {Subs(c)[1]}
             /\ pc' = [pc EXCEPT ![c] = "prefix"]
    <3>1. Prefix(Subs(c)[1]) BY <1>3, <1>5, <2>4 DEF Prefix
    <3>2. QED BY <1>1, <1>2, <1>4, <1>8, <2>1, <2>2, <2>4, <3>1 DEF CallWaits
  <2>5. CASE ~obj[c].invalid /\ rids = {} /\ pc' = pc
    BY <1>1, <1>2, <1>4, <1>8, <2>1, <2>2, <2>5 DEF CallWaits
  <2>6. CASE ~obj[c].invalid /\ pc' = [pc EXCEPT ![c] = "wait"]
    BY <1>1, <1>2, <1>4, <1>8, <2>1, <2>2, <2>6 DEF CallWaits
  <2>7. QED BY <1>7, <2>3, <2>4, <2>5, <2>6
<1>11. QED BY <1>8, <1>10 DEF IdleInv

\* A generator that takes an output, gives up or goes on.
LEMMA GeneratorIdle ==
  ASSUME IdleInv, NEW r \in Rid, GenStep(r)
  PROVE  IdleInv'
<1>1. UNCHANGED <<obj, pc, sent, finished, gone, future, toTokenizer, running>>
  BY DEF GenStep, Wake, TimedOut, Resume, serverVars
<1>2. CallTypes /\ CallWaits /\ PrefixEnds BY DEF IdleInv
<1>3. event' \subseteq event BY DEF GenStep, Wake, TimedOut, Resume
<1>4. PICK g \in {"waiting", "yielded", "over", "raised"} :
        /\ gen' = [gen EXCEPT ![r] = g]
        /\ \/ g = "over" /\ r \in finished
           \/ g = "over" /\ gen[r] = "waiting" /\ r \in event \ finished /\ pc[Call(r)] # "wait"
           \/ g = "yielded" /\ pc[Call(r)] = "wait"
           \/ g = "raised" /\ Call(r) \in gone
           \/ g = gen[r] /\ gen[r] = "waiting"
           \/ g = "waiting" /\ gen[r] = "yielded"
  <2>1. gen[r] \in {"waiting", "yielded"} BY DEF GenStep, Wake, TimedOut, Resume
  <2>2. CASE gen' = gen
    <3>1. gen' = [gen EXCEPT ![r] = gen[r]] BY <1>2, <2>2 DEF CallTypes
    <3>2. CASE gen[r] = "waiting" BY <3>1, <3>2
    <3>3. CASE gen[r] = "yielded"
      <4>1. Resume(r) BY <3>3 DEF GenStep, Wake, TimedOut
      <4>2. QED BY <4>1 DEF Resume
    <3>4. QED BY <2>1, <3>2, <3>3
  <2>3. CASE gen' # gen BY <2>3 DEF GenStep, Wake, TimedOut, Resume
  <2>4. QED BY <2>2, <2>3
<1>5. gen' \in [Rid -> {"none", "waiting", "yielded", "over", "raised"}]
  BY <1>2, <1>4 DEF CallTypes
<1>6. toScheduler' \in Seq(SchedulerMsg) /\ QueuedOnce' /\ Queued' = Queued /\ Asking' = Asking
  <2>1. CASE Abort({r})
    <3>1. {r} \in SUBSET Rid /\ IsFiniteSet({r}) BY FS_EmptySet, FS_AddElement
    <3>2. QED BY <2>1, <3>1, AbortsAdded DEF IdleInv, CallTypes, EndsOnce
  <2>2. CASE toScheduler' = toScheduler BY <2>2, QueueStays DEF IdleInv, EndsOnce
  <2>3. QED BY <2>1, <2>2 DEF GenStep, Wake, TimedOut, Resume
<1>7. CallTypes' /\ EndsOnce' /\ PrefixEnds' /\ OneUpdate'
  BY <1>1, <1>3, <1>5, <1>6, CallSide DEF IdleInv, CallTypes
<1>8. CallWaits'
  <2>1. /\ \A d : Subs(d)' = Subs(d)
        /\ \A q : Prefix(q)' <=> Prefix(q)
        /\ \A d : Stays(d)' <=> Stays(d)
    BY <1>1, ObjectsStay DEF Stays
  <2>2. \A q \in Rid : gen'[q] = IF q = r THEN g ELSE gen[q] BY <1>2, <1>4 DEF CallTypes
  <2>3. \A d \in Reader : \A q \in ToSet(Subs(d)) : q \in Rid /\ Call(q) = d BY <1>2, CallOf
  <2>4. ASSUME NEW d \in Reader, Stays(d), r \in ToSet(Subs(d))
        PROVE  /\ pc[d] \in {"release", "background", "done"} => g = "over"
               /\ g \in {"waiting", "yielded"} => pc[d] = "wait" \/ (pc[d] = "prefix" /\ Prefix(r))
               /\ g = "over" => r \in finished
               /\ g # "raised"
    <3>1. Call(r) = d /\ d \notin gone BY <2>3, <2>4 DEF Stays
    <3>2. /\ gen[r] \in {"waiting", "yielded"} => pc[d] = "wait" \/ (pc[d] = "prefix" /\ Prefix(r))
          /\ pc[d] \in {"release", "background", "done"} => gen[r] = "over"
      BY <1>2, <2>4 DEF CallWaits
    <3>3. r \in event /\ Prefix(r) => r \in finished BY <1>2 DEF PrefixEnds
    <3>4. gen[r] \in {"waiting", "yielded"} BY DEF GenStep, Wake, TimedOut, Resume
    <3>5. QED BY <1>4, <3>1, <3>2, <3>3, <3>4
  <2>5. QED BY <1>1, <1>2, <2>1, <2>2, <2>3, <2>4 DEF CallWaits
<1>9. QED BY <1>7, <1>8 DEF IdleInv

\* An output or a result arrives: a request that has ended is known to have.
LEMMA LoopIdle ==
  ASSUME IdleInv, HandleLoop
  PROVE  IdleInv'
<1> DEFINE m == Head(toTokenizer)
<1>1. UNCHANGED <<obj, pc, sent, gen, gone, toScheduler, running>> /\ finished \subseteq finished'
  BY DEF HandleLoop, serverVars
<1>2. CallTypes /\ EndsOnce /\ PrefixEnds /\ CallWaits /\ OneUpdate BY DEF IdleInv
<1>3. toTokenizer # <<>> /\ toTokenizer' = Tail(toTokenizer) BY DEF HandleLoop
<1>4. /\ m \in TokenizerMsg /\ toTokenizer' \in Seq(TokenizerMsg)
      /\ Ending' \subseteq Ending /\ Partial' \subseteq Partial
      /\ \A r \in Rid : /\ m = Out(r, TRUE) => r \in Ending
                        /\ m = Out(r, FALSE) => r \in Partial
      /\ Telling = {} => Telling' = {}
      /\ \A i, j \in Telling' : i = j
      /\ m.kind = "updated" => Telling # {} /\ Telling' = {}
  BY <1>2, <1>3, AnswerTaken DEF CallTypes, OneUpdate
<1>5. \/ /\ m.kind = "out" /\ event' = event \cup {m.id}
         /\ finished' = IF m.fin THEN finished \cup {m.id} ELSE finished
         /\ future' = future
      \/ m.kind = "out" /\ UNCHANGED <<event, finished, future>>
      \/ m.kind = "updated" /\ future' = NoUpdate /\ UNCHANGED <<event, finished>>
  BY DEF HandleLoop
<1> HIDE DEF m
<1>6. m.kind = "out" => /\ m.id \in Rid /\ m.fin \in BOOLEAN /\ m = Out(m.id, m.fin)
                        /\ m.fin => m.id \in Ending
                        /\ ~m.fin => m.id \in Partial
  <2>1. m.kind = "out" => m.id \in Rid /\ m.fin \in BOOLEAN /\ m = Out(m.id, m.fin)
    BY <1>4 DEF TokenizerMsg, Out
  <2>2. QED BY <1>4, <2>1
<1>7. /\ \A c : Subs(c)' = Subs(c)
      /\ \A r : Call(r)' = Call(r) /\ (Prefix(r)' <=> Prefix(r))
  BY <1>1, ObjectsStay
<1>8. toScheduler' \in Seq(SchedulerMsg) /\ QueuedOnce' /\ Queued' = Queued /\ Asking' = Asking
  BY <1>1, <1>2, QueueStays DEF EndsOnce
<1>9. CallTypes' BY <1>1, <1>2, <1>4, <1>7, <1>8 DEF CallTypes
<1>10. EndsOnce'
  <2>1. Sent' = Sent BY <1>1, SentStays
  <2>2. finished' \subseteq finished \cup Ending BY <1>5, <1>6
  <2>3. QED BY <1>1, <1>2, <1>4, <1>8, <2>1, <2>2 DEF EndsOnce
<1>11. PrefixEnds' BY <1>2, <1>4, <1>5, <1>6, <1>7 DEF PrefixEnds
<1>12. CallWaits' BY <1>1, <1>2, CallsStay
<1>13. OneUpdate' BY <1>2, <1>4, <1>5, <1>8 DEF OneUpdate
<1>14. QED BY <1>9, <1>10, <1>11, <1>12, <1>13 DEF IdleInv

\* An update that enters finds none before it; what it asks is the only question.
LEMMA UpdateIdle ==
  ASSUME IdleInv, LockInv, PlacesMatchLock, NEW u \in Writer, UpdateStep(u)
  PROVE  IdleInv'
<1>1. UNCHANGED <<obj, callVars, gone, toTokenizer, serverVars>>
  BY DEF UpdateStep, EnterUpdate, LeaveUpdate
<1>2. UNCHANGED <<pc, sent, gen, finished, event, running>>
  BY <1>1 DEF callVars, serverVars
<1>3. CallTypes /\ EndsOnce /\ PrefixEnds /\ CallWaits /\ OneUpdate BY DEF IdleInv
<1>4. CallWaits' BY <1>1, <1>2, <1>3, CallsStay
<1>5. CASE toScheduler' = toScheduler /\ future' = future
  <2>1. toScheduler' \in Seq(SchedulerMsg) /\ QueuedOnce' /\ Queued' = Queued /\ Asking' = Asking
    BY <1>3, <1>5, QueueStays DEF EndsOnce
  <2>2. CallTypes' /\ EndsOnce' /\ PrefixEnds' /\ OneUpdate'
    BY <1>1, <1>2, <1>3, <1>5, <2>1, CallSide DEF CallTypes
  <2>3. QED BY <1>4, <2>2 DEF IdleInv
<1>6. CASE /\ AcquireWriter(u) /\ task'[u] = "in"
           /\ toScheduler' = Append(toScheduler, Msg("update", u)) /\ future' = u
  <2>1. ~writerActive
    <3>1. task[u] \in {"out", "woken"} /\ task \in [Task -> {"out", "asleep", "woken", "in"}]
      BY <1>6 DEF AcquireWriter, LockInv, LockTypeOK
    <3>2. QED BY <1>6, <3>1 DEF AcquireWriter, Task
  <2>2. future = NoUpdate
    <3>1. \A w \in Writer : task[w] # "in" BY <2>1 DEF LockInv, CountersAgree
    <3>2. \A w \in Writer : update[w] # "asked" BY <3>1 DEF PlacesMatchLock, UnderWay
    <3>3. QED BY <3>2 DEF PlacesMatchLock
  <2>3. Asking = {} /\ Telling = {} BY <1>3, <2>2 DEF OneUpdate
  <2> DEFINE s == <<Msg("update", u)>>
  <2>4. /\ s \in Seq(SchedulerMsg) /\ Len(s) = 1 /\ \A i \in DOMAIN s : s[i].kind # "req"
    <3>1. Msg("update", u) \in SchedulerMsg /\ Msg("update", u).kind # "req"
      BY DEF SchedulerMsg, Msg
    <3>2. QED BY <3>1
  <2>5. toScheduler' = toScheduler \o s BY <1>3, <1>6, <2>4 DEF CallTypes
  <2> HIDE DEF s
  <2>6. /\ toScheduler' \in Seq(SchedulerMsg) /\ QueuedOnce' /\ Queued' = Queued
        /\ \A i, j \in Asking' : i = j
    BY <1>3, <2>3, <2>4, <2>5, OthersAdded DEF CallTypes, EndsOnce
  <2>7. /\ \A c : Subs(c)' = Subs(c)
        /\ \A r : Call(r)' = Call(r) /\ (Prefix(r)' <=> Prefix(r))
    BY <1>1, ObjectsStay
  <2>8. Ending' = Ending /\ Partial' = Partial /\ Telling' = Telling
    BY <1>1 DEF Ending, Partial, Telling
  <2>9. Sent' = Sent BY <1>1, <1>2, SentStays
  <2>10. CallTypes' BY <1>1, <1>2, <1>3, <2>6, <2>7 DEF CallTypes
  <2>11. EndsOnce' BY <1>2, <1>3, <2>6, <2>8, <2>9 DEF EndsOnce
  <2>12. PrefixEnds' BY <1>2, <1>3, <2>7, <2>8 DEF PrefixEnds
  <2>13. OneUpdate'
    <3>1. future' # NoUpdate BY <1>6, WorkloadAssumption
    <3>2. QED BY <2>3, <2>6, <2>8, <3>1 DEF OneUpdate
  <2>14. QED BY <1>4, <2>10, <2>11, <2>12, <2>13 DEF IdleInv
<1>7. QED BY <1>5, <1>6 DEF UpdateStep, EnterUpdate, LeaveUpdate

\* The scheduler takes a message.  An update it takes is the only one on its way.
LEMMA ReceivesIdle ==
  ASSUME IdleInv, SchedulerReceives
  PROVE  IdleInv'
<1> DEFINE m == Head(toScheduler)
<1>1. UNCHANGED <<obj, pc, sent, gen, finished, event, gone, future>>
  BY DEF SchedulerReceives, callVars
<1>2. CallTypes /\ EndsOnce /\ PrefixEnds /\ CallWaits /\ OneUpdate BY DEF IdleInv
<1>3. toScheduler # <<>> /\ toScheduler' = Tail(toScheduler) BY DEF SchedulerReceives
<1>4. /\ m \in SchedulerMsg /\ toScheduler' \in Seq(SchedulerMsg) /\ QueuedOnce'
      /\ m.kind = "req" => m.id \in Queued /\ Queued' = Queued \ {m.id}
      /\ m.kind # "req" => Queued' = Queued
      /\ Asking = {} => Asking' = {}
      /\ \A i, j \in Asking' : i = j
      /\ m.kind = "update" => Asking # {} /\ Asking' = {}
  BY <1>2, <1>3, MessageTaken DEF CallTypes, EndsOnce, OneUpdate
<1>5. /\ \/ m.kind = "req" /\ running' = running \cup {m.id} /\ toTokenizer' = toTokenizer
         \/ m.kind = "abort" /\ running' \subseteq running /\ toTokenizer' = toTokenizer
         \/ m.kind = "update" /\ running' = running /\ UpdateWeights(m.id)
      /\ UpdateWeights(m.id) =>
           toTokenizer' = toTokenizer \/ toTokenizer' = Append(toTokenizer, Msg("updated", m.id))
  BY DEF SchedulerReceives, UpdateWeights, Answer
<1> HIDE DEF m
<1>6. /\ \A c : Subs(c)' = Subs(c)
      /\ \A r : Call(r)' = Call(r) /\ (Prefix(r)' <=> Prefix(r))
  BY <1>1, ObjectsStay
<1>7. Sent' = Sent BY <1>1, SentStays
<1>8. CallWaits' BY <1>1, <1>2, CallsStay
<1>9. /\ toTokenizer' \in Seq(TokenizerMsg)
      /\ \A r \in Rid : (r \in Ending' <=> r \in Ending) /\ (r \in Partial' <=> r \in Partial)
      /\ m.kind # "update" => Telling' = Telling
      /\ Telling = {} => \A i, j \in Telling' : i = j
      /\ \A i, j \in Telling' : i = j
  <2>1. CASE toTokenizer' = toTokenizer
    <3>1. Ending' = Ending /\ Partial' = Partial /\ Telling' = Telling
      BY <2>1 DEF Ending, Partial, Telling
    <3>2. QED BY <1>2, <2>1, <3>1 DEF CallTypes, OneUpdate
  <2>2. CASE m.kind = "update" /\ toTokenizer' = Append(toTokenizer, Msg("updated", m.id))
    <3> DEFINE a == Msg("updated", m.id)
    <3>1. m.id \in Writer BY <1>4, <2>2 DEF SchedulerMsg
    <3>2. a \in TokenizerMsg /\ a.kind = "updated" BY <3>1 DEF TokenizerMsg, Msg
    <3>3. \A r : a # Out(r, TRUE) /\ a # Out(r, FALSE) BY <3>2 DEF Out
    <3>4. toTokenizer' = Append(toTokenizer, a) BY <2>2
    <3> HIDE DEF a
    <3>5. /\ toTokenizer' \in Seq(TokenizerMsg)
          /\ \A r \in Rid : (r \in Ending' <=> r \in Ending) /\ (r \in Partial' <=> r \in Partial)
          /\ Telling = {} => \A i, j \in Telling' : i = j
      BY <1>2, <3>2, <3>3, <3>4, AnswerAdded DEF CallTypes
    <3>6. Telling = {} BY <1>2, <1>4, <2>2 DEF OneUpdate
    <3>7. QED BY <2>2, <3>5, <3>6
  <2>3. QED BY <1>5, <2>1, <2>2
<1>10. Ending' = Ending /\ Partial' = Partial
  <2>1. Ending' \subseteq Rid /\ Ending \subseteq Rid /\ Partial' \subseteq Rid /\ Partial \subseteq Rid
    BY DEF Ending, Partial
  <2>2. QED BY <1>9, <2>1
<1>11. CallTypes' BY <1>1, <1>2, <1>4, <1>6, <1>9 DEF CallTypes
<1>12. EndsOnce'
  <2>1. running' \cup Queued' \subseteq running \cup Queued BY <1>4, <1>5
  <2>2. running' \cap Queued' = {} BY <1>2, <1>4, <1>5 DEF EndsOnce
  <2>3. QED BY <1>1, <1>2, <1>4, <1>7, <1>10, <2>1, <2>2 DEF EndsOnce
<1>13. PrefixEnds' BY <1>1, <1>2, <1>6, <1>10 DEF PrefixEnds
<1>14. OneUpdate'
  <2>1. CASE m.kind = "update"
    <3>1. Asking' = {} /\ future # NoUpdate BY <1>2, <1>4, <2>1 DEF OneUpdate
    <3>2. QED BY <1>1, <1>9, <3>1 DEF OneUpdate
  <2>2. CASE m.kind # "update"
    <3>1. Telling' = Telling /\ (Asking' # {} => Asking # {}) BY <1>4, <1>9, <2>2
    <3>2. QED BY <1>1, <1>2, <1>4, <3>1 DEF OneUpdate
  <2>3. QED BY <2>1, <2>2
<1>15. QED BY <1>8, <1>11, <1>12, <1>13, <1>14 DEF IdleInv

\* The scheduler sends an output; the last one ends the request.
LEMMA SendsIdle ==
  ASSUME IdleInv, NEW r \in Rid, NEW fin \in BOOLEAN, SchedulerSends(r, fin)
  PROVE  IdleInv'
<1>1. UNCHANGED <<obj, pc, sent, gen, finished, event, gone, future, toScheduler>>
  BY DEF SchedulerSends, callVars
<1>2. CallTypes /\ EndsOnce /\ PrefixEnds /\ CallWaits /\ OneUpdate BY DEF IdleInv
<1> DEFINE m == Out(r, fin)
<1>3. /\ r \in running /\ toTokenizer' = Append(toTokenizer, m)
      /\ running' = IF fin THEN running \ {r} ELSE running
      /\ fin \/ ~Prefix(r)
  BY DEF SchedulerSends
<1>4. /\ m \in TokenizerMsg /\ m.kind # "updated"
      /\ \A q : (m = Out(q, TRUE) <=> q = r /\ fin) /\ (m = Out(q, FALSE) <=> q = r /\ ~fin)
  BY DEF Out, TokenizerMsg
<1> HIDE DEF m
<1>5. /\ toTokenizer' \in Seq(TokenizerMsg) /\ Telling' = Telling
      /\ \A q \in Rid : /\ q \in Ending' <=> q \in Ending \/ (q = r /\ fin)
                        /\ q \in Partial' <=> q \in Partial \/ (q = r /\ ~fin)
  BY <1>2, <1>3, <1>4, AnswerAdded DEF CallTypes
<1>6. Ending' \subseteq Rid /\ Partial' \subseteq Rid BY DEF Ending, Partial
<1>7. toScheduler' \in Seq(SchedulerMsg) /\ QueuedOnce' /\ Queued' = Queued /\ Asking' = Asking
  BY <1>1, <1>2, QueueStays DEF EndsOnce
<1>8. /\ \A c : Subs(c)' = Subs(c)
      /\ \A q : Call(q)' = Call(q) /\ (Prefix(q)' <=> Prefix(q))
  BY <1>1, ObjectsStay
<1>9. Sent' = Sent BY <1>1, SentStays
<1>10. CallTypes' BY <1>1, <1>2, <1>5, <1>7, <1>8 DEF CallTypes
<1>11. EndsOnce' BY <1>1, <1>2, <1>3, <1>5, <1>6, <1>7, <1>9 DEF EndsOnce
<1>12. PrefixEnds' BY <1>1, <1>2, <1>3, <1>5, <1>6, <1>8 DEF PrefixEnds
<1>13. CallWaits' BY <1>1, <1>2, CallsStay
<1>14. OneUpdate' BY <1>1, <1>2, <1>5, <1>7 DEF OneUpdate
<1>15. QED BY <1>10, <1>11, <1>12, <1>13, <1>14 DEF IdleInv

-----------------------------------------------------------------------------
\* Nothing is sent, queued or running at first.
LEMMA IdleInit == Init => IdleInv
<1> SUFFICES ASSUME Init PROVE IdleInv OBVIOUS
<1>1. /\ obj \in Workloads /\ gone = {} /\ event = {} /\ running = {} /\ finished = {}
      /\ toScheduler = <<>> /\ toTokenizer = <<>>
      /\ pc = [c \in Reader |-> "lock"] /\ sent = [c \in Reader |-> 0]
      /\ gen = [r \in Rid |-> "none"]
  BY DEF Init
<1>2. \A c \in Reader : Len(Subs(c)) \in Nat /\ ToSet(Subs(c)) \subseteq Rid
  <2> TAKE c \in Reader
  <2>1. Subs(c) \in Seq(Rid) BY <1>1, WorkloadAssumption DEF Object, Subs
  <2>2. QED BY <2>1 DEF ToSet
<1>3. CallTypes
  <2>1. \A c \in Reader : sent[c] = 0 BY <1>1
  <2>2. sent \in [Reader -> Nat] /\ gen \in [Rid -> {"none", "waiting", "yielded", "over", "raised"}]
    BY <1>1
  <2>3. toScheduler \in Seq(SchedulerMsg) /\ toTokenizer \in Seq(TokenizerMsg) BY <1>1
  <2>4. QED BY <1>1, <1>2, <2>1, <2>2, <2>3 DEF CallTypes
<1>4. Queued = {} /\ Ending = {} /\ Partial = {} /\ Asking = {} /\ Telling = {}
  BY <1>1 DEF Queued, Ending, Partial, Asking, Telling
<1>5. QueuedOnce BY <1>1 DEF QueuedOnce
<1>6. EndsOnce BY <1>1, <1>4, <1>5 DEF EndsOnce
<1>7. PrefixEnds BY <1>1, <1>4 DEF PrefixEnds
<1>8. CallWaits
  <2>1. \A c \in Reader : pc[c] = "lock" /\ sent[c] = 0 /\ \A r \in ToSet(Subs(c)) : gen[r] = "none"
    BY <1>1, <1>2
  <2>2. QED BY <2>1 DEF CallWaits
<1>9. OneUpdate BY <1>4 DEF OneUpdate
<1>10. QED BY <1>3, <1>6, <1>7, <1>8, <1>9 DEF IdleInv

\* Every step keeps the invariant.
LEMMA StepIdle ==
  ASSUME IdleInv, LockInv, PlacesMatchLock, [Next]_vars
  PROVE  IdleInv'
<1>1. ASSUME NEW c \in Reader, CallStep(c) \/ ClientLeaves(c) PROVE IdleInv'
  <2>1. CASE Send(c) \/ TokenizeFails(c) BY <2>1, CallSendsIdle
  <2>2. CASE ~(Send(c) \/ TokenizeFails(c)) BY <1>1, <2>2, CallMovesIdle DEF CallStep
  <2>3. QED BY <2>1, <2>2
<1>2. ASSUME NEW u \in Writer, UpdateStep(u) PROVE IdleInv' BY <1>2, UpdateIdle
<1>3. ASSUME NEW r \in Rid, GenStep(r) PROVE IdleInv' BY <1>3, GeneratorIdle
<1>4. ASSUME NEW r \in Rid, NEW fin \in BOOLEAN, SchedulerSends(r, fin) PROVE IdleInv'
  BY <1>4, SendsIdle
<1>5. CASE HandleLoop BY <1>5, LoopIdle
<1>6. CASE SchedulerReceives BY <1>6, ReceivesIdle
<1>7. CASE (\E r \in Rid : FlushedFails(r)) \/ UNCHANGED vars
  <2>1. UNCHANGED <<obj, pc, sent, gen, finished, event, gone, future, toScheduler, toTokenizer,
                    running>>
    BY <1>7 DEF FlushedFails, vars, callVars, serverVars
  <2>2. toScheduler' \in Seq(SchedulerMsg) /\ QueuedOnce' /\ Queued' = Queued /\ Asking' = Asking
    BY <2>1, QueueStays DEF IdleInv, EndsOnce
  <2>3. CallTypes' /\ EndsOnce' /\ PrefixEnds' /\ OneUpdate'
    BY <2>1, <2>2, CallSide DEF IdleInv, CallTypes
  <2>4. CallWaits' BY <2>1, CallsStay DEF IdleInv
  <2>5. QED BY <2>3, <2>4 DEF IdleInv
<1>8. QED BY <1>1, <1>2, <1>3, <1>4, <1>5, <1>6, <1>7 DEF Next, SchedulerStep

\* While a weight update is under way the scheduler runs no request whose call waits for it
\* (reader_lock in generate_request, writer_lock in update_weights_from_disk): its call has
\* ended, and a call ends before its requests only when its client has left or one of them
\* was refused.  It says nothing of requests that have ended and are still in the
\* scheduler's running batch; the assertion after flush_cache looks at those too.
THEOREM NoAnswerSpansUpdateHolds == Spec => []NoAnswerSpansUpdate
<1>1. Init => PlacesMatchLock
  BY DEF Init, LockInit, PlacesMatchLock, InProgress, UnderWay, Task
<1>2. LockTypeOK /\ PlacesMatchLock /\ [Next]_vars => PlacesMatchLock'
  BY StepKeepsPlaces
<1>3. IdleInv /\ LockInv /\ PlacesMatchLock /\ [Next]_vars => IdleInv'
  BY StepIdle
<1>4. Spec => []LockInv BY UsesLock, LockInvariant, PTL
<1>5. LockInv => LockTypeOK BY DEF LockInv
<1>6. IdleInv /\ PlacesMatchLock /\ UpdatesRunAlone => NoAnswerSpansUpdate
  <2> SUFFICES ASSUME IdleInv, PlacesMatchLock, UpdatesRunAlone,
                      NEW u \in Writer, update[u] \in UnderWay, NEW r \in running
               PROVE  Call(r) \in gone \/ obj[Call(r)].invalid
    BY DEF NoAnswerSpansUpdate
  <2>1. CallTypes /\ EndsOnce /\ CallWaits BY DEF IdleInv
  <2>2. PICK c \in Reader : r \in SentBy(c) BY <2>1 DEF EndsOnce, Sent
  <2>3. r \in ToSet(Subs(c)) /\ Call(r) = c BY <2>1, <2>2, SentOnce, CallOf
  <2>4. sent[c] # 0 BY <2>2 DEF SentBy
  <2>5. pc[c] \notin InProgress BY DEF UpdatesRunAlone
  <2>6. pc[c] \in {"background", "done"}
    BY <2>1, <2>4, <2>5 DEF PlacesMatchLock, CallWaits
  <2>7. ~Stays(c)
    <3>1. r \notin finished BY <2>1 DEF EndsOnce
    <3>2. QED BY <2>1, <2>3, <2>6, <3>1 DEF CallWaits
  <2>8. QED BY <2>3, <2>7 DEF Stays
<1>7. QED BY <1>1, <1>2, <1>3, <1>4, <1>5, <1>6, IdleInit, UpdatesAlone, PTL DEF Spec

=============================================================================
