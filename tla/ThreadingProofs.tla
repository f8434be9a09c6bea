--------------------------- MODULE ThreadingProofs ---------------------------
(***************************************************************************)
(* The two synchronisation primitives, for any number of users.            *)
(*                                                                         *)
(* The AsyncReaderWriterLock excludes writers, for any finite set of       *)
(* tasks, as long as no first reader is cancelled while it waits: the      *)
(* invariant LockInv is inductive and implies it, and every step is one of *)
(* the abstract lock or leaves it alone.                                   *)
(*                                                                         *)
(* The ParallelJobRunner, for any finite set of workers, any number of     *)
(* callers and any interleaving with Dispose(): the rendezvous of a job is *)
(* as JobInv describes it, and the runner implements the fork and join of  *)
(* ForkJoin.                                                               *)
(***************************************************************************)
EXTENDS AsyncReaderWriterLock, JobRunner, FiniteSetTheorems, SequenceTheorems, TLAPS

\* What moving one task does to the sets the invariant is about.
LEMMA Moved ==
  ASSUME TypeOK, NEW p \in Procs, NEW from, NEW to \in State, Go(p, from, to)
  PROVE  /\ pc[p] = from
         /\ pc' \in [Procs -> State]
         /\ pc'[p] = to
         /\ \A q \in Procs \ {p} : pc'[q] = pc[q]
BY DEF TypeOK, Go

\* The number of tasks that count changes with the task that joins or leaves.
LEMMA CountedOneMore ==
  ASSUME NEW S, IsFiniteSet(S), NEW p, p \notin S
  PROVE  /\ Cardinality(S \cup {p}) = Cardinality(S) + 1
         /\ Cardinality(S) \in Nat
BY FS_AddElement, FS_CardinalityType

LEMMA CountedOneLess ==
  ASSUME NEW S, IsFiniteSet(S), NEW p \in S
  PROVE  /\ Cardinality(S \ {p}) = Cardinality(S) - 1
         /\ Cardinality(S) \in Nat
BY FS_RemoveElement, FS_CardinalityType

LEMMA CountedFinite == IsFiniteSet(Counted)
BY ProcsAssumption, FS_Subset DEF Counted

\* The semaphores a task takes and the queues it joins keep their types.
LEMMA QueueTypes ==
  ASSUME TypeOK, NEW p \in Procs
  PROVE  /\ WaitRead(p) => readWait' \in Seq(Procs) /\ readCount' = readCount
         /\ WaitWrite(p) => writeWait' \in Seq(Procs) /\ writeCount' = writeCount
         /\ TakeRead(p) => readWait' \in Seq(Procs) /\ readCount = 1 /\ readCount' = 0
         /\ TakeWrite(p) => writeWait' \in Seq(Procs) /\ writeCount = 1 /\ writeCount' = 0
<1>1. WaitRead(p) => readWait' \in Seq(Procs) /\ readCount' = readCount
  BY AppendProperties DEF TypeOK, WaitRead
<1>2. WaitWrite(p) => writeWait' \in Seq(Procs) /\ writeCount' = writeCount
  BY AppendProperties DEF TypeOK, WaitWrite
<1>3. TakeRead(p) => readWait' \in Seq(Procs) /\ readCount = 1 /\ readCount' = 0
  BY HeadTailProperties DEF TypeOK, TakeRead
<1>4. TakeWrite(p) => writeWait' \in Seq(Procs) /\ writeCount = 1 /\ writeCount' = 0
  BY HeadTailProperties DEF TypeOK, TakeWrite
<1> QED
  BY <1>1, <1>2, <1>3, <1>4

-----------------------------------------------------------------------------
\* No task has taken a semaphore at the start.
LEMMA InitInv == Init => LockInv
<1> SUFFICES ASSUME Init PROVE LockInv
  OBVIOUS
<1>1. TypeOK
  BY DEF Init, TypeOK, State
<1>2. WriteTaken /\ ReadTaken
  BY DEF Init, WriteTaken, ReadTaken, WriteHolders, ReadHolders, Readers
<1>3. Counted = {}
  BY DEF Init, Counted
<1>4. ReadersCounted
  BY <1>3, FS_EmptySet DEF Init, ReadersCounted
<1> QED
  BY <1>1, <1>2, <1>4 DEF LockInv

\* AcquireWriterLock() keeps the invariant.
LEMMA AcquireWriterInv ==
  ASSUME LockInv, NEW p \in Procs, AcquireWriterLock(p)
  PROVE  LockInv'
<1> USE DEF LockInv
<1>0. TypeOK
  OBVIOUS
<1>1. CASE Go(p, "idle", "writerWaits") /\ WaitWrite(p) /\ UNCHANGED <<readSemaphore, readerCount>>
  <2>1. /\ pc[p] = "idle" /\ pc'[p] = "writerWaits" /\ pc' \in [Procs -> State]
        /\ \A q \in Procs \ {p} : pc'[q] = pc[q]
    BY <1>0, <1>1, Moved DEF State
  <2>2. /\ WriteHolders' = WriteHolders /\ ReadHolders' = ReadHolders
        /\ Readers' = Readers /\ Counted' = Counted
    BY <2>1 DEF WriteHolders, ReadHolders, Readers, Counted
  <2>3. TypeOK' /\ writeCount' = writeCount
    BY <1>0, <1>1, <2>1, QueueTypes DEF TypeOK, readSemaphore
  <2>4. WriteTaken' /\ ReadTaken'
    BY <1>1, <2>2, <2>3 DEF WriteTaken, ReadTaken, readSemaphore
  <2>5. ReadersCounted'
    BY <1>1, <2>1, <2>2 DEF ReadersCounted
  <2> QED
    BY <2>3, <2>4, <2>5
<1>2. CASE Go(p, "writerWaits", "writerWaitsReaders") /\ TakeWrite(p) /\ WaitRead(p)
           /\ UNCHANGED readerCount
  <2>1. /\ pc[p] = "writerWaits" /\ pc'[p] = "writerWaitsReaders" /\ pc' \in [Procs -> State]
        /\ \A q \in Procs \ {p} : pc'[q] = pc[q]
    BY <1>0, <1>2, Moved DEF State
  <2>2. /\ WriteHolders' = WriteHolders \cup {p} /\ ReadHolders' = ReadHolders
        /\ Readers' = Readers /\ Counted' = Counted
    BY <2>1 DEF WriteHolders, ReadHolders, Readers, Counted
  <2>3. TypeOK' /\ writeCount = 1 /\ writeCount' = 0 /\ readCount' = readCount
    BY <1>0, <1>2, <2>1, QueueTypes DEF TypeOK
  <2>4. WriteTaken' /\ ReadTaken'
    BY <2>2, <2>3 DEF WriteTaken, ReadTaken
  <2>5. ReadersCounted'
    BY <1>2, <2>1, <2>2 DEF ReadersCounted
  <2> QED
    BY <2>3, <2>4, <2>5
<1>3. CASE Go(p, "writerWaitsReaders", "writing") /\ TakeRead(p)
           /\ UNCHANGED <<writeSemaphore, readerCount>>
  <2>1. /\ pc[p] = "writerWaitsReaders" /\ pc'[p] = "writing" /\ pc' \in [Procs -> State]
        /\ \A q \in Procs \ {p} : pc'[q] = pc[q]
    BY <1>0, <1>3, Moved DEF State
  <2>2. /\ WriteHolders' = WriteHolders /\ ReadHolders' = ReadHolders \cup {p}
        /\ Readers' = Readers /\ Counted' = Counted
    BY <2>1 DEF WriteHolders, ReadHolders, Readers, Counted
  <2>3. TypeOK' /\ readCount = 1 /\ readCount' = 0 /\ writeCount' = writeCount
    BY <1>0, <1>3, <2>1, QueueTypes DEF TypeOK, writeSemaphore
  <2>4. WriteTaken' /\ ReadTaken'
    BY <2>2, <2>3 DEF WriteTaken, ReadTaken
  <2>5. ReadersCounted'
    BY <1>3, <2>1, <2>2 DEF ReadersCounted
  <2> QED
    BY <2>3, <2>4, <2>5
<1> QED
  BY <1>1, <1>2, <1>3 DEF AcquireWriterLock

\* ReleaseWriterLock() keeps the invariant.
LEMMA ReleaseWriterInv ==
  ASSUME LockInv, NEW p \in Procs, ReleaseWriterLock(p)
  PROVE  LockInv'
<1> USE DEF LockInv
<1>0. TypeOK
  OBVIOUS
<1>1. CASE Go(p, "writing", "writerReleases") /\ ReleaseRead
           /\ UNCHANGED <<writeSemaphore, readerCount>>
  <2>1. /\ pc[p] = "writing" /\ pc'[p] = "writerReleases" /\ pc' \in [Procs -> State]
        /\ \A q \in Procs \ {p} : pc'[q] = pc[q]
    BY <1>0, <1>1, Moved DEF State
  <2>2. /\ WriteHolders' = WriteHolders /\ ReadHolders' = ReadHolders \ {p}
        /\ Readers' = Readers /\ Counted' = Counted /\ p \in ReadHolders
    BY <2>1 DEF WriteHolders, ReadHolders, Readers, Counted
  <2>3. readCount = 0 /\ ReadHolders = {p} /\ Readers = {}
    BY <1>0, <2>2 DEF ReadTaken, TypeOK
  <2>4. TypeOK' /\ readCount' = 1 /\ writeCount' = writeCount
    BY <1>0, <1>1, <2>1, <2>3 DEF TypeOK, writeSemaphore, ReleaseRead
  <2>5. WriteTaken' /\ ReadTaken'
    BY <2>2, <2>3, <2>4 DEF WriteTaken, ReadTaken
  <2>6. ReadersCounted'
    BY <1>1, <2>1, <2>2 DEF ReadersCounted
  <2> QED
    BY <2>4, <2>5, <2>6
<1>2. CASE Go(p, "writerReleases", "idle") /\ ReleaseWrite
           /\ UNCHANGED <<readSemaphore, readerCount>>
  <2>1. /\ pc[p] = "writerReleases" /\ pc'[p] = "idle" /\ pc' \in [Procs -> State]
        /\ \A q \in Procs \ {p} : pc'[q] = pc[q]
    BY <1>0, <1>2, Moved DEF State
  <2>2. /\ WriteHolders' = WriteHolders \ {p} /\ ReadHolders' = ReadHolders
        /\ Readers' = Readers /\ Counted' = Counted /\ p \in WriteHolders
    BY <2>1 DEF WriteHolders, ReadHolders, Readers, Counted
  <2>3. writeCount = 0 /\ WriteHolders = {p}
    BY <1>0, <2>2 DEF WriteTaken, TypeOK
  <2>4. TypeOK' /\ writeCount' = 1 /\ readCount' = readCount
    BY <1>0, <1>2, <2>1, <2>3 DEF TypeOK, readSemaphore, ReleaseWrite
  <2>5. WriteTaken' /\ ReadTaken'
    BY <2>2, <2>3, <2>4 DEF WriteTaken, ReadTaken
  <2>6. ReadersCounted'
    BY <1>2, <2>1, <2>2 DEF ReadersCounted
  <2> QED
    BY <2>4, <2>5, <2>6
<1> QED
  BY <1>1, <1>2 DEF ReleaseWriterLock

\* AcquireReaderLock() keeps the invariant: the first reader takes the readSemaphore
\* for all, and the others know that it has got it.
LEMMA AcquireReaderInv ==
  ASSUME LockInv, NEW p \in Procs, AcquireReaderLock(p)
  PROVE  LockInv'
<1> USE DEF LockInv
<1>0. TypeOK /\ readerCount \in Nat
  BY DEF TypeOK
<1>1. CASE Go(p, "idle", "readerWaits") /\ WaitWrite(p)
           /\ UNCHANGED <<readSemaphore, readerCount>>
  <2>1. /\ pc[p] = "idle" /\ pc'[p] = "readerWaits" /\ pc' \in [Procs -> State]
        /\ \A q \in Procs \ {p} : pc'[q] = pc[q]
    BY <1>0, <1>1, Moved DEF State
  <2>2. /\ WriteHolders' = WriteHolders /\ ReadHolders' = ReadHolders
        /\ Readers' = Readers /\ Counted' = Counted
    BY <2>1 DEF WriteHolders, ReadHolders, Readers, Counted
  <2>3. TypeOK' /\ writeCount' = writeCount
    BY <1>0, <1>1, <2>1, QueueTypes DEF TypeOK, readSemaphore
  <2>4. WriteTaken' /\ ReadTaken'
    BY <1>1, <2>2, <2>3 DEF WriteTaken, ReadTaken, readSemaphore
  <2>5. ReadersCounted'
    BY <1>1, <2>1, <2>2 DEF ReadersCounted
  <2> QED
    BY <2>3, <2>4, <2>5
<1>2. CASE TakeWrite(p) /\ readerCount' = readerCount + 1 /\ IsFirstReader
           /\ Go(p, "readerWaits", "firstReaderWaits") /\ WaitRead(p)
  <2>1. /\ pc[p] = "readerWaits" /\ pc'[p] = "firstReaderWaits" /\ pc' \in [Procs -> State]
        /\ \A q \in Procs \ {p} : pc'[q] = pc[q]
    BY <1>0, <1>2, Moved DEF State
  <2>2. /\ WriteHolders' = WriteHolders \cup {p} /\ ReadHolders' = ReadHolders
        /\ Readers' = Readers /\ Counted' = Counted \cup {p} /\ p \notin Counted
    BY <2>1 DEF WriteHolders, ReadHolders, Readers, Counted
  <2>3. TypeOK' /\ writeCount = 1 /\ writeCount' = 0 /\ readCount' = readCount
    BY <1>0, <1>2, <2>1, QueueTypes DEF TypeOK
  <2>4. WriteTaken' /\ ReadTaken'
    BY <2>2, <2>3 DEF WriteTaken, ReadTaken
  <2>5. Cardinality(Counted) = 0 /\ readerCount' = 1
    BY <1>0, <1>2 DEF IsFirstReader, ReadersCounted
  <2>6. Counted = {}
    BY <2>5, CountedFinite, FS_EmptySet
  <2>7. Cardinality(Counted') = 1
    BY <2>2, <2>6, FS_Singleton
  <2>8. ReadersCounted'
    BY <2>2, <2>5, <2>6, <2>7, <2>1 DEF ReadersCounted, Counted
  <2> QED
    BY <2>3, <2>4, <2>8
<1>3. CASE TakeWrite(p) /\ readerCount' = readerCount + 1 /\ ~IsFirstReader
           /\ Go(p, "readerWaits", "readerReleases") /\ UNCHANGED readSemaphore
  <2>1. /\ pc[p] = "readerWaits" /\ pc'[p] = "readerReleases" /\ pc' \in [Procs -> State]
        /\ \A q \in Procs \ {p} : pc'[q] = pc[q]
    BY <1>0, <1>3, Moved DEF State
  <2>2. /\ WriteHolders' = WriteHolders \cup {p} /\ ReadHolders' = ReadHolders
        /\ Readers' = Readers \cup {p} /\ Counted' = Counted \cup {p} /\ p \notin Counted
    BY <2>1 DEF WriteHolders, ReadHolders, Readers, Counted
  <2>3. TypeOK' /\ writeCount = 1 /\ writeCount' = 0 /\ readCount' = readCount
    BY <1>0, <1>3, <2>1, QueueTypes DEF TypeOK, readSemaphore
  <2>4. Counted # {}
    <3>1. Cardinality(Counted) # 0
      BY <1>0, <1>3 DEF IsFirstReader, ReadersCounted
    <3> QED
      BY <3>1, FS_EmptySet
  <2>5. WriteHolders = {}
    BY <2>3 DEF WriteTaken
  <2>6. Readers # {}
    BY <2>4, <2>5 DEF Counted, Readers, WriteHolders
  <2>7. WriteTaken' /\ ReadTaken'
    BY <2>2, <2>3, <2>5, <2>6 DEF WriteTaken, ReadTaken
  <2>8. \A q \in Procs : pc'[q] # "firstReaderWaits"
    BY <2>1, <2>5 DEF WriteHolders
  <2>9. readerCount' = Cardinality(Counted')
    BY <1>3, <2>2, CountedFinite, CountedOneMore DEF ReadersCounted
  <2> QED
    BY <2>3, <2>7, <2>8, <2>9 DEF ReadersCounted
<1>4. CASE Go(p, "firstReaderWaits", "readerReleases") /\ TakeRead(p)
           /\ UNCHANGED <<writeSemaphore, readerCount>>
  <2>1. /\ pc[p] = "firstReaderWaits" /\ pc'[p] = "readerReleases" /\ pc' \in [Procs -> State]
        /\ \A q \in Procs \ {p} : pc'[q] = pc[q]
    BY <1>0, <1>4, Moved DEF State
  <2>2. /\ WriteHolders' = WriteHolders /\ ReadHolders' = ReadHolders
        /\ Readers' = Readers \cup {p} /\ Counted' = Counted
    BY <2>1 DEF WriteHolders, ReadHolders, Readers, Counted
  <2>3. TypeOK' /\ readCount = 1 /\ readCount' = 0 /\ writeCount' = writeCount
    BY <1>0, <1>4, <2>1, QueueTypes DEF TypeOK, writeSemaphore
  <2>4. WriteTaken' /\ ReadTaken'
    BY <2>2, <2>3 DEF WriteTaken, ReadTaken
  <2>5. ReadersCounted'
    BY <1>4, <2>1, <2>2 DEF ReadersCounted
  <2> QED
    BY <2>3, <2>4, <2>5
<1>5. CASE Go(p, "readerReleases", "reading") /\ ReleaseWrite
           /\ UNCHANGED <<readSemaphore, readerCount>>
  <2>1. /\ pc[p] = "readerReleases" /\ pc'[p] = "reading" /\ pc' \in [Procs -> State]
        /\ \A q \in Procs \ {p} : pc'[q] = pc[q]
    BY <1>0, <1>5, Moved DEF State
  <2>2. /\ WriteHolders' = WriteHolders \ {p} /\ ReadHolders' = ReadHolders
        /\ Readers' = Readers /\ Counted' = Counted /\ p \in WriteHolders
    BY <2>1 DEF WriteHolders, ReadHolders, Readers, Counted
  <2>3. writeCount = 0 /\ WriteHolders = {p}
    BY <1>0, <2>2 DEF WriteTaken, TypeOK
  <2>4. TypeOK' /\ writeCount' = 1 /\ readCount' = readCount
    BY <1>0, <1>5, <2>1, <2>3 DEF TypeOK, readSemaphore, ReleaseWrite
  <2>5. WriteTaken' /\ ReadTaken'
    BY <2>2, <2>3, <2>4 DEF WriteTaken, ReadTaken
  <2>6. ReadersCounted'
    BY <1>5, <2>1, <2>2 DEF ReadersCounted
  <2> QED
    BY <2>4, <2>5, <2>6
<1> QED
  BY <1>1, <1>2, <1>3, <1>4, <1>5 DEF AcquireReaderLock

\* ReleaseReaderLock() keeps the invariant: the last reader gives the readSemaphore back.
LEMMA ReleaseReaderInv ==
  ASSUME LockInv, NEW p \in Procs, ReleaseReaderLock(p)
  PROVE  LockInv'
<1> USE DEF LockInv
<1>0. TypeOK /\ readerCount \in Nat
  BY DEF TypeOK
<1>1. ASSUME NEW to \in {"lastReader", "idle"}, Go(p, "reading", to),
             readerCount' = readerCount - 1, IsLastReader <=> to = "lastReader",
             UNCHANGED <<readSemaphore, writeSemaphore>>
      PROVE  LockInv'
  <2>1. /\ pc[p] = "reading" /\ pc'[p] = to /\ pc' \in [Procs -> State]
        /\ \A q \in Procs \ {p} : pc'[q] = pc[q]
    BY <1>0, <1>1, Moved DEF State
  <2>2. /\ WriteHolders' = WriteHolders /\ p \in Readers
        /\ Readers' = Readers \ {p} /\ Counted' = Counted \ {p} /\ p \in Counted
        /\ ReadHolders' = IF to = "lastReader" THEN ReadHolders \cup {p} ELSE ReadHolders
    BY <1>1, <2>1 DEF WriteHolders, ReadHolders, Readers, Counted
  <2>3. readerCount' = Cardinality(Counted') /\ readerCount' \in Nat
    BY <1>1, <2>2, CountedFinite, CountedOneLess, FS_RemoveElement, FS_CardinalityType, FS_Subset
       DEF ReadersCounted
  <2>4. TypeOK' /\ readCount' = readCount /\ writeCount' = writeCount
    BY <1>0, <1>1, <2>1, <2>3 DEF TypeOK, readSemaphore, writeSemaphore
  <2>5. readCount = 0 /\ ReadHolders = {}
    BY <1>0, <2>2 DEF ReadTaken, TypeOK
  <2>6. \A q \in Procs : pc[q] # "firstReaderWaits"
    BY <2>1, <2>2 DEF ReadersCounted
  <2>7. Readers = Counted
    BY <2>6 DEF Readers, Counted
  <2>8. IsFiniteSet(Counted')
    BY <2>2, CountedFinite, FS_RemoveElement
  <2>9. IsLastReader <=> Readers' = {}
    BY <2>2, <2>3, <2>7, <2>8, FS_EmptySet DEF IsLastReader
  <2>10. WriteTaken'
    BY <2>2, <2>4 DEF WriteTaken
  <2>11. ReadTaken'
    BY <1>1, <2>2, <2>4, <2>5, <2>9 DEF ReadTaken
  <2>12. ReadersCounted'
    BY <1>1, <2>1, <2>3, <2>6 DEF ReadersCounted
  <2> QED
    BY <2>4, <2>10, <2>11, <2>12
<1>2. CASE Go(p, "lastReader", "idle") /\ ReleaseRead
           /\ UNCHANGED <<writeSemaphore, readerCount>>
  <2>1. /\ pc[p] = "lastReader" /\ pc'[p] = "idle" /\ pc' \in [Procs -> State]
        /\ \A q \in Procs \ {p} : pc'[q] = pc[q]
    BY <1>0, <1>2, Moved DEF State
  <2>2. /\ WriteHolders' = WriteHolders /\ ReadHolders' = ReadHolders \ {p}
        /\ Readers' = Readers /\ Counted' = Counted /\ p \in ReadHolders
    BY <2>1 DEF WriteHolders, ReadHolders, Readers, Counted
  <2>3. readCount = 0 /\ ReadHolders = {p} /\ Readers = {}
    BY <1>0, <2>2 DEF ReadTaken, TypeOK
  <2>4. TypeOK' /\ readCount' = 1 /\ writeCount' = writeCount
    BY <1>0, <1>2, <2>1, <2>3 DEF TypeOK, writeSemaphore, ReleaseRead
  <2>5. WriteTaken' /\ ReadTaken'
    BY <2>2, <2>3, <2>4 DEF WriteTaken, ReadTaken
  <2>6. ReadersCounted'
    BY <1>2, <2>1, <2>2 DEF ReadersCounted
  <2> QED
    BY <2>4, <2>5, <2>6
<1> QED
  BY <1>1, <1>2 DEF ReleaseReaderLock

\* A task that leaves a queue leaves a queue of tasks.
LEMMA LeaveType ==
  ASSUME NEW wait \in Seq(Procs), NEW p, NEW i \in 1..Len(wait)
  PROVE  RemoveAt(wait, i) \in Seq(Procs)
<1>1. SubSeq(wait, 1, i - 1) \in Seq(Procs)
  BY SubSeqProperties
<1>2. SubSeq(wait, i + 1, Len(wait)) \in Seq(Procs)
  BY SubSeqProperties
<1> QED
  BY <1>1, <1>2, ConcatProperties DEF RemoveAt

\* A cancelled wait keeps the invariant, but for that of a first reader.
LEMMA CancelInv ==
  ASSUME LockInv, NEW p \in Procs, Cancel(p), FirstReaderNotCancelled
  PROVE  LockInv'
<1> USE DEF LockInv
<1>0. TypeOK
  OBVIOUS
<1>1. PICK from \in {"writerWaits", "readerWaits", "writerWaitsReaders"},
           to \in {"idle", "cancelled"} :
        /\ Go(p, from, to)
        /\ to = "cancelled" <=> from = "writerWaitsReaders"
  <2>1. ~Go(p, "firstReaderWaits", "cancelled")
    <3>1. SUFFICES ASSUME Go(p, "firstReaderWaits", "cancelled") PROVE FALSE
      OBVIOUS
    <3>2. pc[p] = "firstReaderWaits" /\ pc'[p] = "cancelled"
      BY <1>0, <3>1, Moved DEF State
    <3> QED
      BY <3>2 DEF FirstReaderNotCancelled
  <2> QED
    BY <2>1 DEF Cancel
<1>2. /\ pc[p] = from /\ pc'[p] = to /\ pc' \in [Procs -> State]
      /\ \A q \in Procs \ {p} : pc'[q] = pc[q]
  BY <1>0, <1>1, Moved DEF State
<1>3. /\ WriteHolders' = WriteHolders /\ ReadHolders' = ReadHolders
      /\ Readers' = Readers /\ Counted' = Counted
  BY <1>1, <1>2 DEF WriteHolders, ReadHolders, Readers, Counted
<1>4. readWait' \in Seq(Procs) /\ writeWait' \in Seq(Procs)
  BY <1>0, LeaveType DEF Cancel, Leave, TypeOK, readSemaphore, writeSemaphore
<1>5. UNCHANGED <<readCount, writeCount, readerCount>>
  BY DEF Cancel, readSemaphore, writeSemaphore
<1>6. TypeOK'
  BY <1>0, <1>2, <1>4, <1>5 DEF TypeOK
<1>7. WriteTaken' /\ ReadTaken'
  BY <1>3, <1>5 DEF WriteTaken, ReadTaken
<1>8. ReadersCounted'
  BY <1>1, <1>2, <1>3, <1>5 DEF ReadersCounted
<1> QED
  BY <1>6, <1>7, <1>8

\* Every step keeps the invariant.
LEMMA NextInv ==
  ASSUME LockInv, [Next /\ FirstReaderNotCancelled]_vars
  PROVE  LockInv'
<1>1. CASE UNCHANGED vars
  BY <1>1 DEF vars, LockInv, TypeOK, WriteTaken, ReadTaken, ReadersCounted, WriteHolders,
              ReadHolders, Readers, Counted
<1>2. ASSUME NEW p \in Procs, Acquire(p) \/ Release(p) PROVE LockInv'
  <2>1. CASE AcquireWriterLock(p)
    BY <2>1, AcquireWriterInv
  <2>2. CASE AcquireReaderLock(p)
    BY <2>2, AcquireReaderInv
  <2>3. CASE SafeAcquireReadSemaphore(p)
    <3>1. p \in WriteHolders /\ pc[p] = "cancelled"
      BY <2>3 DEF SafeAcquireReadSemaphore, Go, WriteHolders
    <3>2. pc' = [pc EXCEPT ![p] = "idle"] /\ Go(p, "cancelled", "idle")
      BY <2>3 DEF SafeAcquireReadSemaphore, Go
    <3>3. TypeOK
      BY DEF LockInv
    <3>4. /\ pc' \in [Procs -> State] /\ pc'[p] = "idle"
          /\ \A q \in Procs \ {p} : pc'[q] = pc[q]
      BY <3>2, <3>3, Moved DEF State
    <3>5. /\ WriteHolders' = WriteHolders \ {p} /\ ReadHolders' = ReadHolders
          /\ Readers' = Readers /\ Counted' = Counted
      BY <3>1, <3>4 DEF WriteHolders, ReadHolders, Readers, Counted
    <3>6. writeCount = 0 /\ WriteHolders = {p}
      BY <3>1, <3>3 DEF LockInv, WriteTaken, TypeOK
    <3>7. /\ writeCount' = writeCount + 1
          /\ UNCHANGED <<readCount, readWait, writeWait, readerCount>>
      BY <2>3 DEF SafeAcquireReadSemaphore, ReleaseWrite, readSemaphore
    <3>8. TypeOK'
      BY <3>3, <3>4, <3>6, <3>7 DEF TypeOK
    <3>9. WriteTaken' /\ ReadTaken'
      BY <3>5, <3>6, <3>7 DEF LockInv, WriteTaken, ReadTaken
    <3>10. ReadersCounted'
      BY <3>4, <3>5, <3>7 DEF LockInv, ReadersCounted
    <3> QED
      BY <3>8, <3>9, <3>10 DEF LockInv
  <2>4. CASE ReleaseWriterLock(p)
    BY <2>4, ReleaseWriterInv
  <2>5. CASE ReleaseReaderLock(p)
    BY <2>5, ReleaseReaderInv
  <2> QED
    BY <1>2, <2>1, <2>2, <2>3, <2>4, <2>5 DEF Acquire, Release
<1>3. ASSUME NEW p \in Procs, Cancel(p), FirstReaderNotCancelled PROVE LockInv'
  BY <1>3, CancelInv
<1> QED
  BY <1>1, <1>2, <1>3 DEF Next

\* A writer has taken the readSemaphore for itself, so no other task has it.
LEMMA InvExcludes == LockInv => MutualExclusion
BY DEF LockInv, TypeOK, ReadTaken, MutualExclusion, ReadHolders, Writers

-----------------------------------------------------------------------------
\* The semaphores of the lock are taken exactly while a task holds them, and
\* readerCount counts the readers.
THEOREM LockCorrect == SafeSpec => []LockInv
<1>1. LockInv /\ [Next /\ FirstReaderNotCancelled]_vars => LockInv'
  BY NextInv
<1> QED
  BY InitInv, <1>1, PTL DEF SafeSpec

\* While one task writes nobody else writes or reads (AcquireWriterLock,
\* AcquireReaderLock).
THEOREM MutualExclusionCorrect == SafeSpec => []MutualExclusion
BY LockCorrect, InvExcludes, PTL

-----------------------------------------------------------------------------
\* A step of a task is one of the abstract lock, or none.
LEMMA StepRefines ==
  ASSUME LockInv, NEW p \in Procs, Acquire(p) \/ Release(p) \/ Cancel(p)
  PROVE  \/ RW!Read(p) \/ RW!Write(p) \/ RW!DoneReading(p) \/ RW!DoneWriting(p)
         \/ UNCHANGED <<Readers, Writers>>
<1> USE DEF LockInv
<1>0. TypeOK
  OBVIOUS
<1> DEFINE Stays(from, to) == /\ from \notin {"readerReleases", "reading", "writing"}
                              /\ to \notin {"readerReleases", "reading", "writing"}
<1>1. ASSUME NEW from, NEW to \in State, Go(p, from, to), Stays(from, to)
      PROVE  UNCHANGED <<Readers, Writers>>
  <2>1. /\ pc[p] = from /\ pc'[p] = to /\ \A q \in Procs \ {p} : pc'[q] = pc[q]
    BY <1>0, <1>1, Moved
  <2> QED
    BY <1>1, <2>1 DEF Readers, Writers
<1>2. ASSUME Go(p, "writerWaitsReaders", "writing"), TakeRead(p)
      PROVE  RW!Write(p)
  <2>1. /\ pc[p] = "writerWaitsReaders" /\ pc'[p] = "writing"
        /\ \A q \in Procs \ {p} : pc'[q] = pc[q]
    BY <1>0, <1>2, Moved DEF State
  <2>2. readCount = 1
    BY <1>0, <1>2, QueueTypes
  <2>3. Writers = {} /\ Readers = {}
    BY <2>2 DEF ReadTaken, Writers, ReadHolders
  <2>4. Writers' = {p} /\ Readers' = Readers
    BY <2>1, <2>3 DEF Writers, Readers
  <2> QED
    BY <2>3, <2>4 DEF RW!Write
<1>3. ASSUME NEW from, Go(p, from, "readerReleases"), Writers = {},
             from \in {"readerWaits", "firstReaderWaits"}
      PROVE  RW!Read(p)
  <2>1. /\ pc[p] = from /\ pc'[p] = "readerReleases"
        /\ \A q \in Procs \ {p} : pc'[q] = pc[q]
    BY <1>0, <1>3, Moved DEF State
  <2>2. Writers' = Writers /\ Readers' = Readers \cup {p}
    BY <1>3, <2>1 DEF Writers, Readers
  <2> QED
    BY <1>3, <2>2 DEF RW!Read
<1>4. ASSUME NEW to \in {"lastReader", "idle"}, Go(p, "reading", to)
      PROVE  RW!DoneReading(p)
  <2>1. /\ pc[p] = "reading" /\ pc'[p] = to /\ \A q \in Procs \ {p} : pc'[q] = pc[q]
    BY <1>0, <1>4, Moved DEF State
  <2>2. p \in Readers /\ Readers' = Readers \ {p} /\ Writers' = Writers
    BY <1>4, <2>1 DEF Readers, Writers
  <2> QED
    BY <2>2 DEF RW!DoneReading
<1>5. ASSUME Go(p, "writing", "writerReleases")
      PROVE  RW!DoneWriting(p)
  <2>1. /\ pc[p] = "writing" /\ pc'[p] = "writerReleases"
        /\ \A q \in Procs \ {p} : pc'[q] = pc[q]
    BY <1>0, <1>5, Moved DEF State
  <2>2. p \in Writers /\ Writers = {p}
    BY <2>1, InvExcludes DEF MutualExclusion, Writers
  <2>3. Writers' = {} /\ Readers' = Readers
    BY <2>1, <2>2 DEF Writers, Readers
  <2> QED
    BY <2>2, <2>3 DEF RW!DoneWriting
<1>6. CASE AcquireWriterLock(p)
  BY <1>1, <1>2, <1>6 DEF AcquireWriterLock, State
<1>7. CASE AcquireReaderLock(p)
  <2>1. CASE TakeWrite(p) /\ ~IsFirstReader /\ Go(p, "readerWaits", "readerReleases")
    <3>1. writeCount = 1
      BY <1>0, <2>1, QueueTypes
    <3>2. Writers = {}
      BY <3>1 DEF WriteTaken, WriteHolders, Writers
    <3> QED
      BY <1>3, <2>1, <3>2
  <2>2. CASE Go(p, "firstReaderWaits", "readerReleases") /\ TakeRead(p)
    <3>1. readCount = 1
      BY <1>0, <2>2, QueueTypes
    <3>2. Writers = {}
      BY <3>1 DEF ReadTaken, ReadHolders, Writers
    <3> QED
      BY <1>3, <2>2, <3>2
  <2>3. CASE Go(p, "readerReleases", "reading")
    <3>1. /\ pc[p] = "readerReleases" /\ pc'[p] = "reading"
          /\ \A q \in Procs \ {p} : pc'[q] = pc[q]
      BY <1>0, <2>3, Moved DEF State
    <3> QED
      BY <3>1 DEF Readers, Writers
  <2>4. CASE Go(p, "idle", "readerWaits") \/ Go(p, "readerWaits", "firstReaderWaits")
    BY <1>1, <2>4 DEF State
  <2> QED
    BY <1>7, <2>1, <2>2, <2>3, <2>4 DEF AcquireReaderLock
<1>8. CASE SafeAcquireReadSemaphore(p)
  BY <1>1, <1>8 DEF SafeAcquireReadSemaphore, State
<1>9. CASE ReleaseWriterLock(p)
  BY <1>1, <1>5, <1>9 DEF ReleaseWriterLock, State
<1>10. CASE ReleaseReaderLock(p)
  BY <1>1, <1>4, <1>10 DEF ReleaseReaderLock, State
<1>11. CASE Cancel(p)
  BY <1>1, <1>11 DEF Cancel, State
<1> QED
  BY <1>6, <1>7, <1>8, <1>9, <1>10, <1>11 DEF Acquire, Release

\* The two semaphores and the counter implement a lock for multiple readers or a
\* single writer.
THEOREM LockImplementsReaderWriter == SafeSpec => ImplementsReaderWriter
<1>1. Init => RW!Init
  BY DEF Init, RW!Init, Readers, Writers
<1>2. LockInv /\ [Next /\ FirstReaderNotCancelled]_vars => [RW!Next]_(RW!vars)
  <2> SUFFICES ASSUME LockInv, [Next]_vars
               PROVE  RW!Next \/ UNCHANGED <<Readers, Writers>>
    BY DEF RW!vars
  <2>1. CASE UNCHANGED vars
    BY <2>1 DEF vars, Readers, Writers
  <2>2. ASSUME NEW p \in Procs, Acquire(p) \/ Release(p) \/ Cancel(p)
        PROVE  RW!Next \/ UNCHANGED <<Readers, Writers>>
    BY <2>2, StepRefines DEF RW!Next
  <2> QED
    BY <2>1, <2>2 DEF Next
<1> QED
  BY <1>1, <1>2, LockCorrect, PTL DEF SafeSpec, RW!Spec, ImplementsReaderWriter

-----------------------------------------------------------------------------
(***************************************************************************)
(* The job runner.                                                         *)
(***************************************************************************)
LEMMA CountedSubset ==
  /\ IsFiniteSet(CountedWorkers) /\ Cardinality(CountedWorkers) \in 0..workerCount
  /\ workerCount \in Nat
  /\ Cardinality(CountedWorkers) = workerCount => CountedWorkers = Workers
<1>1. CountedWorkers \subseteq Workers /\ IsFiniteSet(Workers)
  BY JobRunnerAssumption DEF CountedWorkers
<1>2. IsFiniteSet(CountedWorkers) /\ Cardinality(CountedWorkers) <= workerCount
      /\ (Cardinality(CountedWorkers) = workerCount => CountedWorkers = Workers)
  BY <1>1, FS_Subset DEF workerCount
<1>3. Cardinality(CountedWorkers) \in Nat /\ workerCount \in Nat
  BY <1>1, <1>2, FS_CardinalityType DEF workerCount
<1> QED
  BY <1>2, <1>3

\* The runner before its first job.
LEMMA RunnerInitInv == RunnerInit => JobInv
<1> SUFFICES ASSUME RunnerInit PROVE JobInv
  OBVIOUS
<1>1. TypeInv
  <2>1. finishedWorkerCount \in 0..workerCount
    BY CountedSubset DEF RunnerInit
  <2>2. workerStep \in [Workers -> WorkerSteps] /\ barrier \in [Workers -> Nat]
    BY DEF RunnerInit, WorkerSteps
  <2>3. outcome \in [Callers -> SUBSET Tasks]
    BY DEF RunnerInit
  <2> QED
    BY <2>1, <2>2, <2>3 DEF RunnerInit, TypeInv, Steps
<1>2. RendezvousInv
  BY DEF RunnerInit, RendezvousInv, Executing, Closing
<1>3. \A w \in Workers : WorkerInv(w)
  BY DEF RunnerInit, WorkerInv, Executing, Closing, CountedWorkers, Spinning
<1> QED
  BY <1>1, <1>2, <1>3 DEF JobInv

-----------------------------------------------------------------------------
(***************************************************************************)
(* The caller.  No worker moves, except that the first job starts them.    *)
(***************************************************************************)
\* Only the first job starts the workers: none has counted itself.
LEMMA ExecuteJobInv ==
  ASSUME JobInv, NEW c \in Callers, ExecuteJob(c)
  PROVE  JobInv'
<1> USE DEF ExecuteJob, Goto
<1>1. TypeInv'
  BY JobRunnerAssumption DEF JobInv, TypeInv, Steps, WorkerSteps, Tasks
<1>2. RendezvousInv'
  BY DEF JobInv, TypeInv, RendezvousInv, Executing, Closing
<1>3. ASSUME NEW w \in Workers PROVE WorkerInv(w)'
  <2>1. WorkerInv(w) /\ step = "idle" /\ step' = "count"
    BY DEF JobInv
  <2>2. CASE workersStarted
    BY <2>1, <2>2 DEF JobInv, TypeInv, WorkerInv, Executing, Closing, CountedWorkers, Spinning
  <2>3. CASE ~workersStarted
    BY <2>1, <2>3 DEF JobInv, TypeInv, WorkerInv, Executing, Closing, CountedWorkers, Spinning
  <2> QED
    BY <2>2, <2>3
<1> QED
  BY <1>1, <1>2, <1>3 DEF JobInv

LEMMA ClearCountInv == JobInv /\ ClearCount => JobInv'
<1> SUFFICES ASSUME JobInv, ClearCount PROVE JobInv'
  OBVIOUS
<1> USE DEF ClearCount, Goto
<1>0. CountedWorkers' = CountedWorkers /\ (AllSpinning' <=> AllSpinning)
  BY DEF CountedWorkers, AllSpinning, Spinning
<1>1. TypeInv'
  BY CountedSubset DEF JobInv, TypeInv, Steps, jobVars
<1>2. \A w \in Workers : w \notin CountedWorkers
  BY DEF JobInv, WorkerInv, Executing, Closing
<1>3. Cardinality(CountedWorkers) = 0
  BY <1>2, FS_EmptySet DEF CountedWorkers
<1>4. RendezvousInv'
  BY <1>0, <1>3 DEF JobInv, RendezvousInv, Executing, Closing, jobVars
<1>5. \A w \in Workers : WorkerInv(w)'
  BY <1>0 DEF JobInv, WorkerInv, Executing, Closing, Spinning, jobVars
<1> QED
  BY <1>1, <1>4, <1>5 DEF JobInv

LEMMA StartInv == JobInv /\ Start => JobInv'
<1> SUFFICES ASSUME JobInv, Start PROVE JobInv'
  OBVIOUS
<1> USE DEF Start, Goto
<1>0. CountedWorkers' = CountedWorkers /\ (AllSpinning' <=> AllSpinning)
  BY DEF CountedWorkers, AllSpinning, Spinning
<1>1. TypeInv'
  BY DEF JobInv, TypeInv, Steps, jobVars
<1>2. RendezvousInv'
  BY <1>0 DEF JobInv, RendezvousInv, Executing, Closing, jobVars
<1>3. \A w \in Workers : WorkerInv(w)'
  BY <1>0 DEF JobInv, WorkerInv, RendezvousInv, Executing, Closing, CountedWorkers, Spinning, jobVars
<1> QED
  BY <1>1, <1>2, <1>3 DEF JobInv

LEMMA CallerTaskInv == JobInv /\ CallerTask => JobInv'
<1> SUFFICES ASSUME JobInv, CallerTask PROVE JobInv'
  OBVIOUS
<1> USE DEF CallerTask, Goto, ExecuteTask
<1>0. CountedWorkers' = CountedWorkers /\ (AllSpinning' <=> AllSpinning)
  BY DEF CountedWorkers, AllSpinning, Spinning
<1>1. TypeInv'
  BY DEF JobInv, TypeInv, Steps, Tasks
<1>2. RendezvousInv'
  BY <1>0 DEF JobInv, RendezvousInv, Executing, Closing
<1>3. \A w \in Workers : WorkerInv(w)'
  BY <1>0, JobRunnerAssumption DEF JobInv, WorkerInv, Executing, Closing, Spinning
<1> QED
  BY <1>1, <1>2, <1>3 DEF JobInv

LEMMA WaitFinishedInv == JobInv /\ WaitFinished => JobInv'
<1> SUFFICES ASSUME JobInv, WaitFinished PROVE JobInv'
  OBVIOUS
<1> USE DEF WaitFinished, Goto
<1>0. CountedWorkers' = CountedWorkers /\ (AllSpinning' <=> AllSpinning)
  BY DEF CountedWorkers, AllSpinning, Spinning
<1>1. TypeInv'
  BY DEF JobInv, TypeInv, Steps, jobVars
<1>2. RendezvousInv'
  BY <1>0 DEF JobInv, RendezvousInv, Executing, Closing, jobVars
<1>3. \A w \in Workers : WorkerInv(w)'
  BY <1>0 DEF JobInv, WorkerInv, RendezvousInv, AllSpinning, Executing, Closing, Spinning, jobVars
<1> QED
  BY <1>1, <1>2, <1>3 DEF JobInv

LEMMA ResetFinishedInv == JobInv /\ ResetFinished => JobInv'
<1> SUFFICES ASSUME JobInv, ResetFinished PROVE JobInv'
  OBVIOUS
<1> USE DEF ResetFinished, Goto
<1>0. CountedWorkers' = CountedWorkers /\ (AllSpinning' <=> AllSpinning)
  BY DEF CountedWorkers, AllSpinning, Spinning
<1>1. TypeInv'
  BY DEF JobInv, TypeInv, Steps, jobVars
<1>2. RendezvousInv'
  BY <1>0 DEF JobInv, RendezvousInv, Executing, Closing, jobVars
<1>3. \A w \in Workers : WorkerInv(w)'
  BY <1>0 DEF JobInv, WorkerInv, RendezvousInv, AllSpinning, Executing, Closing, Spinning, jobVars
<1> QED
  BY <1>1, <1>2, <1>3 DEF JobInv

\* All workers wait, so all lag behind the barrier that opens.
LEMMA OpenBarrierInv == JobInv /\ OpenBarrier => JobInv'
<1> SUFFICES ASSUME JobInv, OpenBarrier PROVE JobInv'
  OBVIOUS
<1> USE DEF OpenBarrier, Goto
<1>1. /\ \A w \in Workers : workerStep[w] = "spin" /\ barrier[w] = allFinishedBarrier
      /\ (running => ~startWorkers) /\ ~allWorkersFinished /\ allFinishedBarrier \in Nat
  BY DEF JobInv, TypeInv, RendezvousInv, Closing, AllSpinning, Spinning
<1>2. TypeInv'
  BY DEF JobInv, TypeInv, Steps, jobVars
<1>3. done = Tasks
  <2>1. \A w \in Workers : w \in done
    BY <1>1 DEF JobInv, WorkerInv, Closing, CountedWorkers, Spinning
  <2> QED
    BY <2>1 DEF JobInv, TypeInv, RendezvousInv, Closing, Tasks
<1>4. RendezvousInv'
  BY <1>1, <1>3 DEF RendezvousInv, Executing, Closing, jobVars
<1>5. \A w \in Workers : WorkerInv(w)'
  BY <1>1 DEF JobInv, WorkerInv, Executing, Closing, CountedWorkers, Spinning, jobVars
<1> QED
  BY <1>2, <1>4, <1>5 DEF JobInv

LEMMA ReturnInv == JobInv /\ Return => JobInv'
<1> SUFFICES ASSUME JobInv, Return PROVE JobInv'
  OBVIOUS
<1> USE DEF Return, Goto
<1>0. CountedWorkers' = CountedWorkers /\ (AllSpinning' <=> AllSpinning)
  BY DEF CountedWorkers, AllSpinning, Spinning
<1>1. TypeInv'
  BY DEF JobInv, TypeInv, Steps
<1>2. RendezvousInv'
  BY <1>0 DEF JobInv, RendezvousInv, Executing, Closing
<1>3. \A w \in Workers : WorkerInv(w)'
  BY <1>0 DEF JobInv, WorkerInv, Executing, Closing, Spinning
<1> QED
  BY <1>1, <1>2, <1>3 DEF JobInv

-----------------------------------------------------------------------------
(***************************************************************************)
(* The workers.                                                            *)
(***************************************************************************)
LEMMA WorkerMoved ==
  ASSUME TypeInv, NEW w \in Workers, NEW from, NEW to \in WorkerSteps, GotoW(w, from, to)
  PROVE  /\ workerStep[w] = from
         /\ workerStep' \in [Workers -> WorkerSteps]
         /\ workerStep'[w] = to
         /\ \A v \in Workers \ {w} : workerStep'[v] = workerStep[v]
BY DEF TypeInv, GotoW

\* Loop(), AwaitStart() and Check() change where a worker is, between two tasks.
LEMMA IdleStepInv ==
  ASSUME JobInv, NEW w \in Workers, Loop(w) \/ AwaitStart(w) \/ Check(w)
  PROVE  JobInv'
<1>1. /\ UNCHANGED <<callerVars, startWorkers, allWorkersFinished,
                     finishedWorkerCount, barrier, jobVars>>
      /\ \/ workerStep[w] = "loop" /\ workerStep'[w] \in {"await", "exit"}
         \/ workerStep[w] = "await" /\ workerStep'[w] = "check" /\ startWorkers
         \/ workerStep[w] = "check" /\ workerStep'[w] = "exit"
         \/ workerStep[w] = "check" /\ workerStep'[w] = "task" /\ running
      /\ workerStep' \in [Workers -> WorkerSteps]
      /\ \A v \in Workers \ {w} : workerStep'[v] = workerStep[v]
  <2>1. CASE Loop(w)
    BY <2>1, WorkerMoved DEF JobInv, Loop, WorkerSteps
  <2>2. CASE AwaitStart(w)
    BY <2>2, WorkerMoved DEF JobInv, AwaitStart, WorkerSteps
  <2>3. CASE Check(w)
    BY <2>3, WorkerMoved DEF JobInv, Check, WorkerSteps
  <2> QED
    BY <2>1, <2>2, <2>3
<1> USE DEF callerVars
<1>2. \A v \in Workers : Spinning(v)' <=> Spinning(v)
  BY <1>1 DEF Spinning
<1>3. CountedWorkers' = CountedWorkers /\ (AllSpinning' <=> AllSpinning)
  BY <1>1, <1>2 DEF CountedWorkers, AllSpinning
<1>4. TypeInv'
  BY <1>1 DEF JobInv, TypeInv, jobVars
<1>5. RendezvousInv'
  BY <1>1, <1>3 DEF JobInv, RendezvousInv, Executing, Closing, jobVars
<1>6. ASSUME NEW v \in Workers PROVE WorkerInv(v)'
  <2>1. CASE v = w
    BY <1>1, <1>2, <1>3, <2>1
       DEF JobInv, WorkerInv, RendezvousInv, Executing, Closing, CountedWorkers, Spinning, jobVars
  <2>2. CASE v # w
    BY <1>1, <1>2, <1>3, <2>2 DEF JobInv, WorkerInv, Executing, Closing, Spinning, jobVars
  <2> QED
    BY <2>1, <2>2
<1> QED
  BY <1>4, <1>5, <1>6 DEF JobInv

\* A worker at its task is in a job and has not run its task.
LEMMA AtTask ==
  ASSUME JobInv, NEW w \in Workers, workerStep[w] \in {"task", "count"}
  PROVE  /\ Executing /\ w \notin CountedWorkers /\ ~AllSpinning /\ ~allWorkersFinished
         /\ \A v \in Workers : workerStep[v] \notin {"reset", "signal"}
         /\ w \in done <=> workerStep[w] = "count"
<1>1. w \notin CountedWorkers /\ ~Spinning(w)
  BY DEF CountedWorkers, Spinning
<1>2. ~AllSpinning /\ ~allWorkersFinished /\ ~Closing
  BY <1>1 DEF JobInv, RendezvousInv, AllSpinning
<1>3. \A v \in Workers : workerStep[v] \notin {"reset", "signal"}
  BY <1>1 DEF JobInv, WorkerInv
<1> QED
  BY <1>1, <1>2, <1>3 DEF JobInv, WorkerInv

LEMMA WorkerTaskInv ==
  ASSUME JobInv, NEW w \in Workers, WorkerTask(w)
  PROVE  JobInv'
<1> USE DEF WorkerTask, ExecuteTask, callerVars
<1>1. /\ workerStep[w] = "task" /\ workerStep'[w] = "count"
      /\ workerStep' \in [Workers -> WorkerSteps]
      /\ \A v \in Workers \ {w} : workerStep'[v] = workerStep[v]
  BY WorkerMoved DEF JobInv, WorkerSteps
<1>2. Executing /\ w \notin done /\ w \notin CountedWorkers /\ w # Main
  BY <1>1, AtTask, JobRunnerAssumption
<1>3. \A v \in Workers : Spinning(v)' <=> Spinning(v)
  BY <1>1 DEF Spinning
<1>4. CountedWorkers' = CountedWorkers /\ (AllSpinning' <=> AllSpinning)
  BY <1>1, <1>3 DEF CountedWorkers, AllSpinning
<1>5. TypeInv'
  BY <1>1 DEF JobInv, TypeInv, Tasks
<1>6. RendezvousInv'
  BY <1>1, <1>2, <1>4 DEF JobInv, RendezvousInv, Executing, Closing
<1>7. ASSUME NEW v \in Workers PROVE WorkerInv(v)'
  <2>1. CASE v = w
    BY <1>1, <1>2, <1>3, <1>4, <2>1 DEF JobInv, WorkerInv, Executing, Closing, Spinning
  <2>2. CASE v # w
    BY <1>1, <1>3, <1>4, <2>2 DEF JobInv, WorkerInv, Executing, Closing, Spinning
  <2> QED
    BY <2>1, <2>2
<1> QED
  BY <1>5, <1>6, <1>7 DEF JobInv

\* The last worker that counts itself finds all others waiting.
LEMMA CountInv ==
  ASSUME JobInv, NEW w \in Workers, Count(w)
  PROVE  JobInv'
<1> USE DEF Count, callerVars
<1>1. /\ workerStep[w] = "count" /\ workerStep'[w] \in {"reset", "spin"}
      /\ workerStep'[w] = "reset" <=> finishedWorkerCount + 1 = workerCount
      /\ workerStep' \in [Workers -> WorkerSteps]
      /\ \A v \in Workers \ {w} : workerStep'[v] = workerStep[v]
  BY WorkerMoved DEF JobInv, WorkerSteps
<1>2. /\ Executing /\ w \notin CountedWorkers /\ ~AllSpinning /\ ~allWorkersFinished /\ w \in done
      /\ \A v \in Workers : workerStep[v] \notin {"reset", "signal"}
      /\ barrier[w] = allFinishedBarrier
  BY <1>1, AtTask DEF JobInv, WorkerInv
<1>3. CountedWorkers' = CountedWorkers \cup {w}
  BY <1>1, <1>2 DEF CountedWorkers, Spinning
<1>4. /\ finishedWorkerCount = Cardinality(CountedWorkers)
      /\ finishedWorkerCount' = Cardinality(CountedWorkers')
  <2>1. finishedWorkerCount = Cardinality(CountedWorkers)
    BY <1>2 DEF JobInv, RendezvousInv
  <2> QED
    BY <1>2, <1>3, <2>1, CountedSubset, FS_AddElement
<1>5. finishedWorkerCount' \in 0..workerCount
  <2>1. CountedWorkers' \subseteq Workers /\ IsFiniteSet(Workers)
    BY JobRunnerAssumption DEF CountedWorkers
  <2>2. Cardinality(CountedWorkers') <= workerCount
    BY <2>1, FS_Subset DEF workerCount
  <2> QED
    BY <1>4, <2>2, CountedSubset
<1>6. workerStep'[w] = "reset" => \A v \in Workers \ {w} : Spinning(v)
  <2>1. SUFFICES ASSUME workerStep'[w] = "reset" PROVE CountedWorkers' = Workers
    BY <1>2, <1>3, <2>1 DEF CountedWorkers
  <2>2. CountedWorkers' \subseteq Workers /\ IsFiniteSet(Workers)
    BY JobRunnerAssumption DEF CountedWorkers
  <2>3. Cardinality(CountedWorkers') = Cardinality(Workers)
    BY <1>1, <1>4, <2>1 DEF workerCount
  <2> QED
    BY <2>2, <2>3, FS_Subset
<1>7. TypeInv'
  BY <1>1, <1>5 DEF JobInv, TypeInv, jobVars
<1>8. RendezvousInv'
  BY <1>1, <1>2, <1>4 DEF JobInv, RendezvousInv, Executing, Closing, jobVars
<1>9. ASSUME NEW v \in Workers PROVE WorkerInv(v)'
  <2>1. CASE v = w
    <3>1. workerStep'[w] = "reset" => \A u \in Workers \ {w} : Spinning(u)'
      BY <1>1, <1>6 DEF Spinning
    <3> QED
      BY <1>1, <1>2, <1>3, <2>1, <3>1 DEF JobInv, WorkerInv, Executing, Closing, Spinning, jobVars
  <2>2. CASE v # w
    BY <1>1, <1>2, <1>3, <2>2 DEF JobInv, WorkerInv, Executing, Closing, Spinning, jobVars
  <2> QED
    BY <2>1, <2>2
<1> QED
  BY <1>7, <1>8, <1>9 DEF JobInv

LEMMA ResetStartInv ==
  ASSUME JobInv, NEW w \in Workers, ResetStart(w)
  PROVE  JobInv'
<1> USE DEF ResetStart, callerVars
<1>1. /\ workerStep[w] = "reset" /\ workerStep'[w] = "signal"
      /\ workerStep' \in [Workers -> WorkerSteps]
      /\ \A v \in Workers \ {w} : workerStep'[v] = workerStep[v]
  BY WorkerMoved DEF JobInv, WorkerSteps
<1>2. ~allWorkersFinished /\ w \in CountedWorkers /\ \A v \in Workers \ {w} : Spinning(v)
  BY <1>1 DEF JobInv, WorkerInv, CountedWorkers
<1>3. \A v \in Workers : Spinning(v)' <=> Spinning(v)
  BY <1>1 DEF Spinning
<1>4. CountedWorkers' = CountedWorkers /\ (AllSpinning' <=> AllSpinning)
  BY <1>1, <1>3 DEF CountedWorkers, AllSpinning
<1>5. TypeInv'
  BY <1>1 DEF JobInv, TypeInv, jobVars
<1>6. RendezvousInv'
  BY <1>1, <1>2, <1>4 DEF JobInv, RendezvousInv, Executing, Closing, jobVars
<1>7. ASSUME NEW v \in Workers PROVE WorkerInv(v)'
  <2>1. CASE v = w
    BY <1>1, <1>2, <1>3, <1>4, <2>1 DEF JobInv, WorkerInv, Executing, Closing, jobVars
  <2>2. CASE v # w
    BY <1>1, <1>2, <1>3, <1>4, <2>2 DEF JobInv, WorkerInv, Executing, Closing, Spinning, jobVars
  <2> QED
    BY <2>1, <2>2
<1> QED
  BY <1>5, <1>6, <1>7 DEF JobInv

LEMMA SignalFinishedInv ==
  ASSUME JobInv, NEW w \in Workers, SignalFinished(w)
  PROVE  JobInv'
<1> USE DEF SignalFinished, callerVars
<1>1. /\ workerStep[w] = "signal" /\ workerStep'[w] = "spin"
      /\ workerStep' \in [Workers -> WorkerSteps]
      /\ \A v \in Workers \ {w} : workerStep'[v] = workerStep[v]
  BY WorkerMoved DEF JobInv, WorkerSteps
<1>2. /\ ~allWorkersFinished /\ w \in CountedWorkers /\ \A v \in Workers \ {w} : Spinning(v)
      /\ barrier[w] = allFinishedBarrier /\ (running => ~startWorkers)
      /\ Executing \/ Closing
  BY <1>1 DEF JobInv, WorkerInv, CountedWorkers
<1>3. \A v \in Workers : Spinning(v)'
  BY <1>1, <1>2 DEF Spinning
<1>4. AllSpinning' /\ ~AllSpinning
  BY <1>1, <1>3 DEF AllSpinning, Spinning
<1>5. CountedWorkers' = CountedWorkers
  BY <1>1, <1>2, <1>3 DEF CountedWorkers
<1>6. Executing
  BY <1>2, <1>4 DEF JobInv, RendezvousInv
<1>7. TypeInv'
  BY <1>1 DEF JobInv, TypeInv, jobVars
<1>8. RendezvousInv'
  BY <1>1, <1>2, <1>4, <1>5, <1>6 DEF JobInv, RendezvousInv, Executing, Closing, jobVars
<1>9. ASSUME NEW v \in Workers PROVE WorkerInv(v)'
  BY <1>1, <1>2, <1>3, <1>5 DEF JobInv, WorkerInv, Executing, Closing, Spinning, CountedWorkers, jobVars
<1> QED
  BY <1>7, <1>8, <1>9 DEF JobInv

\* A worker leaves its spin behind an open barrier: it waits for no job.
LEMMA SpinWaitInv ==
  ASSUME JobInv, NEW w \in Workers, SpinWait(w)
  PROVE  JobInv'
<1> USE DEF SpinWait, callerVars
<1>1. /\ workerStep[w] = "spin" /\ workerStep'[w] = "loop"
      /\ workerStep' \in [Workers -> WorkerSteps]
      /\ \A v \in Workers \ {w} : workerStep'[v] = workerStep[v]
  BY WorkerMoved DEF JobInv, WorkerSteps
<1>2. /\ ~Spinning(w) /\ barrier'[w] = allFinishedBarrier
      /\ barrier' \in [Workers -> Nat]
      /\ \A v \in Workers \ {w} : barrier'[v] = barrier[v]
  BY DEF JobInv, TypeInv, WorkerInv, Spinning
<1>3. \A v \in Workers : Spinning(v)' <=> Spinning(v)
  BY <1>1, <1>2 DEF Spinning
<1>4. CountedWorkers' = CountedWorkers /\ (AllSpinning' <=> AllSpinning)
  BY <1>1, <1>3 DEF CountedWorkers, AllSpinning
<1>5. TypeInv'
  BY <1>1, <1>2 DEF JobInv, TypeInv, jobVars
<1>6. RendezvousInv'
  BY <1>1, <1>4 DEF JobInv, RendezvousInv, Executing, Closing, jobVars
<1>7. ASSUME NEW v \in Workers PROVE WorkerInv(v)'
  <2>1. CASE v = w
    BY <1>1, <1>2, <1>3, <1>4, <2>1 DEF JobInv, WorkerInv, Executing, Closing, CountedWorkers, jobVars
  <2>2. CASE v # w
    BY <1>1, <1>2, <1>3, <1>4, <2>2 DEF JobInv, WorkerInv, Executing, Closing, jobVars
  <2> QED
    BY <2>1, <2>2
<1> QED
  BY <1>5, <1>6, <1>7 DEF JobInv

-----------------------------------------------------------------------------
LEMMA DisposeInv == JobInv /\ (Dispose \/ DisposeSet) => JobInv'
<1> SUFFICES ASSUME JobInv, Dispose \/ DisposeSet PROVE JobInv'
  OBVIOUS
<1> USE DEF Dispose, DisposeSet
<1>0. CountedWorkers' = CountedWorkers /\ (AllSpinning' <=> AllSpinning)
  BY DEF CountedWorkers, AllSpinning, Spinning
<1>1. TypeInv'
  BY DEF JobInv, TypeInv, jobVars
<1>2. RendezvousInv'
  BY <1>0 DEF JobInv, RendezvousInv, Executing, Closing, jobVars
<1>3. \A w \in Workers : WorkerInv(w)'
  BY <1>0 DEF JobInv, WorkerInv, Executing, Closing, Spinning, jobVars
<1> QED
  BY <1>1, <1>2, <1>3 DEF JobInv

LEMMA RunnerNextInv == JobInv /\ [RunnerNext]_runnerVars => JobInv'
<1> SUFFICES ASSUME JobInv, [RunnerNext]_runnerVars PROVE JobInv'
  OBVIOUS
<1>1. ASSUME NEW c \in Callers, ExecuteJob(c) PROVE JobInv'
  BY <1>1, ExecuteJobInv
<1>2. CASE CallerStep
  BY <1>2, ClearCountInv, StartInv, CallerTaskInv, WaitFinishedInv, ResetFinishedInv,
     OpenBarrierInv, ReturnInv DEF CallerStep
<1>3. ASSUME NEW w \in Workers, WorkerStep(w) PROVE JobInv'
  BY <1>3, IdleStepInv, WorkerTaskInv, CountInv, ResetStartInv, SignalFinishedInv, SpinWaitInv
     DEF WorkerStep
<1>4. CASE Dispose \/ DisposeSet
  BY <1>4, DisposeInv
<1>5. CASE UNCHANGED runnerVars
  BY <1>5 DEF runnerVars, JobInv, TypeInv, RendezvousInv, WorkerInv, AllSpinning, Spinning, CountedWorkers,
     Executing, Closing, jobVars
<1> QED
  BY <1>1, <1>2, <1>3, <1>4, <1>5 DEF RunnerNext

\* The rendezvous of a job: no worker runs twice, the caller goes on when all have
\* run, and the assertions of the debug build hold.
THEOREM JobCorrect == RunnerSpec => []JobInv
BY RunnerInitInv, RunnerNextInv, PTL DEF RunnerSpec

-----------------------------------------------------------------------------
\* The task of a thread is a Run of the abstract job, its return the Join, and
\* every other step leaves the job alone.
LEMMA RunnerStepRefines ==
  ASSUME JobInv, RunnerNext
  PROVE  Abstract!Next \/ UNCHANGED Abstract!joinVars
<1> USE DEF Abstract!Next, Abstract!joinVars, jobVars
<1>1. ASSUME NEW c \in Callers, ExecuteJob(c) PROVE Abstract!Next
  BY <1>1 DEF ExecuteJob, Goto, Abstract!Fork, JobInv, TypeInv
<1>2. CASE CallerTask
  BY <1>2 DEF CallerTask, Goto, ExecuteTask, Abstract!Run, JobInv, TypeInv, RendezvousInv,
     Executing, Tasks
<1>3. CASE Return
  BY <1>3 DEF Return, Goto, Abstract!Join, JobInv, TypeInv, RendezvousInv
<1>4. CASE ClearCount \/ Start \/ WaitFinished \/ ResetFinished \/ OpenBarrier
  BY <1>4 DEF ClearCount, Start, WaitFinished, ResetFinished, OpenBarrier
<1>5. ASSUME NEW w \in Workers, WorkerTask(w) PROVE Abstract!Next
  <2>1. workerStep[w] = "task"
    BY <1>5 DEF WorkerTask, GotoW
  <2>2. usedBy # NoCaller /\ w \notin done
    BY <2>1, AtTask DEF JobInv, TypeInv, Executing
  <2> QED
    BY <1>5, <2>2 DEF WorkerTask, ExecuteTask, callerVars, Abstract!Run, Tasks
<1>6. ASSUME NEW w \in Workers,
             Loop(w) \/ AwaitStart(w) \/ Check(w) \/ Count(w) \/ ResetStart(w)
               \/ SignalFinished(w) \/ SpinWait(w)
      PROVE  UNCHANGED Abstract!joinVars
  BY <1>6 DEF Loop, AwaitStart, Check, Count, ResetStart, SignalFinished, SpinWait, callerVars
<1>7. CASE Dispose \/ DisposeSet
  BY <1>7 DEF Dispose, DisposeSet
<1> QED
  BY <1>1, <1>2, <1>3, <1>4, <1>5, <1>6, <1>7 DEF RunnerNext, CallerStep, WorkerStep

\* The runner implements fork and join for any number of workers and callers.
THEOREM JobRunnerImplementsForkJoin == RunnerSpec => ImplementsForkJoin
<1>1. RunnerInit => Abstract!Init
  BY DEF RunnerInit, Abstract!Init
<1>2. JobInv /\ [RunnerNext]_runnerVars => [Abstract!Next]_(Abstract!joinVars)
  <2>1. UNCHANGED runnerVars => UNCHANGED Abstract!joinVars
    BY DEF runnerVars, jobVars, Abstract!joinVars
  <2> QED
    BY <2>1, RunnerStepRefines
<1> QED
  BY <1>1, <1>2, JobCorrect, PTL DEF RunnerSpec, ImplementsForkJoin, Abstract!Spec
=============================================================================
