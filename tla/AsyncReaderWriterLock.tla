----------------------- MODULE AsyncReaderWriterLock -----------------------
(***************************************************************************)
(* The AsyncReaderWriterLock that guards the files of a FileContainer: two *)
(* SemaphoreSlim(1, 1) and a counter of readers.  A step is one call on a  *)
(* semaphore or on the counter; between two of them other tasks run.       *)
(***************************************************************************)
EXTENDS Integers, Sequences, SequencesExt, FiniteSets

CONSTANTS
  Procs,        \* tasks that use the lock
  Cancellable   \* those that pass a CancellationToken; FileContainer passes none

ASSUME ProcsAssumption == IsFiniteSet(Procs) /\ Cancellable \subseteq Procs

VARIABLES
  pc,           \* where each task is
  readCount,    \* readSemaphore.CurrentCount
  readWait,     \* the tasks waiting for it, the first one longest
  writeCount,   \* writeSemaphore.CurrentCount
  writeWait,    \* the tasks waiting for it
  readerCount

vars  == <<pc, readCount, readWait, writeCount, writeWait, readerCount>>
readSemaphore  == <<readCount, readWait>>
writeSemaphore == <<writeCount, writeWait>>

State == {"idle",
          "writerWaits", "writerWaitsReaders", "writing", "writerReleases",
          "readerWaits", "firstReaderWaits", "readerReleases", "reading", "lastReader",
          "cancelled"}

TypeOK ==
  /\ pc \in [Procs -> State]
  /\ readCount \in 0..1 /\ writeCount \in 0..1
  /\ readWait \in Seq(Procs) /\ writeWait \in Seq(Procs)
  /\ readerCount \in Nat

Init ==
  /\ pc = [p \in Procs |-> "idle"]
  /\ readCount = 1 /\ readWait = <<>>
  /\ writeCount = 1 /\ writeWait = <<>>
  /\ readerCount = 0

Go(p, from, to) == pc[p] = from /\ pc' = [pc EXCEPT ![p] = to]

\* SemaphoreSlim serves the calls of WaitAsync() in their order, and Release()
\* lets the first of them go on.
WaitRead(p)  == readWait' = Append(readWait, p) /\ UNCHANGED readCount
WaitWrite(p) == writeWait' = Append(writeWait, p) /\ UNCHANGED writeCount

TakeRead(p) ==
  /\ readCount > 0 /\ readWait # <<>> /\ Head(readWait) = p
  /\ readCount' = readCount - 1 /\ readWait' = Tail(readWait)

TakeWrite(p) ==
  /\ writeCount > 0 /\ writeWait # <<>> /\ Head(writeWait) = p
  /\ writeCount' = writeCount - 1 /\ writeWait' = Tail(writeWait)

ReleaseRead  == readCount' = readCount + 1 /\ UNCHANGED readWait
ReleaseWrite == writeCount' = writeCount + 1 /\ UNCHANGED writeWait

-----------------------------------------------------------------------------
(* AcquireWriterLock(), ReleaseWriterLock()                                *)

AcquireWriterLock(p) ==
  \/ /\ Go(p, "idle", "writerWaits")
     /\ WaitWrite(p)
     /\ UNCHANGED <<readSemaphore, readerCount>>
  \/ /\ Go(p, "writerWaits", "writerWaitsReaders")
     /\ TakeWrite(p) /\ WaitRead(p)
     /\ UNCHANGED readerCount
  \/ /\ Go(p, "writerWaitsReaders", "writing")
     /\ TakeRead(p)
     /\ UNCHANGED <<writeSemaphore, readerCount>>

ReleaseWriterLock(p) ==
  \/ /\ Go(p, "writing", "writerReleases")
     /\ ReleaseRead
     /\ UNCHANGED <<writeSemaphore, readerCount>>
  \/ /\ Go(p, "writerReleases", "idle")
     /\ ReleaseWrite
     /\ UNCHANGED <<readSemaphore, readerCount>>

-----------------------------------------------------------------------------
(* AcquireReaderLock(), ReleaseReaderLock()                                *)

\* Mutant: a reader waits for the readSemaphore if it is not the first.
IsFirstReader_Not == readerCount' # 1

\* Interlocked.Increment(ref readerCount) == 1
IsFirstReader == readerCount' = 1

AcquireReaderLock(p) ==
  \/ /\ Go(p, "idle", "readerWaits")
     /\ WaitWrite(p)
     /\ UNCHANGED <<readSemaphore, readerCount>>
  \/ /\ TakeWrite(p)
     /\ readerCount' = readerCount + 1
     /\ \/ /\ IsFirstReader
           /\ Go(p, "readerWaits", "firstReaderWaits") /\ WaitRead(p)
        \/ /\ ~IsFirstReader
           /\ Go(p, "readerWaits", "readerReleases") /\ UNCHANGED readSemaphore
  \/ /\ Go(p, "firstReaderWaits", "readerReleases")
     /\ TakeRead(p)
     /\ UNCHANGED <<writeSemaphore, readerCount>>
  \/ /\ Go(p, "readerReleases", "reading")
     /\ ReleaseWrite
     /\ UNCHANGED <<readSemaphore, readerCount>>

\* Mutant: off by one.
IsLastReader_Off == readerCount' = 1

\* Interlocked.Decrement(ref readerCount) == 0
IsLastReader == readerCount' = 0

ReleaseReaderLock(p) ==
  \/ /\ readerCount' = readerCount - 1
     /\ \/ IsLastReader /\ Go(p, "reading", "lastReader")
        \/ ~IsLastReader /\ Go(p, "reading", "idle")
     /\ UNCHANGED <<readSemaphore, writeSemaphore>>
  \/ /\ Go(p, "lastReader", "idle")
     /\ ReleaseRead
     /\ UNCHANGED <<writeSemaphore, readerCount>>

-----------------------------------------------------------------------------
\* A task leaves a queue it waits in.
Leave(wait, p) == \E i \in 1..Len(wait) : wait[i] = p /\ wait' = RemoveAt(wait, i)

\* The CancellationToken ends WaitAsync() with an exception.  Only
\* SafeAcquireReadSemaphore() catches it, to release the writeSemaphore.
Cancel(p) ==
  /\ p \in Cancellable
  /\ \/ /\ \/ Go(p, "writerWaits", "idle")
           \/ Go(p, "readerWaits", "idle")
        /\ Leave(writeWait, p)
        /\ UNCHANGED <<writeCount, readSemaphore, readerCount>>
     \/ /\ \/ Go(p, "writerWaitsReaders", "cancelled")
           \/ Go(p, "firstReaderWaits", "cancelled")
        /\ Leave(readWait, p)
        /\ UNCHANGED <<readCount, writeSemaphore, readerCount>>

\* Mutant: the writeSemaphore stays taken.
SafeAcquireReadSemaphore_NoRelease(p) ==
  Go(p, "cancelled", "idle") /\ UNCHANGED <<readSemaphore, writeSemaphore, readerCount>>

SafeAcquireReadSemaphore(p) ==
  /\ Go(p, "cancelled", "idle")
  /\ ReleaseWrite
  /\ UNCHANGED <<readSemaphore, readerCount>>

Acquire(p) == AcquireWriterLock(p) \/ AcquireReaderLock(p) \/ SafeAcquireReadSemaphore(p)
Release(p) == ReleaseWriterLock(p) \/ ReleaseReaderLock(p)

Next == \E p \in Procs : Acquire(p) \/ Release(p) \/ Cancel(p)

Spec == Init /\ [][Next]_vars

\* The cancellations the lock survives: not of a first reader that waits for the
\* readSemaphore.  FileContainer, the only user of the lock, passes no token at all.
FirstReaderNotCancelled ==
  \A p \in Procs : pc[p] = "firstReaderWaits" => pc'[p] # "cancelled"

SafeSpec == Init /\ [][Next /\ FirstReaderNotCancelled]_vars

\* A task that waits goes on when it can, and one that holds the lock releases it.
FairSpec ==
  SafeSpec /\ \A p \in Procs : WF_vars(pc[p] # "idle" /\ (Acquire(p) \/ Release(p)))

-----------------------------------------------------------------------------
(* Properties                                                              *)

Readers == {p \in Procs : pc[p] \in {"readerReleases", "reading"}}
Writers == {p \in Procs : pc[p] = "writing"}

\* The lock is a lock for multiple readers or a single writer.
RW == INSTANCE ReaderWriter WITH readers <- Readers, writers <- Writers
ImplementsReaderWriter == RW!Spec

\* A task that writes is alone: nobody else writes and nobody reads.
MutualExclusion ==
  \A p \in Writers : Writers = {p} /\ Readers = {}

\* Who has taken the writeSemaphore, and the readers that count.
WriteHolders ==
  {p \in Procs : pc[p] \in {"writerWaitsReaders", "writing", "writerReleases",
                            "firstReaderWaits", "readerReleases", "cancelled"}}
Counted == {p \in Procs : pc[p] \in {"firstReaderWaits", "readerReleases", "reading"}}

\* Who has taken the readSemaphore for itself; the readers share it.
ReadHolders == {p \in Procs : pc[p] \in {"writing", "lastReader"}}

\* Each semaphore is taken exactly when somebody holds it, so that Release() never
\* exceeds the maximum count of 1, and readerCount counts the readers.
WriteTaken == IF writeCount = 1 THEN WriteHolders = {}
              ELSE \E p \in Procs : WriteHolders = {p}

ReadTaken ==
  IF readCount = 1 THEN ReadHolders = {} /\ Readers = {}
  ELSE \/ ReadHolders = {} /\ Readers # {}
       \/ Readers = {} /\ \E p \in Procs : ReadHolders = {p}

ReadersCounted ==
  /\ readerCount = Cardinality(Counted)
  /\ \A p \in Procs : pc[p] = "firstReaderWaits" => Counted = {p}

\* The inductive invariant behind MutualExclusion.
LockInv == TypeOK /\ WriteTaken /\ ReadTaken /\ ReadersCounted

\* Nobody waits for ever: readers that come and go do not starve a writer, nor
\* writers a reader.
Waiting(p) == pc[p] \notin {"idle", "reading", "writing"}
NoStarvation == \A p \in Procs : Waiting(p) ~> ~Waiting(p)
=============================================================================
