---------------------------- MODULE ReaderWriter ----------------------------
(***************************************************************************)
(* What a lock for multiple readers or a single writer promises.           *)
(***************************************************************************)
CONSTANT Procs      \* the tasks that use the lock

VARIABLES readers,  \* tasks that hold the lock for reading
          writers   \* tasks that hold it for writing, at most one

vars == <<readers, writers>>

Init == readers = {} /\ writers = {}

Read(p)  == writers = {} /\ readers' = readers \cup {p} /\ UNCHANGED writers
Write(p) == writers \cup readers = {} /\ writers' = {p} /\ UNCHANGED readers
DoneReading(p) == p \in readers /\ readers' = readers \ {p} /\ UNCHANGED writers
DoneWriting(p) == p \in writers /\ writers' = {} /\ UNCHANGED readers

Next == \E p \in Procs : Read(p) \/ Write(p) \/ DoneReading(p) \/ DoneWriting(p)

Spec == Init /\ [][Next]_vars
=============================================================================
