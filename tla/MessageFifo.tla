---------------------------- MODULE MessageFifo ----------------------------
(***************************************************************************)
(* What a queue of messages promises to those who add and those who read.  *)
(***************************************************************************)
EXTENDS Sequences, Naturals

CONSTANT Messages

VARIABLES queue,    \* the messages that are queued
          batch,    \* what the last dequeue returned: valid until the next
          closed

vars == <<queue, batch, closed>>

Init == queue = <<>> /\ batch = <<>> /\ closed = FALSE

Add(m)     == ~closed /\ queue' = Append(queue, m) /\ UNCHANGED <<batch, closed>>
Push(m)    == ~closed /\ queue' = <<m>> \o queue /\ UNCHANGED <<batch, closed>>
RemoveHead == ~closed /\ queue # <<>> /\ queue' = Tail(queue) /\ UNCHANGED <<batch, closed>>
DequeueAll == batch' = queue /\ queue' = <<>> /\ UNCHANGED closed
Clear      == queue' = <<>> /\ UNCHANGED <<batch, closed>>
Close      == closed' = TRUE /\ UNCHANGED <<queue, batch>>

Next == \/ \E m \in Messages : Add(m) \/ Push(m)
        \/ RemoveHead \/ DequeueAll \/ Clear \/ Close

Spec == Init /\ [][Next]_vars
=============================================================================
