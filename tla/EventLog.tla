------------------------------ MODULE EventLog ------------------------------
(***************************************************************************)
(* What event delivery promises to one subscribed client: the hub accepts  *)
(* events for the client one after the other, and the client processes     *)
(* them in that order, each at most once.  While lossy is FALSE the client *)
(* moreover skips none (ClientParam.queueEvents: the hub stores all        *)
(* unacknowledged events and sends them on reconnects).                    *)
(***************************************************************************)
EXTENDS Naturals, Sequences, SequencesExt

VARIABLES
  lossy,            \* an input: may the client skip an event now?
  published,        \* number of events accepted so far; event e is the e-th
  delivered         \* the batches of events the client processed, in that order

vars == <<published, delivered>>

LastDelivered == IF delivered = <<>> THEN 0 ELSE Last(Last(delivered))

Init == published = 0 /\ delivered = <<>>

Publish == published' = published + 1 /\ UNCHANGED delivered

\* The events that can come next.
IsNextBatch(batch) ==
  /\ batch # <<>>
  /\ \A i, j \in 1..Len(batch) : i < j => batch[i] < batch[j]
  /\ \A i \in 1..Len(batch) : LastDelivered < batch[i] /\ batch[i] <= published
  /\ ~lossy => /\ batch[1] = LastDelivered + 1
               /\ \A i \in 2..Len(batch) : batch[i] = batch[i - 1] + 1

\* One EventMessage reaches the client.
Deliver ==
  /\ delivered' # <<>> /\ delivered' = Append(delivered, Last(delivered'))
  /\ IsNextBatch(Last(delivered'))
  /\ UNCHANGED published

Next == Publish \/ Deliver

Spec == Init /\ [][Next]_vars
=============================================================================
