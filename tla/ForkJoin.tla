------------------------------ MODULE ForkJoin ------------------------------
(***************************************************************************)
(* What a job runner promises: one job at a time; a job runs each of its   *)
(* tasks exactly once, and its caller goes on when all have run, with the  *)
(* failures of this job's tasks and of no other.                           *)
(***************************************************************************)
CONSTANTS
    Callers,
    Tasks,
    NoCaller

VARIABLES
    owner,              \* whose job it is, or NoCaller
    done,               \* the tasks of the job that ran
    failed,             \* those that threw an exception
    outcome             \* per caller: the failures of its last job

joinVars == <<owner, done, failed, outcome>>

Init ==
    /\ owner = NoCaller
    /\ done = {}
    /\ failed = {}
    /\ outcome = [c \in Callers |-> {}]

Fork(c) ==
    /\ owner = NoCaller
    /\ owner' = c
    /\ done' = {}
    /\ failed' = {}
    /\ UNCHANGED outcome

Run(t) ==
    /\ owner # NoCaller
    /\ t \notin done
    /\ done' = done \cup {t}
    /\ failed' \in {failed, failed \cup {t}}
    /\ UNCHANGED <<owner, outcome>>

Join ==
    /\ owner # NoCaller
    /\ done = Tasks
    /\ outcome' = [outcome EXCEPT ![owner] = failed]
    /\ owner' = NoCaller
    /\ UNCHANGED <<done, failed>>

Next ==
    \/ \E c \in Callers : Fork(c)
    \/ \E t \in Tasks : Run(t)
    \/ Join

Spec == Init /\ [][Next]_joinVars
=============================================================================
