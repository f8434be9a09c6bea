----------------------------- MODULE JobRunner -----------------------------
(***************************************************************************)
(* ParallelJobRunner (Engine/src/ECS/Query/ParallelJobRunner.cs): a job is *)
(* split in one task per thread; the caller runs one of them, the workers, *)
(* which wait for the next job in a loop, run the others.  Two manual      *)
(* reset events start the workers and wake the caller, a barrier counter   *)
(* keeps a worker from running twice in a job.                             *)
(*                                                                         *)
(* A thread's step ends where it reads or writes what threads share.       *)
(* A caller outside of lock (name) has no state; a thread that runs a task *)
(* of this runner is refused as a caller, which fails its task.            *)
(***************************************************************************)
EXTENDS Integers, FiniteSets

CONSTANTS
    Callers,
    Workers,
    Main,               \* tasks[0], the task of the caller
    NoCaller,
    MaxJobs             \* bound: jobs

\* QueryJob uses the runner for more than one task only.
ASSUME JobRunnerAssumption ==
    /\ IsFiniteSet(Workers) /\ Workers # {}
    /\ Main \notin Workers
    /\ NoCaller \notin Callers
    /\ MaxJobs \in Nat

VARIABLES
    running,
    workersStarted,
    startWorkers,       \* manual reset event
    allWorkersFinished, \* manual reset event
    finishedWorkerCount,
    allFinishedBarrier,
    usedBy,             \* the caller in ExecuteJob(), which has the lock
    step,               \* where it is
    workerStep,         \* where the workers are in RunWorker()
    barrier,            \* local variable of a worker
    taskExceptions,     \* the tasks whose exceptions were added
    done,               \* history: the tasks of the job that ran
    outcome             \* history: the exceptions thrown to a caller

jobVars == <<taskExceptions, done, outcome>>
runnerVars == <<running, workersStarted, startWorkers, allWorkersFinished, finishedWorkerCount,
                allFinishedBarrier, usedBy, step, workerStep, barrier, jobVars>>

workerCount == Cardinality(Workers)
Tasks == Workers \cup {Main}

RunnerInit ==
    /\ running = TRUE
    /\ workersStarted = FALSE
    /\ startWorkers = FALSE
    /\ allWorkersFinished = FALSE
    /\ finishedWorkerCount = 0
    /\ allFinishedBarrier = 0
    /\ usedBy = NoCaller
    /\ step = "idle"
    /\ workerStep = [w \in Workers |-> "new"]
    /\ barrier = [w \in Workers |-> 0]
    /\ taskExceptions = {}
    /\ done = {}
    /\ outcome = [c \in Callers |-> {}]

-----------------------------------------------------------------------------
(***************************************************************************)
(* ExecuteJob().  A disposed runner refuses the job.                       *)
(***************************************************************************)
Goto(from, to) == step = from /\ step' = to

ExecuteJob(c) ==
    /\ allFinishedBarrier < MaxJobs
    /\ Goto("idle", "count")
    /\ running
    /\ usedBy' = c
    /\ taskExceptions' = {}
    /\ done' = {}
    /\ workersStarted' = TRUE
    /\ workerStep' = IF workersStarted THEN workerStep ELSE [w \in Workers |-> "loop"]
    /\ UNCHANGED <<running, startWorkers, allWorkersFinished, finishedWorkerCount,
                   allFinishedBarrier, barrier, outcome>>

\* Mutant: the count of the job before is kept.
ClearCount_Kept == Goto("count", "start") /\
    UNCHANGED <<running, workersStarted, startWorkers, allWorkersFinished, finishedWorkerCount,
                allFinishedBarrier, usedBy, workerStep, barrier, jobVars>>

ClearCount ==
    /\ Goto("count", "start")
    /\ finishedWorkerCount' = 0
    /\ UNCHANGED <<running, workersStarted, startWorkers, allWorkersFinished,
                   allFinishedBarrier, usedBy, workerStep, barrier, jobVars>>

Start ==
    /\ Goto("start", "task")
    /\ startWorkers' = TRUE
    /\ UNCHANGED <<running, workersStarted, allWorkersFinished, finishedWorkerCount,
                   allFinishedBarrier, usedBy, workerStep, barrier, jobVars>>

\* ExecuteTask(), which may throw.
ExecuteTask(t) ==
    /\ done' = done \cup {t}
    /\ taskExceptions' \in {taskExceptions, taskExceptions \cup {t}}
    /\ UNCHANGED outcome

CallerTask ==
    /\ Goto("task", "wait")
    /\ ExecuteTask(Main)
    /\ UNCHANGED <<running, workersStarted, startWorkers, allWorkersFinished,
                   finishedWorkerCount, allFinishedBarrier, usedBy, workerStep, barrier>>

WaitFinished ==
    /\ Goto("wait", "reset")
    /\ allWorkersFinished
    /\ UNCHANGED <<running, workersStarted, startWorkers, allWorkersFinished,
                   finishedWorkerCount, allFinishedBarrier, usedBy, workerStep, barrier, jobVars>>

ResetFinished ==
    /\ Goto("reset", "barrier")
    /\ allWorkersFinished' = FALSE
    /\ UNCHANGED <<running, workersStarted, startWorkers, finishedWorkerCount,
                   allFinishedBarrier, usedBy, workerStep, barrier, jobVars>>

OpenBarrier ==
    /\ Goto("barrier", "return")
    /\ allFinishedBarrier' = allFinishedBarrier + 1
    /\ UNCHANGED <<running, workersStarted, startWorkers, allWorkersFinished,
                   finishedWorkerCount, usedBy, workerStep, barrier, jobVars>>

Return ==
    /\ Goto("return", "idle")
    /\ outcome' = [outcome EXCEPT ![usedBy] = taskExceptions]
    /\ usedBy' = NoCaller
    /\ UNCHANGED <<running, workersStarted, startWorkers, allWorkersFinished, finishedWorkerCount,
                   allFinishedBarrier, workerStep, barrier, taskExceptions, done>>

CallerStep ==
    ClearCount \/ Start \/ CallerTask \/ WaitFinished \/ ResetFinished \/ OpenBarrier \/ Return

-----------------------------------------------------------------------------
(***************************************************************************)
(* RunWorker()                                                             *)
(***************************************************************************)
GotoW(w, from, to) ==
    workerStep[w] = from /\ workerStep' = [workerStep EXCEPT ![w] = to]

callerVars == <<running, workersStarted, allFinishedBarrier, usedBy, step>>

Loop(w) ==
    /\ GotoW(w, "loop", IF running THEN "await" ELSE "exit")
    /\ UNCHANGED <<callerVars, startWorkers, allWorkersFinished, finishedWorkerCount, barrier, jobVars>>

AwaitStart(w) ==
    /\ GotoW(w, "await", "check")
    /\ startWorkers
    /\ UNCHANGED <<callerVars, startWorkers, allWorkersFinished, finishedWorkerCount, barrier, jobVars>>

Check(w) ==
    /\ GotoW(w, "check", IF running THEN "task" ELSE "exit")
    /\ UNCHANGED <<callerVars, startWorkers, allWorkersFinished, finishedWorkerCount, barrier, jobVars>>

WorkerTask(w) ==
    /\ GotoW(w, "task", "count")
    /\ ExecuteTask(w)
    /\ UNCHANGED <<callerVars, startWorkers, allWorkersFinished, finishedWorkerCount, barrier>>

Count(w) ==
    /\ GotoW(w, "count", IF finishedWorkerCount + 1 = workerCount THEN "reset" ELSE "spin")
    /\ finishedWorkerCount' = finishedWorkerCount + 1
    /\ UNCHANGED <<callerVars, startWorkers, allWorkersFinished, barrier, jobVars>>

\* Mutant: startWorkers is not reset.
ResetStart_Not(w) ==
    /\ GotoW(w, "reset", "signal")
    /\ UNCHANGED <<callerVars, startWorkers, allWorkersFinished, finishedWorkerCount, barrier, jobVars>>

ResetStart(w) ==
    /\ GotoW(w, "reset", "signal")
    /\ startWorkers' = FALSE
    /\ UNCHANGED <<callerVars, allWorkersFinished, finishedWorkerCount, barrier, jobVars>>

SignalFinished(w) ==
    /\ GotoW(w, "signal", "spin")
    /\ allWorkersFinished' = TRUE
    /\ UNCHANGED <<callerVars, startWorkers, finishedWorkerCount, barrier, jobVars>>

\* Mutant: no barrier between two jobs.
SpinWait_Never(w) ==
    /\ GotoW(w, "spin", "loop")
    /\ UNCHANGED <<callerVars, startWorkers, allWorkersFinished, finishedWorkerCount, barrier, jobVars>>

SpinWait(w) ==
    /\ GotoW(w, "spin", "loop")
    /\ barrier[w] # allFinishedBarrier
    /\ barrier' = [barrier EXCEPT ![w] = @ + 1]
    /\ UNCHANGED <<callerVars, startWorkers, allWorkersFinished, finishedWorkerCount, jobVars>>

WorkerStep(w) ==
    \/ Loop(w) \/ AwaitStart(w) \/ Check(w) \/ WorkerTask(w)
    \/ Count(w) \/ ResetStart(w) \/ SignalFinished(w) \/ SpinWait(w)

-----------------------------------------------------------------------------
\* Dispose(), its two writes; it may be called again.
Dispose ==
    /\ running' = FALSE
    /\ UNCHANGED <<workersStarted, startWorkers, allWorkersFinished, finishedWorkerCount,
                   allFinishedBarrier, usedBy, step, workerStep, barrier, jobVars>>

DisposeSet ==
    /\ ~running
    /\ startWorkers' = TRUE
    /\ UNCHANGED <<running, workersStarted, allWorkersFinished, finishedWorkerCount,
                   allFinishedBarrier, usedBy, step, workerStep, barrier, jobVars>>

RunnerNext ==
    \/ \E c \in Callers : ExecuteJob(c)
    \/ CallerStep
    \/ \E w \in Workers : WorkerStep(w)
    \/ Dispose
    \/ DisposeSet

RunnerSpec == RunnerInit /\ [][RunnerNext]_runnerVars

\* The operating system runs every thread that can go on.
FairRunnerSpec ==
    /\ RunnerSpec
    /\ WF_runnerVars(CallerStep)
    /\ \A w \in Workers : WF_runnerVars(WorkerStep(w))

-----------------------------------------------------------------------------
(***************************************************************************)
(* The rendezvous of a job, for any interleaving with Dispose():           *)
(* finishedWorkerCount counts the workers that passed their task and never *)
(* exceeds workerCount (AssertWorkerCount); they do not leave their spin   *)
(* before the caller has opened the barrier; allWorkersFinished is set for *)
(* the current job only, when all workers passed and the reset of          *)
(* startWorkers is done; and, unless the runner is disposed, startWorkers  *)
(* is not set when the barrier opens (AssertStartWorkersNotSignaled).      *)
(***************************************************************************)
Steps == {"idle", "count", "start", "task", "wait", "reset", "barrier", "return"}
WorkerSteps == {"new", "loop", "await", "check", "task", "count", "reset", "signal", "spin", "exit"}

TypeInv ==
    /\ running \in BOOLEAN /\ workersStarted \in BOOLEAN
    /\ startWorkers \in BOOLEAN /\ allWorkersFinished \in BOOLEAN
    /\ finishedWorkerCount \in 0..workerCount
    /\ allFinishedBarrier \in Nat
    /\ step \in Steps
    /\ usedBy \in Callers \cup {NoCaller}
    /\ usedBy = NoCaller <=> step = "idle"
    /\ workerStep \in [Workers -> WorkerSteps]
    /\ barrier \in [Workers -> Nat]
    /\ taskExceptions \subseteq done
    /\ done \subseteq Tasks
    /\ outcome \in [Callers -> SUBSET Tasks]

Executing == step \in {"task", "wait"}
Closing == step \in {"reset", "barrier"}

\* A worker that waits in its spin loop for the barrier of this job.
Spinning(w) == workerStep[w] = "spin" /\ barrier[w] = allFinishedBarrier
AllSpinning == \A w \in Workers : Spinning(w)

\* The workers that have counted themselves in this job.
CountedWorkers == {w \in Workers : workerStep[w] \in {"reset", "signal"} \/ Spinning(w)}

WorkerInv(w) ==
    /\ workerStep[w] = "new" <=> ~workersStarted
    /\ \/ barrier[w] = allFinishedBarrier
       \/ workerStep[w] = "spin" /\ barrier[w] + 1 = allFinishedBarrier
    /\ w \in CountedWorkers \/ workerStep[w] \in {"task", "count"} => Executing \/ Closing
    /\ workerStep[w] = "check" /\ running => Executing
    /\ Executing \/ Closing => (w \in done <=> w \in CountedWorkers \/ workerStep[w] = "count")
    /\ workerStep[w] \in {"reset", "signal"} =>
         ~allWorkersFinished /\ \A v \in Workers \ {w} : Spinning(v)
    /\ workerStep[w] = "signal" /\ running => ~startWorkers

RendezvousInv ==
    /\ step \in {"count", "start"} => done = {}
    /\ step = "start" \/ Executing \/ Closing => finishedWorkerCount = Cardinality(CountedWorkers)
    /\ Executing \/ Closing => (Main \in done <=> step # "task")
    /\ running /\ startWorkers => Executing
    /\ allWorkersFinished =>
         step \in {"task", "wait", "reset"} /\ AllSpinning /\ (running => ~startWorkers)
    /\ Closing => AllSpinning /\ (running => ~startWorkers)
    /\ step = "return" => done = Tasks

JobInv == TypeInv /\ RendezvousInv /\ \A w \in Workers : WorkerInv(w)

(***************************************************************************)
(* A job runs each of its tasks once, its caller goes on when all have     *)
(* run, with the exceptions of this job; jobs do not overlap (class doc,   *)
(* ParallelJobRunner.cs:35: thread safe).                                  *)
(***************************************************************************)
Abstract == INSTANCE ForkJoin WITH owner <- usedBy, failed <- taskExceptions

ImplementsForkJoin == Abstract!Spec

(***************************************************************************)
(* A job returns to its caller, unless the runner is disposed.             *)
(***************************************************************************)
JobReturns == step # "idle" ~> (step = "idle" \/ ~running)
=============================================================================
