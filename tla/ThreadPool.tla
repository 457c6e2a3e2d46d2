----------------------------- MODULE ThreadPool -----------------------------
(***************************************************************************)
(* core/threading/thread_pool.h: the pool behind CollectPool and SinkPool. *)
(*                                                                         *)
(* A critical section of mutex_ is one action.  cv_ is the set of workers  *)
(* asleep on it: notify_one wakes one of them if there is one, notify_all  *)
(* all of them, and a worker may wake for no reason.  The notification     *)
(* follows the critical section as a step of its own, as in the code.      *)
(*                                                                         *)
(* Nobody submits once the destructor runs: the owner has stopped its      *)
(* submitters before it destroys the pool (Pipeline, PoolsOwned).          *)
(*                                                                         *)
(* The names that every component has (Init, Next, Spec, ...) begin with   *)
(* Pool here: Engine_proofs uses this module together with TimerWheel.     *)
(***************************************************************************)
EXTENDS Integers, Sequences, FiniteSets

CONSTANTS Workers, Submitters,
          MaxTasks    \* bound: tasks are numbered 1..MaxTasks as submitted

ASSUME PoolAssumption ==
    /\ IsFiniteSet(Workers) /\ Workers # {}
    /\ MaxTasks \in Nat

VARIABLES
    tasks,     \* tasks_: numbers of the queued tasks
    stop,      \* stop_
    wpc,       \* worker: "check", "asleep", "run" or "exited"
    current,   \* the task a worker has taken, 0 if none
    spc,       \* submitter: "idle" or "notify"
    dpc,       \* destructor: "no", "notify", "join", "done"
    submitted, \* number of tasks submitted so far
    done       \* tasks that have been executed, in order of completion

poolVars == <<tasks, stop, wpc, current, spc, dpc, submitted, done>>

PoolInit ==
    /\ tasks = <<>>
    /\ stop = FALSE
    /\ wpc = [w \in Workers |-> "check"]
    /\ current = [w \in Workers |-> 0]
    /\ spc = [s \in Submitters |-> "idle"]
    /\ dpc = "no"
    /\ submitted = 0
    /\ done = <<>>

Asleep == {w \in Workers : wpc[w] = "asleep"}

-----------------------------------------------------------------------------
(* Submit *)

SubmitPush(s) ==
    /\ spc[s] = "idle" /\ dpc = "no"
    /\ submitted < MaxTasks
    /\ submitted' = submitted + 1
    /\ tasks' = Append(tasks, submitted + 1)
    /\ spc' = [spc EXCEPT ![s] = "notify"]
    /\ UNCHANGED <<stop, wpc, current, dpc, done>>

\* Mistake: nobody is notified.
SubmitNotifyNobody(s) ==
    /\ spc[s] = "notify"
    /\ spc' = [spc EXCEPT ![s] = "idle"]
    /\ UNCHANGED <<tasks, stop, wpc, current, dpc, submitted, done>>

SubmitNotify(s) ==
    /\ spc[s] = "notify"
    /\ spc' = [spc EXCEPT ![s] = "idle"]
    /\ \/ /\ Asleep = {}
          /\ UNCHANGED wpc
       \/ \E w \in Asleep : wpc' = [wpc EXCEPT ![w] = "check"]
    /\ UNCHANGED <<tasks, stop, current, dpc, submitted, done>>

-----------------------------------------------------------------------------
(* WorkerLoop *)

\* The predicate of cv_.wait is false: sleep, releasing the mutex.
WorkerSleep(w) ==
    /\ wpc[w] = "check"
    /\ ~stop /\ tasks = <<>>
    /\ wpc' = [wpc EXCEPT ![w] = "asleep"]
    /\ UNCHANGED <<tasks, stop, current, spc, dpc, submitted, done>>

WorkerSpuriousWake(w) ==
    /\ wpc[w] = "asleep"
    /\ wpc' = [wpc EXCEPT ![w] = "check"]
    /\ UNCHANGED <<tasks, stop, current, spc, dpc, submitted, done>>

\* Mistake: a worker leaves as soon as stop_ is set.
WorkerExitUndrained(w) ==
    /\ wpc[w] = "check"
    /\ stop
    /\ wpc' = [wpc EXCEPT ![w] = "exited"]
    /\ UNCHANGED <<tasks, stop, current, spc, dpc, submitted, done>>

WorkerExit(w) ==
    /\ wpc[w] = "check"
    /\ stop /\ tasks = <<>>
    /\ wpc' = [wpc EXCEPT ![w] = "exited"]
    /\ UNCHANGED <<tasks, stop, current, spc, dpc, submitted, done>>

\* Mistake: the task is copied from the front and not popped.
WorkerTakeCopy(w) ==
    /\ wpc[w] = "check"
    /\ tasks # <<>>
    /\ current' = [current EXCEPT ![w] = Head(tasks)]
    /\ wpc' = [wpc EXCEPT ![w] = "run"]
    /\ UNCHANGED <<tasks, stop, spc, dpc, submitted, done>>

\* Mistake: the newest task is taken first.
WorkerTakeNewest(w) ==
    /\ wpc[w] = "check"
    /\ tasks # <<>>
    /\ current' = [current EXCEPT ![w] = tasks[Len(tasks)]]
    /\ tasks' = SubSeq(tasks, 1, Len(tasks) - 1)
    /\ wpc' = [wpc EXCEPT ![w] = "run"]
    /\ UNCHANGED <<stop, spc, dpc, submitted, done>>

WorkerTake(w) ==
    /\ wpc[w] = "check"
    /\ tasks # <<>>
    /\ current' = [current EXCEPT ![w] = Head(tasks)]
    /\ tasks' = Tail(tasks)
    /\ wpc' = [wpc EXCEPT ![w] = "run"]
    /\ UNCHANGED <<stop, spc, dpc, submitted, done>>

\* task(), outside the mutex; an exception ends in the task's future.
WorkerRun(w) ==
    /\ wpc[w] = "run"
    /\ done' = Append(done, current[w])
    /\ current' = [current EXCEPT ![w] = 0]
    /\ wpc' = [wpc EXCEPT ![w] = "check"]
    /\ UNCHANGED <<tasks, stop, spc, dpc, submitted>>

-----------------------------------------------------------------------------
(* ~ThreadPool *)

DestroyStop ==
    /\ dpc = "no"
    /\ \A s \in Submitters : spc[s] = "idle"
    /\ stop' = TRUE
    /\ dpc' = "notify"
    /\ UNCHANGED <<tasks, wpc, current, spc, submitted, done>>

\* Mistake: the destructor wakes one worker.
DestroyNotifyOne ==
    /\ dpc = "notify"
    /\ \/ /\ Asleep = {}
          /\ UNCHANGED wpc
       \/ \E w \in Asleep : wpc' = [wpc EXCEPT ![w] = "check"]
    /\ dpc' = "join"
    /\ UNCHANGED <<tasks, stop, current, spc, submitted, done>>

DestroyNotify ==
    /\ dpc = "notify"
    /\ wpc' = [w \in Workers |-> IF w \in Asleep THEN "check" ELSE wpc[w]]
    /\ dpc' = "join"
    /\ UNCHANGED <<tasks, stop, current, spc, submitted, done>>

DestroyJoin ==
    /\ dpc = "join"
    /\ \A w \in Workers : wpc[w] = "exited"
    /\ dpc' = "done"
    /\ UNCHANGED <<tasks, stop, wpc, current, spc, submitted, done>>

-----------------------------------------------------------------------------
PoolNext ==
    \/ \E s \in Submitters : SubmitPush(s) \/ SubmitNotify(s)
    \/ \E w \in Workers : \/ WorkerSleep(w) \/ WorkerSpuriousWake(w)
                          \/ WorkerExit(w) \/ WorkerTake(w) \/ WorkerRun(w)
    \/ DestroyStop \/ DestroyNotify \/ DestroyJoin

PoolSpec == PoolInit /\ [][PoolNext]_poolVars

WorkerStep(w) == WorkerSleep(w) \/ WorkerExit(w) \/ WorkerTake(w) \/ WorkerRun(w)

\* Every thread that can run is eventually scheduled and every task ends; a
\* sleeping worker is not owed a spurious wake-up, and the pool need not be
\* destroyed.
Fairness ==
    /\ \A w \in Workers : WF_poolVars(WorkerStep(w))
    /\ \A s \in Submitters : WF_poolVars(SubmitNotify(s))
    /\ WF_poolVars(DestroyNotify) /\ WF_poolVars(DestroyJoin)

PoolFairSpec == PoolSpec /\ Fairness

-----------------------------------------------------------------------------
(* Properties *)

\* Type invariant.
PoolTypeOK ==
    /\ tasks \in Seq(1..MaxTasks)
    /\ stop \in BOOLEAN
    /\ wpc \in [Workers -> {"check", "asleep", "run", "exited"}]
    /\ current \in [Workers -> 0..MaxTasks]
    /\ spc \in [Submitters -> {"idle", "notify"}]
    /\ dpc \in {"no", "notify", "join", "done"}
    /\ submitted \in 0..MaxTasks
    /\ done \in Seq(1..MaxTasks)

\* A task waits in the queue, or is in the hands of one worker, or is done.
Place(i) ==
      Cardinality({k \in DOMAIN tasks : tasks[k] = i})
    + Cardinality({w \in Workers : current[w] = i})
    + Cardinality({k \in DOMAIN done : done[k] = i})

\* Every submitted task is in exactly one place: no task is lost and none is
\* run twice, whichever workers race for it.
ExactlyOnce == \A i \in 1..MaxTasks : Place(i) = IF i <= submitted THEN 1 ELSE 0

\* A queued task is never forgotten: if every worker sleeps, the wake-up for
\* it is still on its way.
NoLostWakeup ==
    tasks # <<>> =>
        \/ \E w \in Workers : wpc[w] \in {"check", "run"}
        \/ \E s \in Submitters : spc[s] = "notify"
        \/ dpc = "notify"

\* The destructor returns only after every submitted task has run: what the
\* shutdown in PipelineController::StopAll and the SinkPool comment rely on.
DestroyedMeansDrained ==
    dpc = "done" => /\ tasks = <<>>
                    /\ Len(done) = submitted
                    /\ \A w \in Workers : wpc[w] = "exited"

\* Tasks leave the queue in the order they were submitted.
TakenInOrder ==
    /\ \A k \in 1..(Len(tasks) - 1) : tasks[k] < tasks[k + 1]
    /\ \A k \in DOMAIN tasks, w \in Workers : current[w] < tasks[k]
    /\ \A k \in DOMAIN tasks, j \in DOMAIN done : done[j] < tasks[k]

\* No task is lost, run twice or overtaken.
OnceInOrder == ExactlyOnce /\ TakenInOrder

Promise == INSTANCE TaskFifo WITH
    Task <- 1..MaxTasks, None <- 0, queue <- tasks, hands <- current,
    owner <- IF dpc = "no" THEN "using" ELSE IF dpc = "done" THEN "gone" ELSE "destroying"

\* With its condition variable, lost races and spurious wake-ups the pool is what
\* Pipeline takes CollectPool and SinkPool for: a FIFO of tasks, one for each free
\* worker, whose destructor waits for all of them.
ImplementsTaskFifo == Promise!Spec

\* Every submitted task is eventually run.
EveryTaskRuns ==
    \A i \in 1..MaxTasks : (submitted >= i) ~> (\E k \in DOMAIN done : done[k] = i)

\* The destructor is never stuck joining a worker that sleeps for ever.
DestructorReturns == (dpc = "notify") ~> (dpc = "done")
=============================================================================
