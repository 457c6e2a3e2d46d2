---------------------------- MODULE Engine_proofs ----------------------------
(***************************************************************************)
(* Proofs about the two schedulers of core/engine and core/threading, each *)
(* of which is a component of its own: the worker pools (ThreadPool) and   *)
(* the timer thread (TimerWheel).                                          *)
(*                                                                         *)
(* ThreadPool, for every finite set of workers, every set of submitters    *)
(* and every MaxTasks: no wake-up is lost, the destructor returns only     *)
(* after every submitted task has run, tasks are taken in the order of     *)
(* their submission and every one of them is run exactly once; the pool    *)
(* implements TaskFifo.                                                    *)
(*                                                                         *)
(* TimerWheel, for every number of timers, every set of intervals and      *)
(* every bound on the clock: the wheel never sleeps without an alarm,      *)
(* timers keep their schedule, a cancelled timer runs at most once more,   *)
(* and no callback runs after Stop returned.                               *)
(***************************************************************************)
EXTENDS ThreadPool, TimerWheel, FiniteSetTheorems, TLAPS

-----------------------------------------------------------------------------
(* ThreadPool: the inductive invariant                                     *)

Busy == {w \in Workers : wpc[w] = "run"}

\* A worker leaves only an empty queue that is closed for good, and the
\* destructor sets its flag before it notifies and joins.
Closing ==
    /\ stop <=> dpc # "no"
    /\ dpc # "no" => \A s \in Submitters : spc[s] = "idle"
    /\ \A w \in Workers : wpc[w] = "exited" => stop /\ tasks = <<>>
    /\ dpc = "done" => \A w \in Workers : wpc[w] = "exited"

\* Every submitted task is queued, taken or done.
Conserved == Len(tasks) + Cardinality(Busy) + Len(done) = submitted

\* A worker that runs has a task.
RunsATask == \A w \in Workers : wpc[w] = "run" => current[w] \in 1..MaxTasks

PoolInv == PoolTypeOK /\ RunsATask /\ Closing /\ NoLostWakeup /\ Conserved

-----------------------------------------------------------------------------
\* There are finitely many workers to count.
LEMMA BusyIsFinite == IsFiniteSet(Busy) /\ Cardinality(Busy) \in Nat
<1>1. Busy \subseteq Workers
  BY DEF Busy
<1>2. IsFiniteSet(Busy)
  BY <1>1, PoolAssumption, FS_Subset
<1>. QED  BY <1>2, FS_CardinalityType

\* The constructor establishes the invariant.
LEMMA PoolInvInit == PoolInit => PoolInv
<1>. SUFFICES ASSUME PoolInit PROVE PoolInv
  OBVIOUS
<1>1. PoolTypeOK
  <2>1. stop \in BOOLEAN
    BY Zenon DEF PoolInit
  <2>2. MaxTasks \in Nat
    BY PoolAssumption
  <2>3. /\ tasks \in Seq(1..MaxTasks) /\ done \in Seq(1..MaxTasks)
        /\ submitted \in 0..MaxTasks
        /\ current \in [Workers -> 0..MaxTasks]
    BY <2>2, SMT DEF PoolInit
  <2>4. /\ wpc \in [Workers -> {"check", "asleep", "run", "exited"}]
        /\ spc \in [Submitters -> {"idle", "notify"}]
        /\ dpc \in {"no", "notify", "join", "done"}
    BY SMT DEF PoolInit
  <2>. QED  BY <2>1, <2>3, <2>4 DEF PoolTypeOK
<1>2. Closing
  BY DEF PoolInit, Closing
<1>3. NoLostWakeup
  BY DEF PoolInit, NoLostWakeup
<1>4. Conserved
  <2>1. Busy = {}
    BY DEF PoolInit, Busy
  <2>. QED  BY <2>1, FS_EmptySet DEF PoolInit, Conserved
<1>5. RunsATask
  BY DEF PoolInit, RunsATask
<1>. QED  BY <1>1, <1>2, <1>3, <1>4, <1>5 DEF PoolInv

\* The invariant survives Submit's critical section and its notification.
LEMMA SubmitPreserves ==
    ASSUME PoolInv, NEW s \in Submitters, SubmitPush(s) \/ SubmitNotify(s)
    PROVE  PoolInv'
<1>. USE DEF PoolInv
<1>m. MaxTasks \in Nat
  BY PoolAssumption
<1>1. CASE SubmitPush(s)
  <2>. USE <1>1 DEF SubmitPush
  <2>1. PoolTypeOK'
    <3>1. submitted + 1 \in 1..MaxTasks
      BY <1>m, SMT DEF PoolTypeOK
    <3>2. tasks' \in Seq(1..MaxTasks) /\ submitted' \in 0..MaxTasks
      BY <3>1, <1>m, SMT DEF PoolTypeOK
    <3>3. spc' \in [Submitters -> {"idle", "notify"}]
      BY SMT DEF PoolTypeOK
    <3>. QED  BY <3>2, <3>3 DEF PoolTypeOK
  <2>2. \A w \in Workers : wpc[w] # "exited"
    BY DEF Closing
  <2>3. Closing'
    BY <2>2 DEF Closing
  <2>4. spc'[s] = "notify"
    BY DEF PoolTypeOK
  <2>5. NoLostWakeup'
    BY <2>4 DEF NoLostWakeup
  <2>6. Conserved'
    <3>1. Busy' = Busy
      BY DEF Busy
    <3>2. Len(tasks') = Len(tasks) + 1
      BY SMT DEF PoolTypeOK
    <3>3. Len(tasks) \in Nat /\ Len(done) \in Nat /\ submitted \in Nat
      BY <1>m, SMT DEF PoolTypeOK
    <3>. QED  BY <3>1, <3>2, <3>3, BusyIsFinite, SMT DEF Conserved
  <2>7. RunsATask'
    BY DEF RunsATask
  <2>. QED  BY <2>1, <2>3, <2>5, <2>6, <2>7
<1>2. CASE SubmitNotify(s)
  <2>. USE <1>2 DEF SubmitNotify
  <2>0. \/ Asleep = {} /\ wpc' = wpc
        \/ \E w \in Asleep : wpc' = [wpc EXCEPT ![w] = "check"]
    OBVIOUS
  <2>1. PoolTypeOK'
    <3>1. spc' \in [Submitters -> {"idle", "notify"}]
      BY SMT DEF PoolTypeOK
    <3>2. wpc' \in [Workers -> {"check", "asleep", "run", "exited"}]
      BY <2>0, SMT DEF PoolTypeOK, Asleep
    <3>. QED  BY <3>1, <3>2 DEF PoolTypeOK
  <2>2. \A w \in Workers : /\ wpc'[w] = "exited" <=> wpc[w] = "exited"
                           /\ wpc'[w] = "run" <=> wpc[w] = "run"
    BY <2>0, SMT DEF PoolTypeOK, Asleep
  <2>3. Closing'
    <3>1. \A u \in Submitters : spc[u] = "idle" => spc'[u] = "idle"
      BY DEF PoolTypeOK
    <3>. QED  BY <2>2, <3>1 DEF Closing
  <2>4. NoLostWakeup'
    <3>. SUFFICES ASSUME tasks # <<>>
         PROVE  \E w \in Workers : wpc'[w] \in {"check", "run"}
      BY DEF NoLostWakeup
    <3>1. \A w \in Workers : wpc[w] # "exited"
      BY DEF Closing
    <3>2. CASE Asleep = {} /\ wpc' = wpc
      <4>1. PICK w \in Workers : TRUE
        BY PoolAssumption
      <4>2. wpc[w] \in {"check", "run"}
        BY <3>1, <3>2, SMT DEF Asleep, PoolTypeOK
      <4>. QED  BY <3>2, <4>2
    <3>3. CASE \E w \in Asleep : wpc' = [wpc EXCEPT ![w] = "check"]
      <4>1. PICK w \in Asleep : wpc' = [wpc EXCEPT ![w] = "check"]
        BY <3>3
      <4>2. w \in Workers /\ wpc'[w] = "check"
        BY <4>1, SMT DEF Asleep, PoolTypeOK
      <4>. QED  BY <4>2
    <3>. QED  BY <2>0, <3>2, <3>3
  <2>5. Conserved'
    <3>1. Busy' = Busy
      BY <2>2 DEF Busy
    <3>. QED  BY <3>1 DEF Conserved
  <2>6. RunsATask'
    BY <2>2 DEF RunsATask
  <2>. QED  BY <2>1, <2>3, <2>4, <2>5, <2>6
<1>. QED  BY <1>1, <1>2

\* The invariant survives every step of a worker: sleeping, waking for no
\* reason, leaving, taking a task and running it.
LEMMA WorkerPreserves ==
    ASSUME PoolInv, NEW w \in Workers,
           \/ WorkerSleep(w) \/ WorkerSpuriousWake(w) \/ WorkerExit(w)
           \/ WorkerTake(w) \/ WorkerRun(w)
    PROVE  PoolInv'
<1>. USE DEF PoolInv
<1>m. MaxTasks \in Nat
  BY PoolAssumption
<1>n. Len(tasks) \in Nat /\ Len(done) \in Nat /\ submitted \in Nat
  BY <1>m, SMT DEF PoolTypeOK
<1>1. CASE WorkerSleep(w)
  <2>. USE <1>1 DEF WorkerSleep
  <2>1. PoolTypeOK'
    BY SMT DEF PoolTypeOK
  <2>2. \A v \in Workers : /\ wpc'[v] = "exited" <=> wpc[v] = "exited"
                           /\ wpc'[v] = "run" <=> wpc[v] = "run"
    BY SMT DEF PoolTypeOK
  <2>3. Closing'
    BY <2>2 DEF Closing
  <2>4. NoLostWakeup'
    BY DEF NoLostWakeup
  <2>5. Busy' = Busy
    BY <2>2 DEF Busy
  <2>6. RunsATask'
    BY <2>2 DEF RunsATask
  <2>. QED  BY <2>1, <2>3, <2>4, <2>5, <2>6 DEF Conserved
<1>2. CASE WorkerSpuriousWake(w)
  <2>. USE <1>2 DEF WorkerSpuriousWake
  <2>1. PoolTypeOK'
    BY SMT DEF PoolTypeOK
  <2>2. \A v \in Workers : /\ wpc'[v] = "exited" <=> wpc[v] = "exited"
                           /\ wpc'[v] = "run" <=> wpc[v] = "run"
                           /\ wpc[v] = "check" => wpc'[v] = "check"
    BY SMT DEF PoolTypeOK
  <2>3. Closing'
    BY <2>2 DEF Closing
  <2>4. NoLostWakeup'
    BY <2>2 DEF NoLostWakeup
  <2>5. Busy' = Busy
    BY <2>2 DEF Busy
  <2>6. RunsATask'
    BY <2>2 DEF RunsATask
  <2>. QED  BY <2>1, <2>3, <2>4, <2>5, <2>6 DEF Conserved
<1>3. CASE WorkerExit(w)
  <2>. USE <1>3 DEF WorkerExit
  <2>1. PoolTypeOK'
    BY SMT DEF PoolTypeOK
  <2>2. \A v \in Workers : /\ wpc[v] = "exited" => wpc'[v] = "exited"
                           /\ wpc'[v] = "run" <=> wpc[v] = "run"
    BY SMT DEF PoolTypeOK
  <2>3. Closing'
    BY <2>2 DEF Closing
  <2>4. NoLostWakeup'
    BY DEF NoLostWakeup
  <2>5. Busy' = Busy
    BY <2>2 DEF Busy
  <2>6. RunsATask'
    BY <2>2 DEF RunsATask
  <2>. QED  BY <2>1, <2>3, <2>4, <2>5, <2>6 DEF Conserved
<1>4. CASE WorkerTake(w)
  <2>. USE <1>4 DEF WorkerTake
  <2>1. /\ Head(tasks) \in 1..MaxTasks
        /\ tasks' \in Seq(1..MaxTasks)
        /\ Len(tasks') = Len(tasks) - 1
    BY <1>m, SMT DEF PoolTypeOK
  <2>2. PoolTypeOK'
    <3>1. current' \in [Workers -> 0..MaxTasks]
      BY <2>1, <1>m, SMT DEF PoolTypeOK
    <3>2. wpc' \in [Workers -> {"check", "asleep", "run", "exited"}]
      BY SMT DEF PoolTypeOK
    <3>. QED  BY <2>1, <3>1, <3>2 DEF PoolTypeOK
  <2>3. \A v \in Workers : wpc'[v] = IF v = w THEN "run" ELSE wpc[v]
    BY DEF PoolTypeOK
  <2>4. Closing'
    BY <2>3 DEF Closing
  <2>5. NoLostWakeup'
    BY <2>3 DEF NoLostWakeup
  <2>6. Conserved'
    <3>1. w \notin Busy /\ Busy' = Busy \cup {w}
      BY <2>3 DEF Busy
    <3>2. Cardinality(Busy') = Cardinality(Busy) + 1
      BY <3>1, BusyIsFinite, FS_AddElement
    <3>. QED  BY <3>2, <2>1, <1>n, BusyIsFinite, SMT DEF Conserved
  <2>7. RunsATask'
    <3>1. \A v \in Workers :
              current'[v] = IF v = w THEN Head(tasks) ELSE current[v]
      BY DEF PoolTypeOK
    <3>. QED  BY <2>1, <2>3, <3>1 DEF RunsATask
  <2>. QED  BY <2>2, <2>4, <2>5, <2>6, <2>7
<1>5. CASE WorkerRun(w)
  <2>. USE <1>5 DEF WorkerRun
  <2>1. current[w] \in 1..MaxTasks
    BY DEF RunsATask
  <2>2. PoolTypeOK'
    <3>1. done' \in Seq(1..MaxTasks)
      BY <2>1, SMT DEF PoolTypeOK
    <3>2. current' \in [Workers -> 0..MaxTasks]
      BY <1>m, SMT DEF PoolTypeOK
    <3>3. wpc' \in [Workers -> {"check", "asleep", "run", "exited"}]
      BY SMT DEF PoolTypeOK
    <3>. QED  BY <3>1, <3>2, <3>3 DEF PoolTypeOK
  <2>3. \A v \in Workers : wpc'[v] = IF v = w THEN "check" ELSE wpc[v]
    BY DEF PoolTypeOK
  <2>4. Closing'
    BY <2>3 DEF Closing
  <2>5. NoLostWakeup'
    BY <2>3 DEF NoLostWakeup
  <2>6. Conserved'
    <3>1. w \in Busy /\ Busy' = Busy \ {w}
      BY <2>3 DEF Busy
    <3>2. Cardinality(Busy') = Cardinality(Busy) - 1
      BY <3>1, BusyIsFinite, FS_RemoveElement
    <3>3. Len(done') = Len(done) + 1
      BY SMT DEF PoolTypeOK
    <3>. QED  BY <3>2, <3>3, <1>n, BusyIsFinite, SMT DEF Conserved
  <2>7. RunsATask'
    <3>1. \A v \in Workers : current'[v] = IF v = w THEN 0 ELSE current[v]
      BY DEF PoolTypeOK
    <3>. QED  BY <2>3, <3>1 DEF RunsATask
  <2>. QED  BY <2>2, <2>4, <2>5, <2>6, <2>7
<1>. QED  BY <1>1, <1>2, <1>3, <1>4, <1>5

\* The invariant survives the three steps of the destructor.
LEMMA DestroyPreserves ==
    ASSUME PoolInv, DestroyStop \/ DestroyNotify \/ DestroyJoin
    PROVE  PoolInv'
<1>. USE DEF PoolInv
<1>1. CASE DestroyStop
  <2>. USE <1>1 DEF DestroyStop
  <2>1. stop' \in BOOLEAN
    BY Zenon
  <2>2. PoolTypeOK'
    BY <2>1 DEF PoolTypeOK
  <2>3. Closing' /\ NoLostWakeup' /\ RunsATask'
    BY DEF Closing, NoLostWakeup, RunsATask
  <2>4. Busy' = Busy
    BY DEF Busy
  <2>. QED  BY <2>2, <2>3, <2>4 DEF Conserved
<1>2. CASE DestroyNotify
  <2>. USE <1>2 DEF DestroyNotify
  <2>1. PoolTypeOK'
    BY SMT DEF PoolTypeOK
  <2>2. \A w \in Workers : /\ wpc'[w] = "exited" <=> wpc[w] = "exited"
                           /\ wpc'[w] = "run" <=> wpc[w] = "run"
                           /\ wpc'[w] # "asleep"
    BY SMT DEF PoolTypeOK, Asleep
  <2>3. Closing'
    BY <2>2 DEF Closing
  <2>4. NoLostWakeup'
    <3>. SUFFICES ASSUME tasks # <<>>
         PROVE  \E w \in Workers : wpc'[w] \in {"check", "run"}
      BY DEF NoLostWakeup
    <3>1. PICK w \in Workers : TRUE
      BY PoolAssumption
    <3>2. wpc'[w] # "exited"
      BY <2>2 DEF Closing
    <3>. QED  BY <2>1, <2>2, <3>2 DEF PoolTypeOK
  <2>5. Busy' = Busy
    BY <2>2 DEF Busy
  <2>6. RunsATask'
    BY <2>2 DEF RunsATask
  <2>. QED  BY <2>1, <2>3, <2>4, <2>5, <2>6 DEF Conserved
<1>3. CASE DestroyJoin
  <2>. USE <1>3 DEF DestroyJoin
  <2>1. PoolTypeOK'
    BY DEF PoolTypeOK
  <2>2. Closing' /\ NoLostWakeup' /\ RunsATask'
    BY DEF Closing, NoLostWakeup, RunsATask
  <2>3. Busy' = Busy
    BY DEF Busy
  <2>. QED  BY <2>1, <2>2, <2>3 DEF Conserved
<1>. QED  BY <1>1, <1>2, <1>3

\* The invariant holds in every reachable state.
THEOREM PoolInvariant == PoolSpec => []PoolInv
<1>1. PoolInv /\ [PoolNext]_poolVars => PoolInv'
  <2>. SUFFICES ASSUME PoolInv, [PoolNext]_poolVars PROVE PoolInv'
    OBVIOUS
  <2>1. CASE UNCHANGED poolVars
    BY <2>1 DEF poolVars, PoolInv, PoolTypeOK, RunsATask, Closing, NoLostWakeup,
                Conserved, Busy
  <2>2. CASE PoolNext
    BY <2>2, SubmitPreserves, WorkerPreserves, DestroyPreserves DEF PoolNext
  <2>. QED  BY <2>1, <2>2
<1>. QED  BY PoolInvInit, <1>1, PTL DEF PoolSpec

\* Whatever the number of workers and submitters and however they interleave
\* with spurious wake-ups, a queued task never waits for workers that all
\* sleep: the notify_one after Submit's critical section is enough.
THEOREM WakeupsAreNotLost == PoolSpec => []NoLostWakeup
<1>1. PoolInv => NoLostWakeup
  BY DEF PoolInv
<1>. QED  BY <1>1, PoolInvariant, PTL

\* ~ThreadPool returns only after every submitted task has run and every worker
\* has left: collect_pool_.reset() and the destruction of sink_pool_ rely on it.
THEOREM DestructorDrains == PoolSpec => []DestroyedMeansDrained
<1>1. PoolInv => DestroyedMeansDrained
  <2>. SUFFICES ASSUME PoolInv, dpc = "done"
       PROVE  /\ tasks = <<>>
              /\ Len(done) = submitted
              /\ \A w \in Workers : wpc[w] = "exited"
    BY DEF DestroyedMeansDrained
  <2>1. \A w \in Workers : wpc[w] = "exited"
    BY DEF PoolInv, Closing
  <2>2. tasks = <<>>
    <3>1. PICK w \in Workers : TRUE
      BY PoolAssumption
    <3>. QED  BY <2>1, <3>1 DEF PoolInv, Closing
  <2>3. Cardinality(Busy) = 0
    <3>1. Busy = {}
      BY <2>1 DEF Busy
    <3>. QED  BY <3>1, FS_EmptySet
  <2>4. Len(done) = submitted
    <3>1. Len(done) \in Nat /\ Len(tasks) = 0
      BY <2>2, SMT DEF PoolInv, PoolTypeOK
    <3>2. Len(tasks) + Cardinality(Busy) + Len(done) = submitted
      BY DEF PoolInv, Conserved
    <3>. QED  BY <3>1, <3>2, <2>3, SMT
  <2>. QED  BY <2>1, <2>2, <2>4
<1>. QED  BY <1>1, PoolInvariant, PTL

-----------------------------------------------------------------------------
(* Order, and each task once.  The tasks in the queue are the last          *)
(* Len(tasks) submitted, in order; all earlier ones have been taken.        *)

Taken == submitted - Len(tasks)

InHand(i)   == {w \in Workers : current[w] = i}
Finished(i) == {k \in DOMAIN done : done[k] = i}

\* The queue is a window of consecutive task numbers that ends at submitted.
Window == \A k \in 1..Len(tasks) : tasks[k] = Taken + k

\* What a worker holds or has finished was taken before what is queued.
Older ==
    /\ \A w \in Workers : current[w] <= Taken
    /\ \A k \in 1..Len(done) : done[k] <= Taken

\* Only a worker that runs holds a task.
HandsEmpty == \A w \in Workers : wpc[w] # "run" => current[w] = 0

\* A task that was taken is in one hand, or finished once.
TakenOnce ==
    \A i \in 1..MaxTasks :
        i <= Taken => Cardinality(InHand(i)) + Cardinality(Finished(i)) = 1

OrderInv == Window /\ Older /\ HandsEmpty /\ TakenOnce

\* The sets counted by ExactlyOnce are finite.
LEMMA PlacesAreFinite ==
    ASSUME PoolTypeOK, NEW i
    PROVE  /\ IsFiniteSet(InHand(i)) /\ Cardinality(InHand(i)) \in Nat
           /\ IsFiniteSet(Finished(i)) /\ Cardinality(Finished(i)) \in Nat
<1>1. IsFiniteSet(InHand(i))
  <2>1. InHand(i) \in SUBSET Workers
    BY DEF InHand
  <2>. QED  BY <2>1, PoolAssumption, FS_Subset
<1>2. IsFiniteSet(Finished(i))
  <2>1. Len(done) \in Nat /\ DOMAIN done = 1..Len(done)
    BY SMT DEF PoolTypeOK
  <2>2. IsFiniteSet(1..Len(done))
    BY <2>1, FS_Interval, SMT
  <2>3. Finished(i) \in SUBSET (1..Len(done))
    BY <2>1 DEF Finished
  <2>. QED  BY <2>2, <2>3, FS_Subset
<1>. QED  BY <1>1, <1>2, FS_CardinalityType

\* What the numbers of the model range over.
LEMMA PoolNumbers ==
    ASSUME PoolInv
    PROVE  /\ MaxTasks \in Nat /\ submitted \in Nat /\ submitted <= MaxTasks
           /\ Len(tasks) \in Nat /\ Len(done) \in Nat /\ Taken \in Nat
           /\ DOMAIN tasks = 1..Len(tasks) /\ DOMAIN done = 1..Len(done)
           /\ \A w \in Workers : current[w] \in Nat
           /\ \A k \in 1..Len(done) : done[k] \in Nat
<1>1. MaxTasks \in Nat
  BY PoolAssumption
<1>2. /\ submitted \in Nat /\ submitted <= MaxTasks
      /\ Len(tasks) \in Nat /\ Len(done) \in Nat
      /\ DOMAIN tasks = 1..Len(tasks) /\ DOMAIN done = 1..Len(done)
      /\ \A w \in Workers : current[w] \in Nat
      /\ \A k \in 1..Len(done) : done[k] \in Nat
  BY <1>1, SMT DEF PoolInv, PoolTypeOK
<1>3. Taken \in Nat
  BY <1>2, BusyIsFinite, SMT DEF PoolInv, Conserved, Taken
<1>. QED  BY <1>1, <1>2, <1>3

\* The constructor establishes the order.
LEMMA OrderInit == PoolInit => OrderInv
<1>. SUFFICES ASSUME PoolInit PROVE OrderInv
  OBVIOUS
<1>1. Len(tasks) = 0 /\ Len(done) = 0 /\ submitted = 0
  BY DEF PoolInit
<1>2. Taken = 0
  BY <1>1, SMT DEF Taken
<1>. QED  BY <1>1, <1>2, SMT DEF PoolInit, OrderInv, Window, Older, HandsEmpty, TakenOnce

\* Steps that touch neither the queue nor the tasks leave the order alone.
LEMMA OrderKept ==
    ASSUME OrderInv, tasks' = tasks, submitted' = submitted,
           current' = current, done' = done,
           \A w \in Workers : wpc'[w] # "run" => wpc[w] # "run"
    PROVE  OrderInv'
BY DEF OrderInv, Window, Older, HandsEmpty, TakenOnce, Taken, InHand, Finished

\* The order survives Submit's critical section.
LEMMA OrderSubmit ==
    ASSUME PoolInv, OrderInv, NEW s \in Submitters, SubmitPush(s)
    PROVE  OrderInv'
<1>. USE DEF SubmitPush, OrderInv
<1>1. /\ Len(tasks') = Len(tasks) + 1
      /\ tasks'[Len(tasks) + 1] = submitted + 1
      /\ \A k \in 1..Len(tasks) : tasks'[k] = tasks[k]
  BY SMT DEF PoolInv, PoolTypeOK
<1>2. Taken' = Taken
  BY <1>1, PoolNumbers, SMT DEF Taken
<1>3. Window'
  <2>. SUFFICES ASSUME NEW k \in 1..Len(tasks') PROVE tasks'[k] = Taken' + k
    BY DEF Window
  <2>1. CASE k = Len(tasks) + 1
    BY <1>1, <1>2, <2>1, PoolNumbers, SMT DEF Taken
  <2>2. CASE k \in 1..Len(tasks)
    BY <1>1, <1>2, <2>2 DEF Window
  <2>. QED  BY <1>1, <2>1, <2>2, PoolNumbers, SMT
<1>4. Older' /\ HandsEmpty'
  BY <1>2 DEF Older, HandsEmpty
<1>5. TakenOnce'
  BY <1>2 DEF TakenOnce, InHand, Finished
<1>. QED  BY <1>3, <1>4, <1>5

\* The order survives the pop in WorkerLoop: the task taken is the oldest.
LEMMA OrderTake ==
    ASSUME PoolInv, OrderInv, NEW w \in Workers, WorkerTake(w)
    PROVE  OrderInv'
<1>. USE DEF WorkerTake, OrderInv
<1>1. /\ Len(tasks') = Len(tasks) - 1 /\ Len(tasks) >= 1
      /\ Head(tasks) = tasks[1]
      /\ \A k \in 1..Len(tasks') : tasks'[k] = tasks[k + 1]
  BY SMT DEF PoolInv, PoolTypeOK
<1>2. Taken' = Taken + 1 /\ Head(tasks) = Taken + 1
  BY <1>1, PoolNumbers, SMT DEF Taken, Window
<1>3. /\ \A v \in Workers : current'[v] = IF v = w THEN Taken + 1 ELSE current[v]
      /\ \A v \in Workers : wpc'[v] = IF v = w THEN "run" ELSE wpc[v]
      /\ current[w] = 0
  BY <1>2 DEF PoolInv, PoolTypeOK, HandsEmpty
<1>4. Window'
  <2>. SUFFICES ASSUME NEW k \in 1..Len(tasks') PROVE tasks'[k] = Taken' + k
    BY DEF Window
  <2>1. k + 1 \in 1..Len(tasks)
    BY <1>1, PoolNumbers, SMT
  <2>2. tasks'[k] = Taken + (k + 1)
    BY <1>1, <2>1 DEF Window
  <2>. QED  BY <1>2, <2>2, PoolNumbers, SMT
<1>5. Older'
  BY <1>2, <1>3, PoolNumbers, SMT DEF Older
<1>6. HandsEmpty'
  BY <1>3 DEF HandsEmpty
<1>7. TakenOnce'
  <2>. SUFFICES ASSUME NEW i \in 1..MaxTasks, i <= Taken'
       PROVE  Cardinality(InHand(i)') + Cardinality(Finished(i)') = 1
    BY DEF TakenOnce
  <2>1. CASE i = Taken + 1
    <3>1. InHand(i)' = {w}
      BY <1>3, <2>1, PoolNumbers, SMT DEF InHand, Older
    <3>2. Finished(i)' = {}
      BY <2>1, PoolNumbers, SMT DEF Finished, Older
    <3>3. Cardinality(InHand(i)') = 1 /\ Cardinality(Finished(i)') = 0
      BY <3>1, <3>2, FS_Singleton, FS_EmptySet
    <3>. QED  BY <3>3, SMT
  <2>2. CASE i <= Taken
    <3>1. InHand(i)' = InHand(i)
      BY <1>3, <2>2, PoolNumbers, SMT DEF InHand
    <3>2. Finished(i)' = Finished(i)
      BY DEF Finished
    <3>. QED  BY <2>2, <3>1, <3>2 DEF TakenOnce
  <2>. QED  BY <1>2, <2>1, <2>2, PoolNumbers, SMT
<1>. QED  BY <1>4, <1>5, <1>6, <1>7

\* The order survives the end of a task: its number moves from the hand that
\* holds it to the finished ones.
LEMMA OrderRun ==
    ASSUME PoolInv, OrderInv, NEW w \in Workers, WorkerRun(w)
    PROVE  OrderInv'
<1>. USE DEF WorkerRun, OrderInv
<1>1. /\ current[w] \in 1..MaxTasks
      /\ \A v \in Workers : current'[v] = IF v = w THEN 0 ELSE current[v]
      /\ \A v \in Workers : wpc'[v] = IF v = w THEN "check" ELSE wpc[v]
  BY DEF PoolInv, PoolTypeOK, RunsATask
<1>2. /\ Len(done') = Len(done) + 1 /\ done'[Len(done) + 1] = current[w]
      /\ DOMAIN done' = 1..Len(done')
      /\ \A k \in 1..Len(done) : done'[k] = done[k]
  BY <1>1, SMT DEF PoolInv, PoolTypeOK
<1>3. Taken' = Taken
  BY DEF Taken
<1>4. Window'
  BY <1>3 DEF Window
<1>5. Older'
  <2>1. current[w] <= Taken
    BY DEF Older
  <2>. QED  BY <1>1, <1>2, <1>3, <2>1, PoolNumbers, SMT DEF Older
<1>6. HandsEmpty'
  BY <1>1 DEF HandsEmpty
<1>7. TakenOnce'
  <2>. SUFFICES ASSUME NEW i \in 1..MaxTasks, i <= Taken'
       PROVE  Cardinality(InHand(i)') + Cardinality(Finished(i)') = 1
    BY DEF TakenOnce
  <2>0. Cardinality(InHand(i)) + Cardinality(Finished(i)) = 1
    BY <1>3 DEF TakenOnce
  <2>1. CASE i = current[w]
    <3>1. w \in InHand(i) /\ InHand(i)' = InHand(i) \ {w}
      BY <1>1, <2>1, PoolNumbers, SMT DEF InHand
    <3>2. /\ Len(done) + 1 \notin Finished(i)
          /\ Finished(i)' = Finished(i) \cup {Len(done) + 1}
      BY <1>2, <2>1, PoolNumbers, SMT DEF Finished
    <3>3. Cardinality(InHand(i)') = Cardinality(InHand(i)) - 1
      BY <3>1, PlacesAreFinite, FS_RemoveElement DEF PoolInv
    <3>4. Cardinality(Finished(i)') = Cardinality(Finished(i)) + 1
      BY <3>2, PlacesAreFinite, FS_AddElement DEF PoolInv
    <3>5. Cardinality(InHand(i)) \in Nat /\ Cardinality(Finished(i)) \in Nat
      BY PlacesAreFinite DEF PoolInv
    <3>. QED  BY <2>0, <3>3, <3>4, <3>5, SMT
  <2>2. CASE i # current[w]
    <3>1. InHand(i)' = InHand(i)
      BY <1>1, <2>2, PoolNumbers, SMT DEF InHand
    <3>2. Finished(i)' = Finished(i)
      BY <1>2, <2>2, PoolNumbers, SMT DEF Finished
    <3>. QED  BY <2>0, <3>1, <3>2
  <2>. QED  BY <2>1, <2>2
<1>. QED  BY <1>4, <1>5, <1>6, <1>7

\* The order holds in every reachable state.
THEOREM OrderInvariant == PoolSpec => []OrderInv
<1>1. PoolInv /\ OrderInv /\ [PoolNext]_poolVars => OrderInv'
  <2>. SUFFICES ASSUME PoolInv, OrderInv, [PoolNext]_poolVars PROVE OrderInv'
    OBVIOUS
  <2>0. CASE UNCHANGED poolVars
    BY <2>0, OrderKept DEF poolVars
  <2>1. ASSUME NEW s \in Submitters, SubmitPush(s) PROVE OrderInv'
    BY <2>1, OrderSubmit
  <2>2. ASSUME NEW s \in Submitters, SubmitNotify(s) PROVE OrderInv'
    <3>1. \A w \in Workers : wpc'[w] # "run" => wpc[w] # "run"
      BY <2>2, SMT DEF SubmitNotify, Asleep, PoolInv, PoolTypeOK
    <3>. QED  BY <2>2, <3>1, OrderKept DEF SubmitNotify
  <2>3. ASSUME NEW w \in Workers,
               WorkerSleep(w) \/ WorkerSpuriousWake(w) \/ WorkerExit(w)
        PROVE  OrderInv'
    <3>1. \A v \in Workers : wpc'[v] # "run" => wpc[v] # "run"
      BY <2>3, SMT DEF WorkerSleep, WorkerSpuriousWake, WorkerExit, PoolInv, PoolTypeOK
    <3>. QED  BY <2>3, <3>1, OrderKept
              DEF WorkerSleep, WorkerSpuriousWake, WorkerExit
  <2>4. ASSUME NEW w \in Workers, WorkerTake(w) PROVE OrderInv'
    BY <2>4, OrderTake
  <2>5. ASSUME NEW w \in Workers, WorkerRun(w) PROVE OrderInv'
    BY <2>5, OrderRun
  <2>6. ASSUME DestroyStop \/ DestroyNotify \/ DestroyJoin PROVE OrderInv'
    <3>1. \A w \in Workers : wpc'[w] # "run" => wpc[w] # "run"
      BY <2>6, SMT DEF DestroyStop, DestroyNotify, DestroyJoin, Asleep, PoolInv, PoolTypeOK
    <3>. QED  BY <2>6, <3>1, OrderKept DEF DestroyStop, DestroyNotify, DestroyJoin
  <2>. QED  BY <2>0, <2>1, <2>2, <2>3, <2>4, <2>5, <2>6 DEF PoolNext
<1>. QED  BY OrderInit, PoolInvariant, <1>1, PTL DEF PoolSpec

\* Tasks leave the queue in the order Submit put them there: what is queued is
\* ascending, and newer than everything a worker holds or has finished.
THEOREM FirstInFirstOut == PoolSpec => []TakenInOrder
<1>1. PoolInv /\ OrderInv => TakenInOrder
  <2>. SUFFICES ASSUME PoolInv, OrderInv PROVE TakenInOrder
    OBVIOUS
  <2>1. \A k \in 1..(Len(tasks) - 1) : tasks[k] < tasks[k + 1]
    BY PoolNumbers, SMT DEF OrderInv, Window
  <2>2. \A k \in DOMAIN tasks, w \in Workers : current[w] < tasks[k]
    BY PoolNumbers, SMT DEF OrderInv, Window, Older
  <2>3. \A k \in DOMAIN tasks, j \in DOMAIN done : done[j] < tasks[k]
    BY PoolNumbers, SMT DEF OrderInv, Window, Older
  <2>. QED  BY <2>1, <2>2, <2>3 DEF TakenInOrder
<1>. QED  BY <1>1, PoolInvariant, OrderInvariant, PTL

\* Whichever workers race for it, every task Submit accepted is in the queue,
\* in the hand of one worker, or finished once: none is lost, none runs twice.
THEOREM EveryTaskOnce == PoolSpec => []ExactlyOnce
<1>1. PoolInv /\ OrderInv => ExactlyOnce
  <2>. SUFFICES ASSUME PoolInv, OrderInv, NEW i \in 1..MaxTasks
       PROVE  Place(i) = IF i <= submitted THEN 1 ELSE 0
    BY DEF ExactlyOnce
  <2>. DEFINE Queued == {k \in DOMAIN tasks : tasks[k] = i}
  <2>1. Place(i) = Cardinality(Queued) + Cardinality(InHand(i))
                   + Cardinality(Finished(i))
    BY DEF Place, InHand, Finished
  <2>2. CASE i <= Taken
    <3>1. Queued = {}
      BY <2>2, PoolNumbers, SMT DEF OrderInv, Window
    <3>2. Cardinality(InHand(i)) + Cardinality(Finished(i)) = 1
      BY <2>2 DEF OrderInv, TakenOnce
    <3>3. Cardinality(InHand(i)) \in Nat /\ Cardinality(Finished(i)) \in Nat
      BY PlacesAreFinite DEF PoolInv
    <3>4. Cardinality(Queued) = 0
      BY <3>1, FS_EmptySet
    <3>5. i <= submitted
      BY <2>2, PoolNumbers, SMT DEF Taken
    <3>. HIDE DEF Queued
    <3>. QED  BY <2>1, <3>2, <3>3, <3>4, <3>5, SMT
  <2>3. CASE ~(i <= Taken)
    <3>1. InHand(i) = {}
      BY <2>3, SMT DEF OrderInv, Older, InHand
    <3>2. Finished(i) = {}
      BY <2>3, PoolNumbers, SMT DEF OrderInv, Older, Finished
    <3>3. Cardinality(InHand(i)) = 0 /\ Cardinality(Finished(i)) = 0
      BY <3>1, <3>2, FS_EmptySet
    <3>4. CASE i <= submitted
      <4>1. i - Taken \in 1..Len(tasks)
        BY <2>3, <3>4, PoolNumbers, SMT DEF Taken
      <4>2. Queued = {i - Taken}
        BY <4>1, PoolNumbers, SMT DEF OrderInv, Window
      <4>3. Cardinality(Queued) = 1
        BY <4>2, FS_Singleton
      <4>. HIDE DEF Queued
      <4>. QED  BY <2>1, <3>3, <3>4, <4>3, SMT
    <3>5. CASE ~(i <= submitted)
      <4>1. Queued = {}
        BY <3>5, PoolNumbers, SMT DEF OrderInv, Window, Taken
      <4>2. Cardinality(Queued) = 0
        BY <4>1, FS_EmptySet
      <4>. HIDE DEF Queued
      <4>. QED  BY <2>1, <3>3, <3>5, <4>2, SMT
    <3>. QED  BY <3>4, <3>5
  <2>. QED  BY <2>2, <2>3
<1>. QED  BY <1>1, PoolInvariant, OrderInvariant, PTL

-----------------------------------------------------------------------------
(* ThreadPool implements TaskFifo.                                         *)

\* An empty pool.
LEMMA PromiseInit == PoolInit => Promise!Init
<1>. SUFFICES ASSUME PoolInit PROVE Promise!Init
  OBVIOUS
<1>. QED  BY DEF PoolInit, Promise!Init

\* Notifications, sleeping, spurious wake-ups and a worker's exit do not show.
LEMMA QuietToFifo ==
    ASSUME \/ \E s \in Submitters : SubmitNotify(s)
           \/ \E w \in Workers : WorkerSleep(w) \/ WorkerSpuriousWake(w) \/ WorkerExit(w)
           \/ DestroyNotify
    PROVE  UNCHANGED Promise!vars
<1>1. UNCHANGED <<tasks, current>>
  BY Zenon DEF SubmitNotify, WorkerSleep, WorkerSpuriousWake, WorkerExit, DestroyNotify
<1>2. UNCHANGED dpc \/ (dpc = "notify" /\ dpc' = "join")
  BY Zenon DEF SubmitNotify, WorkerSleep, WorkerSpuriousWake, WorkerExit, DestroyNotify
<1>. QED  BY <1>1, <1>2 DEF Promise!vars

\* Submit's critical section, the two of WorkerLoop, and the two ends of the
\* destructor are the steps of TaskFifo.
LEMMA PoolStepToFifo ==
    ASSUME PoolInv, HandsEmpty, PoolNext
    PROVE  [Promise!Next]_(Promise!vars)
<1>1. ASSUME NEW s \in Submitters, SubmitPush(s) PROVE Promise!Next
  <2>1. submitted + 1 \in 1..MaxTasks
    BY <1>1, PoolAssumption, SMT DEF SubmitPush, PoolInv, PoolTypeOK
  <2>2. Promise!Submit(submitted + 1)
    BY <1>1 DEF SubmitPush, Promise!Submit
  <2>. QED  BY <2>1, <2>2 DEF Promise!Next
<1>2. ASSUME NEW w \in Workers, WorkerTake(w) PROVE Promise!Next
  <2>1. current[w] = 0
    BY <1>2 DEF WorkerTake, HandsEmpty
  <2>2. Promise!Take(w)
    BY <1>2, <2>1 DEF WorkerTake, Promise!Take
  <2>. QED  BY <2>2 DEF Promise!Next
<1>3. ASSUME NEW w \in Workers, WorkerRun(w) PROVE Promise!Next
  <2>1. current[w] # 0
    BY <1>3, SMT DEF WorkerRun, PoolInv, RunsATask
  <2>2. Promise!Finish(w)
    BY <1>3, <2>1 DEF WorkerRun, Promise!Finish
  <2>. QED  BY <2>2 DEF Promise!Next
<1>4. ASSUME DestroyStop PROVE Promise!Next
  <2>1. Promise!Destroy
    BY <1>4 DEF DestroyStop, Promise!Destroy
  <2>. QED  BY <2>1 DEF Promise!Next
<1>5. ASSUME DestroyJoin PROVE Promise!Next
  <2>1. \A w \in Workers : current[w] = 0
    BY <1>5, SMT DEF DestroyJoin, HandsEmpty
  <2>2. tasks = <<>>
    BY <1>5, PoolAssumption DEF DestroyJoin, PoolInv, Closing
  <2>3. Promise!Return
    BY <1>5, <2>1, <2>2 DEF DestroyJoin, Promise!Return
  <2>. QED  BY <2>3 DEF Promise!Next
<1>. QED  BY <1>1, <1>2, <1>3, <1>4, <1>5, QuietToFifo DEF PoolNext

\* Whatever the workers' races, lost or spurious wake-ups, a ThreadPool is a FIFO
\* of tasks served by its workers, whose destructor returns with nothing queued and
\* nothing under way.
THEOREM PoolImplementsTaskFifo == PoolSpec => ImplementsTaskFifo
<1>1. PoolInv /\ OrderInv /\ [PoolNext]_poolVars => [Promise!Next]_(Promise!vars)
  <2>. SUFFICES ASSUME PoolInv, OrderInv, [PoolNext]_poolVars
       PROVE  [Promise!Next]_(Promise!vars)
    OBVIOUS
  <2>1. CASE PoolNext
    BY <2>1, PoolStepToFifo DEF OrderInv
  <2>2. CASE UNCHANGED poolVars
    BY <2>2 DEF poolVars, Promise!vars
  <2>. QED  BY <2>1, <2>2
<1>. QED  BY PromiseInit, PoolInvariant, OrderInvariant, <1>1, PTL
     DEF PoolSpec, ImplementsTaskFifo, Promise!Spec

\* No task is lost, run twice or overtaken, for any number of workers and tasks.
THEOREM TasksOnceInOrder == PoolSpec => []OnceInOrder
<1>1. ExactlyOnce /\ TakenInOrder => OnceInOrder
  BY DEF OnceInOrder
<1>. QED  BY <1>1, EveryTaskOnce, FirstInFirstOut, PTL

-----------------------------------------------------------------------------
(* TimerWheel: the inductive invariant                                     *)

\* Where the wheel thread stands: Stop returns after the thread ended, and
\* only ProcessFired has entries in its hands.
Control ==
    /\ stopper = "returned" => pc = "ended"
    /\ fired # <<>> => pc \in {"fire", "repush"}
    /\ pc = "repush" => fired # <<>>
    /\ seen <= now

\* A timer id belongs to one entry, in the heap or in the hands of the thread.
OneEntry ==
    /\ IsFiniteSet(heap)
    /\ \A e, f \in heap : e.id = f.id => e = f
    /\ \A j, k \in 1..Len(fired) : fired[j].id = fired[k].id => j = k
    /\ \A e \in heap : \A j \in 1..Len(fired) : e.id # fired[j].id

\* Entries carry ids that were handed out, and unused ids have no history.
Handed ==
    /\ \A e \in heap : e.id < nextId
    /\ \A j \in 1..Len(fired) : fired[j].id < nextId
    /\ \A i \in Ids : i >= nextId => fires[i] = 0 /\ late[i] = Never
    /\ \A i \in Ids : i < nextId => added[i] \in 0..now

\* The deadline of entry e comes after n callbacks.
OnTime(e, n) ==
    IF e.repeating THEN e.next = added[e.id] + (n + 1) * e.interval ELSE n = 0

\* The deadline of an entry counts the callbacks that ran; the entry whose
\* callback just ran is one ahead until it returns to the heap.
Schedule ==
    /\ \A e \in heap : /\ e.repeating => e.next <= now + e.interval
                       /\ OnTime(e, fires[e.id])
    /\ \A j \in 1..Len(fired) :
          /\ fired[j].next <= now
          /\ IF j = 1 /\ pc = "repush"
             THEN fires[fired[j].id] >= 1 /\ OnTime(fired[j], fires[fired[j].id] - 1)
             ELSE OnTime(fired[j], fires[fired[j].id])

\* Once Cancel returned, the timer waits for the next purge; an entry that was
\* already popped has not run since.
CancelHolds ==
    \A i \in Ids :
        /\ late[i] <= 1
        /\ late[i] # Never /\ i \notin cancelled =>
              /\ \A e \in heap : e.id # i
              /\ \A j \in 1..Len(fired) : fired[j].id # i
        /\ late[i] # Never =>
              \A j \in 1..Len(fired) :
                  fired[j].id = i /\ ~(j = 1 /\ pc = "repush") => late[i] = 0

\* Whenever the thread may go to sleep, an alarm is set.
AlarmSet ==
    pc \in {"none", "loop", "wait"} /\ heap # {} =>
        \/ event
        \/ /\ armed # Never
           /\ \/ armed <= now
              \/ \A e \in heap : armed <= e.next

WheelInv ==
    TypeOK /\ Control /\ OneEntry /\ Handed /\ Schedule /\ CancelHolds /\ AlarmSet
-----------------------------------------------------------------------------
(* Facts about the constants, entries and deadlines *)

\* Timer ids are the numbers below their count.
LEMMA IdFacts ==
    /\ Cardinality(Ids) \in Nat /\ MaxTime \in Nat
    /\ \A i : i \in Ids <=> i \in Nat /\ i < Cardinality(Ids)
    /\ Intervals \subseteq Nat
<1>1. Cardinality(Ids) \in Nat
  BY WheelAssumption, FS_CardinalityType
<1>2. Ids = 0..(Cardinality(Ids) - 1)
  BY WheelAssumption
<1>3. \A i : i \in Ids <=> i \in Nat /\ i < Cardinality(Ids)
  BY <1>1, <1>2, SMT
<1>. QED  BY <1>1, <1>3, WheelAssumption

\* The fields of an entry.
LEMMA EntryFacts ==
    ASSUME NEW e \in Entry
    PROVE  /\ e.id \in Ids /\ e.id \in Nat /\ e.next \in Nat
           /\ e.interval \in Nat /\ e.interval \in Intervals \cup {0}
           /\ e.repeating \in BOOLEAN
<1>1. /\ e.id \in Ids /\ e.next \in Nat /\ e.interval \in Intervals \cup {0}
  BY DEF Entry
<1>2. e.repeating \in BOOLEAN
  BY Zenon DEF Entry
<1>3. e.id \in Nat
  BY <1>1, IdFacts
<1>4. e.interval \in Nat
  <2>1. CASE e.interval \in Intervals
    BY <2>1, IdFacts
  <2>2. CASE e.interval = 0
    BY <2>2
  <2>. QED  BY <1>1, <2>1, <2>2
<1>. QED  BY <1>1, <1>2, <1>3, <1>4, Zenon

\* A heap that is not empty has an earliest entry.
LEMMA EarliestExists ==
    ASSUME NEW H, H \subseteq Entry, H # {}
    PROVE  Earliest(H) # {}
<1>. DEFINE T == {e.next : e \in H}
<1>1. T \subseteq Nat /\ T # {}
  BY EntryFacts
<1>2. PICK x \in T : \A y \in T : ~ (<<y, x>> \in OpToRel(<, Nat))
  BY <1>1, NatLessThanWellFounded, WFMin
<1>3. \A y \in T : ~ (y < x)
  BY <1>1, <1>2 DEF OpToRel
<1>4. PICK e \in H : e.next = x
  OBVIOUS
<1>5. \A f \in H : e.next <= f.next
  <2>. TAKE f \in H
  <2>1. ~ (f.next < x)
    BY <1>3
  <2>2. f.next \in Nat /\ x \in Nat
    BY <1>1, EntryFacts
  <2>. QED  BY <1>4, <2>1, <2>2, SMT
<1>. QED  BY <1>5 DEF Earliest

\* RearmTimerfdLocked sets the alarm for the earliest entry.
LEMMA RearmFacts ==
    ASSUME NEW H, H \subseteq Entry, now \in Nat, Rearm(H)
    PROVE  /\ armed' \in Nat \cup {Never}
           /\ H # {} => /\ armed' # Never
                        /\ armed' <= now \/ (\A e \in H : armed' <= e.next)
<1>1. CASE H = {}
  BY <1>1 DEF Rearm
<1>2. CASE H # {}
  <2>. DEFINE top == CHOOSE e \in Earliest(H) : TRUE
  <2>1. top \in Earliest(H)
    BY <1>2, EarliestExists
  <2>2. top \in H /\ \A f \in H : top.next <= f.next
    BY <2>1 DEF Earliest
  <2>3. top.next \in Nat
    BY <2>2, EntryFacts
  <2>4. armed' = IF top.next <= now THEN now ELSE top.next
    BY <1>2 DEF Rearm
  <2>. HIDE DEF top
  <2>5. armed' \in Nat
    BY <2>3, <2>4, SMT
  <2>6. armed' # Never
    BY <2>5, SMT DEF Never
  <2>7. armed' <= now \/ (\A e \in H : armed' <= e.next)
    BY <2>2, <2>3, <2>4, SMT
  <2>. QED  BY <2>5, <2>6, <2>7
<1>. QED  BY <1>1, <1>2

\* What the variables range over.
LEMMA WheelNumbers ==
    ASSUME TypeOK
    PROVE  /\ now \in Nat /\ seen \in Nat /\ nextId \in Nat
           /\ heap \subseteq Entry /\ fired \in Seq(Entry) /\ Len(fired) \in Nat
           /\ \A j \in 1..Len(fired) : fired[j] \in Entry
           /\ \A i \in Ids : /\ fires[i] \in Nat /\ late[i] \in Nat \cup {Never}
                             /\ added[i] \in Nat \cup {Never}
<1>1. now \in Nat /\ seen \in Nat /\ nextId \in Nat
  BY IdFacts, SMT DEF TypeOK
<1>2. /\ heap \subseteq Entry /\ fired \in Seq(Entry) /\ Len(fired) \in Nat
      /\ \A j \in 1..Len(fired) : fired[j] \in Entry
  BY DEF TypeOK
<1>3. \A i \in Ids : /\ fires[i] \in Nat /\ late[i] \in Nat \cup {Never}
                     /\ added[i] \in Nat \cup {Never}
  BY IdFacts, SMT DEF TypeOK
<1>. QED  BY <1>1, <1>2, <1>3

\* One period further.
LEMMA NextPeriod ==
    ASSUME NEW a \in Int, NEW n \in Nat, NEW d \in Nat, NEW x \in Nat,
           x = a + n * d
    PROVE  x + d = a + (n + 1) * d
<1>1. n * d \in Int /\ (n + 1) * d = n * d + d
  BY SMT
<1>. QED  BY <1>1, SMT

\* The periods that lie before a deadline at most one period away.
LEMMA PeriodsBefore ==
    ASSUME NEW a \in Nat, NEW n \in Nat, NEW d \in Nat, NEW x \in Nat,
           NEW t \in Nat, x = a + (n + 1) * d, x <= t + d
    PROVE  n * d <= t - a
<1>1. n * d \in Int /\ (n + 1) * d = n * d + d
  BY SMT
<1>. QED  BY <1>1, SMT

\* The constructor sets up an empty wheel.
LEMMA WheelInit == Init => WheelInv
<1>. SUFFICES ASSUME Init PROVE WheelInv
  OBVIOUS
<1>1. TypeOK
  <2>1. running \in BOOLEAN /\ event \in BOOLEAN
    BY Zenon DEF Init
  <2>2. /\ now \in 0..MaxTime /\ seen \in 0..MaxTime
        /\ nextId \in 0..Cardinality(Ids)
        /\ armed \in Nat \cup {Never}
    BY IdFacts, SMT DEF Init
  <2>3. heap \subseteq Entry /\ cancelled \subseteq Ids /\ fired \in Seq(Entry)
    BY DEF Init
  <2>4. /\ added \in [Ids -> 0..MaxTime \cup {Never}]
        /\ fires \in [Ids -> Nat] /\ late \in [Ids -> Nat \cup {Never}]
    BY DEF Init
  <2>5. /\ pc \in {"none", "loop", "wait", "now", "purge", "fire", "repush", "ended"}
        /\ stopper \in {"no", "wake", "join", "returned"}
    BY DEF Init
  <2>. QED  BY <2>1, <2>2, <2>3, <2>4, <2>5 DEF TypeOK
<1>2. heap = {} /\ fired = <<>> /\ Len(fired) = 0
  BY DEF Init
<1>3. Control
  BY SMT DEF Init, Control
<1>4. OneEntry
  BY <1>2, FS_EmptySet, SMT DEF OneEntry
<1>5. Handed
  <2>1. \A i \in Ids : ~(i < nextId)
    BY IdFacts, SMT DEF Init
  <2>. QED  BY <1>2, <2>1, SMT DEF Init, Handed
<1>6. Schedule
  BY <1>2, SMT DEF Schedule
<1>7. CancelHolds
  BY <1>2, SMT DEF Init, CancelHolds, Never
<1>8. AlarmSet
  BY <1>2 DEF AlarmSet
<1>. QED  BY <1>1, <1>3, <1>4, <1>5, <1>6, <1>7, <1>8 DEF WheelInv
-----------------------------------------------------------------------------
(* Steps that touch neither timers nor the clock *)

timerVars == <<now, heap, cancelled, nextId, fired, added, fires, late>>

\* Such a step keeps what is said about the timers.
LEMMA Untouched ==
    ASSUME WheelInv, UNCHANGED timerVars, pc = "repush" <=> pc' = "repush"
    PROVE  OneEntry' /\ Handed' /\ Schedule' /\ CancelHolds'
<1>. USE DEF WheelInv, timerVars
<1>1. OneEntry' /\ Handed'
  BY DEF OneEntry, Handed
<1>2. Schedule'
  BY DEF Schedule, OnTime
<1>3. CancelHolds'
  BY DEF CancelHolds
<1>. QED  BY <1>1, <1>2, <1>3

\* Start, the steps of Stop, and those of Run and ProcessFired that only move
\* the thread along keep the invariant.
LEMMA MoveStep ==
    ASSUME WheelInv,
           \/ Start \/ StopExchange \/ StopWakeup \/ StopJoin
           \/ RunCheck \/ RunWake \/ RunTimeout \/ LoadNow \/ FireDone
    PROVE  WheelInv'
<1>. USE DEF WheelInv, threadVars, histVars
<1>0. UNCHANGED timerVars
  BY DEF timerVars, Start, StopExchange, StopWakeup, StopJoin, RunCheck, RunWake,
         RunTimeout, LoadNow, FireDone
<1>1. pc = "repush" <=> pc' = "repush"
  BY DEF Start, StopExchange, StopWakeup, StopJoin, RunCheck, RunWake,
         RunTimeout, LoadNow, FireDone
<1>2. OneEntry' /\ Handed' /\ Schedule' /\ CancelHolds'
  BY <1>0, <1>1, Untouched
<1>r. FireDone => /\ armed' \in Nat \cup {Never}
                  /\ heap # {} => /\ armed' # Never
                                  /\ armed' <= now \/ (\A e \in heap : armed' <= e.next)
  BY RearmFacts, WheelNumbers DEF FireDone
<1>3. TypeOK'
  <2>1. running' \in BOOLEAN
    BY Zenon DEF TypeOK, Start, StopExchange, StopWakeup, StopJoin, RunCheck,
                 RunWake, RunTimeout, LoadNow, FireDone
  <2>2. event' \in BOOLEAN
    BY Zenon DEF TypeOK, Start, StopExchange, StopWakeup, StopJoin, RunCheck,
                 RunWake, RunTimeout, LoadNow, FireDone, Wakeup
  <2>3. armed' \in Nat \cup {Never}
    BY <1>r DEF TypeOK, Start, StopExchange, StopWakeup, StopJoin, RunCheck,
                RunWake, RunTimeout, LoadNow
  <2>4. seen' \in 0..MaxTime
    BY IdFacts, SMT DEF TypeOK, Start, StopExchange, StopWakeup, StopJoin, RunCheck,
                        RunWake, RunTimeout, LoadNow, FireDone
  <2>5. /\ pc' \in {"none", "loop", "wait", "now", "purge", "fire", "repush", "ended"}
        /\ stopper' \in {"no", "wake", "join", "returned"}
    BY DEF TypeOK, Start, StopExchange, StopWakeup, StopJoin, RunCheck,
           RunWake, RunTimeout, LoadNow, FireDone
  <2>. QED  BY <1>0, <2>1, <2>2, <2>3, <2>4, <2>5 DEF TypeOK, timerVars
<1>4. Control'
  <2>1. seen' <= now'
    BY <1>0, WheelNumbers, SMT
       DEF Control, timerVars, Start, StopExchange, StopWakeup, StopJoin, RunCheck,
           RunWake, RunTimeout, LoadNow, FireDone
  <2>2. stopper' = "returned" => pc' = "ended"
    BY DEF Control, Start, StopExchange, StopWakeup, StopJoin, RunCheck,
           RunWake, RunTimeout, LoadNow, FireDone
  <2>3. fired' # <<>> => pc' \in {"fire", "repush"}
    BY <1>0 DEF Control, timerVars, Start, StopExchange, StopWakeup, StopJoin,
           RunCheck, RunWake, RunTimeout, LoadNow, FireDone
  <2>. QED  BY <1>0, <1>1, <2>1, <2>2, <2>3 DEF Control, timerVars
<1>5. AlarmSet'
  <2>1. CASE Start \/ RunCheck
    BY <2>1 DEF AlarmSet, Start, RunCheck
  <2>2. CASE StopExchange \/ StopWakeup \/ StopJoin
    BY <2>2 DEF AlarmSet, StopExchange, StopWakeup, StopJoin, Wakeup
  <2>3. CASE RunWake \/ RunTimeout \/ LoadNow
    BY <2>3 DEF AlarmSet, RunWake, RunTimeout, LoadNow
  <2>4. CASE FireDone
    BY <1>0, <1>r, <2>4 DEF AlarmSet, timerVars
  <2>. QED  BY <2>1, <2>2, <2>3, <2>4
<1>. QED  BY <1>2, <1>3, <1>4, <1>5

\* Time passes.
LEMMA TickStep ==
    ASSUME WheelInv, Tick
    PROVE  WheelInv'
<1>. USE DEF WheelInv, Tick, threadVars, histVars
<1>0. now \in Nat /\ seen \in Nat /\ now' = now + 1 /\ MaxTime \in Nat
  BY WheelNumbers, IdFacts
<1>1. TypeOK'
  <2>1. now' \in 0..MaxTime
    BY <1>0, SMT
  <2>. QED  BY <2>1 DEF TypeOK
<1>2. Control'
  BY <1>0, SMT DEF Control
<1>3. OneEntry' /\ CancelHolds'
  BY DEF OneEntry, CancelHolds
<1>4. Handed'
  <2>1. \A i \in Ids : added[i] \in 0..now => added[i] \in 0..(now + 1)
    BY <1>0, SMT
  <2>. QED  BY <2>1 DEF Handed
<1>5. Schedule'
  <2>1. \A e \in heap : e.repeating => e.next <= now' + e.interval
    <3>. SUFFICES ASSUME NEW e \in heap, e.repeating PROVE e.next <= now' + e.interval
      OBVIOUS
    <3>1. e.next \in Nat /\ e.interval \in Nat
      BY EntryFacts, WheelNumbers
    <3>2. e.next <= now + e.interval
      BY DEF Schedule
    <3>. QED  BY <1>0, <3>1, <3>2, SMT
  <2>2. \A j \in 1..Len(fired) : fired[j].next <= now'
    <3>. TAKE j \in 1..Len(fired)
    <3>1. fired[j].next \in Nat
      BY EntryFacts, WheelNumbers
    <3>2. fired[j].next <= now
      BY DEF Schedule
    <3>. QED  BY <1>0, <3>1, <3>2, SMT
  <2>. QED  BY <2>1, <2>2 DEF Schedule, OnTime
<1>6. AlarmSet'
  <2>1. armed \in Nat /\ armed <= now => armed <= now'
    BY <1>0, SMT
  <2>2. armed # Never => armed \in Nat
    BY DEF TypeOK
  <2>. QED  BY <2>1, <2>2 DEF AlarmSet
<1>. QED  BY <1>1, <1>2, <1>3, <1>4, <1>5, <1>6

\* Cancel puts the id on the list that the next purge reads.
LEMMA CancelStep ==
    ASSUME WheelInv, NEW id \in Ids, Cancel(id)
    PROVE  WheelInv'
<1>. USE DEF WheelInv, Cancel, threadVars, histVars
<1>0. /\ \A i \in Ids : late'[i] = IF i = id /\ late[id] = Never THEN 0 ELSE late[i]
      /\ late' \in [Ids -> Nat \cup {Never}]
  BY DEF TypeOK
<1>1. TypeOK'
  BY <1>0 DEF TypeOK
<1>2. Control' /\ OneEntry'
  BY DEF Control, OneEntry
<1>3. Handed'
  <2>1. id \in Nat /\ nextId \in Nat
    BY IdFacts, WheelNumbers
  <2>2. ~(id >= nextId)
    BY <2>1, SMT
  <2>. QED  BY <1>0, <2>2 DEF Handed
<1>4. Schedule'
  BY DEF Schedule, OnTime
<1>5. CancelHolds'
  <2>. SUFFICES ASSUME NEW i \in Ids
       PROVE  /\ late'[i] <= 1
              /\ late'[i] # Never /\ i \notin cancelled' =>
                    /\ \A e \in heap : e.id # i
                    /\ \A j \in 1..Len(fired) : fired[j].id # i
              /\ late'[i] # Never =>
                    \A j \in 1..Len(fired) :
                        fired[j].id = i /\ ~(j = 1 /\ pc = "repush") => late'[i] = 0
    BY DEF CancelHolds
  <2>1. CASE i = id /\ late[id] = Never
    BY <1>0, <2>1, SMT
  <2>2. CASE ~(i = id /\ late[id] = Never)
    <3>1. late'[i] = late[i] /\ (i \notin cancelled' => i \notin cancelled)
      BY <1>0, <2>2
    <3>. QED  BY <3>1 DEF CancelHolds
  <2>. QED  BY <2>1, <2>2
<1>6. AlarmSet'
  BY DEF AlarmSet
<1>. QED  BY <1>1, <1>2, <1>3, <1>4, <1>5, <1>6
-----------------------------------------------------------------------------
(* Steps that move entries *)

\* A new timer gets the next id, and the alarm is set for it.
LEMMA AddStep ==
    ASSUME WheelInv, NEW delay \in Nat, NEW interval \in Intervals \cup {0},
           NEW repeating \in BOOLEAN, repeating => delay = interval,
           Add(delay, interval, repeating)
    PROVE  WheelInv'
<1>. USE DEF WheelInv
<1>. DEFINE new == [id |-> nextId, next |-> now + delay,
                    interval |-> interval, repeating |-> repeating]
<1>0. /\ nextId \in Ids /\ heap' = heap \cup {new} /\ Rearm(heap \cup {new})
      /\ nextId' = nextId + 1 /\ event' = TRUE
      /\ added' = [added EXCEPT ![nextId] = now]
      /\ UNCHANGED <<now, cancelled, running, pc, seen, fired, stopper, fires, late>>
  BY DEF Add, Wakeup, threadVars
<1>1. now \in Nat /\ nextId \in Nat /\ interval \in Nat /\ now + delay \in Nat
  <2>1. interval \in Nat
    BY IdFacts
  <2>. QED  BY <2>1, WheelNumbers, SMT
<1>2. new \in Entry
  BY <1>0, <1>1, Zenon DEF Entry
<1>3. /\ new.id = nextId /\ new.next = now + delay
      /\ new.interval = interval /\ new.repeating = repeating
  OBVIOUS
<1>. HIDE DEF new
<1>4. \A i \in Ids : added'[i] = IF i = nextId THEN now ELSE added[i]
  BY <1>0 DEF TypeOK
<1>5. \A e \in heap : e.id # nextId /\ e.id \in Ids
  <2>. TAKE e \in heap
  <2>1. e.id \in Nat /\ e.id \in Ids /\ e.id < nextId
    BY EntryFacts, WheelNumbers DEF Handed
  <2>. QED  BY <1>1, <2>1, SMT
<1>6. \A j \in 1..Len(fired) : fired[j].id # nextId /\ fired[j].id \in Ids
  <2>. TAKE j \in 1..Len(fired)
  <2>1. fired[j].id \in Nat /\ fired[j].id \in Ids /\ fired[j].id < nextId
    BY EntryFacts, WheelNumbers DEF Handed
  <2>. QED  BY <1>1, <2>1, SMT
<1>7. fires[nextId] = 0 /\ late[nextId] = Never
  BY <1>0, <1>1, SMT DEF Handed
<1>8. TypeOK'
  <2>1. heap' \subseteq Entry
    BY <1>0, <1>2 DEF TypeOK
  <2>2. nextId' \in 0..Cardinality(Ids)
    BY <1>0, <1>1, IdFacts, SMT
  <2>3. event' \in BOOLEAN
    BY <1>0, Zenon
  <2>4. armed' \in Nat \cup {Never}
    BY <1>0, <1>1, <2>1, RearmFacts
  <2>5. added' \in [Ids -> 0..MaxTime \cup {Never}]
    BY <1>0 DEF TypeOK
  <2>. QED  BY <1>0, <2>1, <2>2, <2>3, <2>4, <2>5 DEF TypeOK
<1>9. Control'
  BY <1>0 DEF Control
<1>10. OneEntry'
  <2>1. IsFiniteSet(heap')
    BY <1>0, FS_AddElement DEF OneEntry
  <2>2. \A e, f \in heap' : e.id = f.id => e = f
    BY <1>0, <1>3, <1>5 DEF OneEntry
  <2>3. \A e \in heap' : \A j \in 1..Len(fired') : e.id # fired'[j].id
    BY <1>0, <1>3, <1>6 DEF OneEntry
  <2>. QED  BY <1>0, <2>1, <2>2, <2>3 DEF OneEntry
<1>11. Handed'
  <2>1. \A e \in heap' : e.id < nextId'
    <3>. SUFFICES ASSUME NEW e \in heap' PROVE e.id < nextId + 1
      BY <1>0
    <3>1. CASE e = new
      BY <1>1, <1>3, <3>1, SMT
    <3>2. CASE e \in heap
      <4>1. e.id \in Nat /\ e.id < nextId
        BY <3>2, EntryFacts, WheelNumbers DEF Handed
      <4>. QED  BY <1>1, <4>1, SMT
    <3>. QED  BY <1>0, <3>1, <3>2
  <2>2. \A j \in 1..Len(fired') : fired'[j].id < nextId'
    <3>. SUFFICES ASSUME NEW j \in 1..Len(fired) PROVE fired[j].id < nextId + 1
      BY <1>0
    <3>1. fired[j].id \in Nat /\ fired[j].id < nextId
      BY EntryFacts, WheelNumbers DEF Handed
    <3>. QED  BY <1>1, <3>1, SMT
  <2>3. \A i \in Ids : i >= nextId' => fires'[i] = 0 /\ late'[i] = Never
    <3>1. \A i \in Ids : i >= nextId + 1 => i >= nextId
      BY <1>1, IdFacts, SMT
    <3>. QED  BY <1>0, <3>1 DEF Handed
  <2>4. \A i \in Ids : i < nextId' => added'[i] \in 0..now'
    <3>1. \A i \in Ids : i < nextId + 1 => i = nextId \/ i < nextId
      BY <1>1, IdFacts, SMT
    <3>2. now \in 0..now
      BY <1>1, SMT
    <3>. QED  BY <1>0, <1>4, <3>1, <3>2 DEF Handed
  <2>. QED  BY <2>1, <2>2, <2>3, <2>4 DEF Handed
<1>12. Schedule'
  <2>1. ASSUME NEW e \in heap'
        PROVE  /\ e.repeating => e.next <= now' + e.interval
               /\ OnTime(e, fires[e.id])'
    <3>1. CASE e \in heap
      <4>1. added'[e.id] = added[e.id]
        BY <1>4, <1>5, <3>1
      <4>. QED  BY <1>0, <3>1, <4>1 DEF Schedule, OnTime
    <3>2. CASE e = new
      <4>1. added'[e.id] = now /\ fires'[e.id] = 0
        BY <1>0, <1>3, <1>4, <1>7, <3>2
      <4>2. repeating => e.next = now + interval
        BY <1>3, <3>2
      <4>3. repeating => now + interval = now + (0 + 1) * interval
        BY <1>1, SMT
      <4>4. now + interval <= now + interval
        BY <1>1, SMT
      <4>. QED  BY <1>0, <1>3, <3>2, <4>1, <4>2, <4>3, <4>4 DEF OnTime
    <3>. QED  BY <1>0, <2>1, <3>1, <3>2
  <2>2. \A j \in 1..Len(fired) : added'[fired[j].id] = added[fired[j].id]
    BY <1>4, <1>6
  <2>3. ASSUME NEW j \in 1..Len(fired')
        PROVE  /\ fired'[j].next <= now'
               /\ IF j = 1 /\ pc' = "repush"
                  THEN /\ fires'[fired'[j].id] >= 1
                       /\ OnTime(fired[j], fires[fired[j].id] - 1)'
                  ELSE OnTime(fired[j], fires[fired[j].id])'
    BY <1>0, <2>2, <2>3 DEF Schedule, OnTime
  <2>. QED  BY <2>1, <2>3 DEF Schedule
<1>13. CancelHolds'
  BY <1>0, <1>3, <1>7 DEF CancelHolds
<1>14. AlarmSet'
  BY <1>0 DEF AlarmSet
<1>. QED  BY <1>8, <1>9, <1>10, <1>11, <1>12, <1>13, <1>14

\* The entries that ProcessFired pops are in the vector once each.
LEMMA PoppedOnce ==
    ASSUME NEW due, IsFiniteSet(due), NEW s \in [1..Cardinality(due) -> due],
           {s[j] : j \in DOMAIN s} = due
    PROVE  /\ s \in Seq(due) /\ Len(s) = Cardinality(due)
           /\ \A j, k \in 1..Len(s) : s[j] = s[k] => j = k
<1>. DEFINE n == Cardinality(due)
<1>1. n \in Nat
  BY FS_CardinalityType
<1>2. s \in Seq(due) /\ Len(s) = n
  BY <1>1
<1>3. s \in Surjection(1..n, due)
  BY DEF Surjection
<1>4. IsFiniteSet(1..n) /\ Cardinality(1..n) = n
  BY <1>1, FS_Interval, SMT
<1>5. s \in Injection(1..n, due)
  BY <1>3, <1>4, FS_SurjSameCardinalityImpliesInj
<1>6. \A j, k \in 1..n : s[j] = s[k] => j = k
  BY <1>5 DEF Injection, IsInjective
<1>. QED  BY <1>2, <1>6
\* ProcessFired purges the cancelled entries and pops those that are due: what
\* it keeps in the heap or takes in hand was never cancelled.
LEMMA PurgeStep ==
    ASSUME WheelInv, PurgeAndPop
    PROVE  WheelInv'
<1>. USE DEF WheelInv
<1>. DEFINE kept == {e \in heap : e.id \notin cancelled}
            due  == {e \in kept : e.next <= seen}
<1>0. /\ pc = "purge" /\ pc' = "fire" /\ heap' = kept \ due /\ cancelled' = {}
      /\ UNCHANGED <<now, nextId, running, armed, event, seen, stopper,
                     added, fires, late>>
  BY DEF PurgeAndPop, histVars
<1>1. PICK s \in [1..Cardinality(due) -> due] :
          {s[j] : j \in DOMAIN s} = due /\ fired' = s
  BY DEF PurgeAndPop
<1>2. due \subseteq heap /\ heap' \subseteq heap
  BY <1>0
<1>3. IsFiniteSet(due) /\ IsFiniteSet(heap')
  BY <1>2, FS_Subset DEF OneEntry
<1>4. /\ fired' \in Seq(due)
      /\ \A j, k \in 1..Len(fired') : fired'[j] = fired'[k] => j = k
  BY <1>1, <1>3, PoppedOnce
<1>5. /\ \A j \in 1..Len(fired') : fired'[j] \in heap /\ fired'[j] \in due
      /\ \A j \in 1..Len(fired') : fired'[j].id \notin cancelled
      /\ \A j \in 1..Len(fired') : fired'[j].next <= seen
  BY <1>4
<1>6. \A e \in heap' : e \in heap /\ e \notin due /\ e.id \notin cancelled
  BY <1>0
<1>7. \A e \in heap : e.id \in Ids
  BY EntryFacts, WheelNumbers
<1>8. \A i \in Ids : late[i] # Never =>
          /\ \A e \in heap' : e.id # i
          /\ \A j \in 1..Len(fired') : fired'[j].id # i
  BY <1>5, <1>6, <1>7 DEF CancelHolds
<1>9. Len(fired') \in Nat /\ fired' \in Seq(heap)
  BY <1>2, <1>4
<1>. HIDE DEF kept, due
<1>10. TypeOK'
  <2>1. heap' \subseteq Entry /\ cancelled' \subseteq Ids
    BY <1>0, <1>2 DEF TypeOK
  <2>2. fired' \in Seq(Entry)
    BY <1>9 DEF TypeOK
  <2>. QED  BY <1>0, <2>1, <2>2 DEF TypeOK
<1>11. Control'
  BY <1>0 DEF Control
<1>12. OneEntry'
  <2>1. \A e, f \in heap' : e.id = f.id => e = f
    BY <1>2 DEF OneEntry
  <2>2. \A j, k \in 1..Len(fired') : fired'[j].id = fired'[k].id => j = k
    BY <1>4, <1>5 DEF OneEntry
  <2>3. \A e \in heap' : \A j \in 1..Len(fired') : e.id # fired'[j].id
    BY <1>5, <1>6 DEF OneEntry
  <2>. QED  BY <1>3, <2>1, <2>2, <2>3 DEF OneEntry
<1>13. Handed'
  BY <1>0, <1>2, <1>5 DEF Handed
<1>14. Schedule'
  <2>1. \A e \in heap' : /\ e.repeating => e.next <= now' + e.interval
                         /\ OnTime(e, fires[e.id])'
    BY <1>0, <1>2 DEF Schedule, OnTime
  <2>2. ASSUME NEW j \in 1..Len(fired')
        PROVE  fired'[j].next <= now' /\ OnTime(fired[j], fires[fired[j].id])'
    <3>1. fired'[j] \in heap /\ fired'[j].next <= seen
      BY <1>5, <2>2
    <3>2. fired'[j].next \in Nat /\ seen \in Nat /\ now \in Nat /\ seen <= now
      BY <3>1, EntryFacts, WheelNumbers DEF Control
    <3>3. fired'[j].next <= now
      BY <3>1, <3>2, SMT
    <3>. QED  BY <1>0, <3>1, <3>3 DEF Schedule, OnTime
  <2>3. ~(pc' = "repush")
    BY <1>0
  <2>. QED  BY <2>1, <2>2, <2>3 DEF Schedule
<1>15. CancelHolds'
  <2>. SUFFICES ASSUME NEW i \in Ids
       PROVE  /\ late'[i] <= 1
              /\ late'[i] # Never =>
                    /\ \A e \in heap' : e.id # i
                    /\ \A j \in 1..Len(fired') : fired'[j].id # i
    BY DEF CancelHolds
  <2>1. late'[i] = late[i] /\ late[i] <= 1
    BY <1>0 DEF CancelHolds
  <2>. QED  BY <1>8, <2>1
<1>16. AlarmSet'
  BY <1>0 DEF AlarmSet
<1>. QED  BY <1>10, <1>11, <1>12, <1>13, <1>14, <1>15, <1>16

\* The callback of the first popped entry runs.
LEMMA FireStep ==
    ASSUME WheelInv, FireCallback
    PROVE  WheelInv'
<1>. USE DEF WheelInv
<1>. DEFINE id == fired[1].id
<1>0. /\ pc = "fire" /\ fired # <<>> /\ pc' = "repush" /\ Head(fired) = fired[1]
      /\ fires' = [fires EXCEPT ![Head(fired).id] = @ + 1]
      /\ late' = [late EXCEPT ![Head(fired).id] = IF @ = Never THEN Never ELSE @ + 1]
      /\ UNCHANGED <<now, heap, cancelled, nextId, running, armed, event, seen,
                     fired, stopper, added>>
  BY DEF FireCallback
<1>1. Len(fired) \in Nat /\ 1 \in 1..Len(fired)
  BY <1>0, SMT DEF TypeOK
<1>2. fired[1] \in Entry /\ id \in Ids /\ id \in Nat
  BY <1>1, WheelNumbers, EntryFacts
<1>3. /\ fires[id] \in Nat
      /\ late[id] \in Nat \cup {Never}
  BY <1>2, WheelNumbers
<1>4. /\ \A i \in Ids : fires'[i] = IF i = id THEN fires[id] + 1 ELSE fires[i]
      /\ \A i \in Ids : i # id => late'[i] = late[i]
      /\ late'[id] = IF late[id] = Never THEN Never ELSE late[id] + 1
  BY <1>0, <1>2 DEF TypeOK
<1>5. /\ \A e \in heap : e.id # id /\ e.id \in Ids
      /\ \A j \in 1..Len(fired) : fired[j].id \in Ids
      /\ \A j \in 1..Len(fired) : fired[j].id = id => j = 1
  BY <1>1, WheelNumbers, EntryFacts DEF OneEntry
<1>6. late[id] # Never => late[id] = 0
  BY <1>0, <1>1, <1>2 DEF CancelHolds
<1>7. late'[id] = Never \/ late'[id] = 1
  BY <1>4, <1>6, SMT
<1>h. id < nextId
  BY <1>1 DEF Handed
<1>. HIDE DEF id
<1>8. TypeOK'
  <2>1. fires' \in [Ids -> Nat] /\ late' \in [Ids -> Nat \cup {Never}]
    BY <1>0, <1>2, <1>3, SMT DEF TypeOK, id
  <2>. QED  BY <1>0, <2>1 DEF TypeOK
<1>9. Control' /\ OneEntry'
  BY <1>0 DEF Control, OneEntry
<1>10. Handed'
  <2>1. ~(id >= nextId)
    BY <1>2, <1>h, WheelNumbers, SMT
  <2>. QED  BY <1>0, <1>4, <2>1 DEF Handed
<1>11. Schedule'
  <2>1. \A e \in heap' : /\ e.repeating => e.next <= now' + e.interval
                         /\ OnTime(e, fires[e.id])'
    BY <1>0, <1>4, <1>5 DEF Schedule, OnTime
  <2>2. ASSUME NEW j \in 1..Len(fired')
        PROVE  /\ fired'[j].next <= now'
               /\ IF j = 1 /\ pc' = "repush"
                  THEN /\ fires'[fired'[j].id] >= 1
                       /\ OnTime(fired[j], fires[fired[j].id] - 1)'
                  ELSE OnTime(fired[j], fires[fired[j].id])'
    <3>0. /\ j \in 1..Len(fired) /\ fired[j].next <= now
          /\ OnTime(fired[j], fires[fired[j].id])
      BY <1>0, <2>2 DEF Schedule
    <3>1. CASE j = 1
      <4>1. fired[j].id = id /\ fires'[fired[j].id] = fires[id] + 1
        BY <1>2, <1>4, <3>1 DEF id
      <4>2. fires[id] + 1 >= 1 /\ (fires[id] + 1) - 1 = fires[id]
        BY <1>3, SMT
      <4>3. OnTime(fired[j], fires[fired[j].id] - 1)'
        BY <1>0, <3>0, <4>1, <4>2 DEF OnTime
      <4>. QED  BY <1>0, <3>0, <3>1, <4>1, <4>2, <4>3
    <3>2. CASE j # 1
      <4>1. fires'[fired[j].id] = fires[fired[j].id]
        BY <1>4, <1>5, <3>0, <3>2
      <4>. QED  BY <1>0, <3>0, <3>2, <4>1 DEF OnTime
    <3>. QED  BY <3>1, <3>2
  <2>. QED  BY <2>1, <2>2 DEF Schedule
<1>12. CancelHolds'
  <2>. SUFFICES ASSUME NEW i \in Ids
       PROVE  /\ late'[i] <= 1
              /\ late'[i] # Never /\ i \notin cancelled =>
                    /\ \A e \in heap : e.id # i
                    /\ \A j \in 1..Len(fired) : fired[j].id # i
              /\ late'[i] # Never =>
                    \A j \in 1..Len(fired) :
                        fired[j].id = i /\ ~(j = 1 /\ pc' = "repush") => late'[i] = 0
    BY <1>0 DEF CancelHolds
  <2>1. CASE i = id
    <3>1. late'[i] <= 1
      BY <1>7, <2>1, SMT DEF Never
    <3>2. late'[i] # Never => late[i] # Never
      BY <1>4, <2>1
    <3>. QED  BY <1>0, <1>5, <2>1, <3>1, <3>2 DEF CancelHolds
  <2>2. CASE i # id
    <3>1. late'[i] = late[i]
      BY <1>4, <2>2
    <3>. QED  BY <1>0, <3>1 DEF CancelHolds
  <2>. QED  BY <2>1, <2>2
<1>13. AlarmSet'
  BY <1>0 DEF AlarmSet
<1>. QED  BY <1>8, <1>9, <1>10, <1>11, <1>12, <1>13

\* The entry whose callback ran returns to the heap, or is gone.
LEMMA RepushStep ==
    ASSUME WheelInv, FireRepush
    PROVE  WheelInv'
<1>. USE DEF WheelInv
<1>. DEFINE e == fired[1]
            back == [e EXCEPT !.next = e.next + e.interval]
<1>0. /\ pc = "repush" /\ pc' = "fire" /\ fired # <<>> /\ Head(fired) = e
      /\ fired' = Tail(fired)
      /\ UNCHANGED <<now, cancelled, nextId, running, armed, event, seen, stopper,
                     added, fires, late>>
  BY DEF FireRepush, Control, histVars
<1>1. heap' = heap \/ (e.repeating /\ heap' = heap \cup {back})
  BY <1>0 DEF FireRepush
<1>2. Len(fired) \in Nat /\ 1 \in 1..Len(fired)
  BY <1>0, SMT DEF TypeOK
<1>3. /\ fired' \in Seq(Entry) /\ Len(fired') = Len(fired) - 1
      /\ \A j \in 1..Len(fired') : j + 1 \in 1..Len(fired) /\ j + 1 # 1
      /\ \A j \in 1..Len(fired') : fired'[j] = fired[j + 1]
  BY <1>0, <1>2, SMT DEF TypeOK
<1>4. e \in Entry
  BY <1>2, WheelNumbers
<1>5. /\ e.id \in Ids /\ e.id \in Nat /\ e.next \in Nat /\ e.interval \in Nat
      /\ e.next + e.interval \in Nat
  BY <1>4, EntryFacts, SMT
<1>6. back \in Entry
  BY <1>4, <1>5 DEF Entry
<1>7. /\ back.id = e.id /\ back.next = e.next + e.interval
      /\ back.interval = e.interval /\ back.repeating = e.repeating
  BY <1>4 DEF Entry
<1>8. /\ e.next <= now /\ e.id < nextId
      /\ fires[e.id] >= 1 /\ OnTime(e, fires[e.id] - 1)
  BY <1>0, <1>2 DEF Schedule, Handed
<1>9. \A f \in heap : f.id # e.id
  BY <1>2 DEF OneEntry
<1>10. \A j \in 1..Len(fired') : fired'[j].id # e.id
  BY <1>2, <1>3 DEF OneEntry
<1>11. now \in Nat /\ fires[e.id] \in Nat
  BY <1>5, WheelNumbers
<1>. HIDE DEF back, e
<1>12. TypeOK'
  <2>1. heap' \subseteq Entry
    BY <1>1, <1>6 DEF TypeOK
  <2>. QED  BY <1>0, <1>3, <2>1 DEF TypeOK
<1>13. Control'
  BY <1>0 DEF Control
<1>14. OneEntry'
  <2>1. IsFiniteSet(heap')
    BY <1>1, FS_AddElement DEF OneEntry
  <2>2. \A f, g \in heap' : f.id = g.id => f = g
    BY <1>1, <1>7, <1>9 DEF OneEntry
  <2>3. \A j, k \in 1..Len(fired') : fired'[j].id = fired'[k].id => j = k
    <3>. SUFFICES ASSUME NEW j \in 1..Len(fired'), NEW k \in 1..Len(fired'),
                         fired'[j].id = fired'[k].id
         PROVE  j = k
      OBVIOUS
    <3>1. j + 1 = k + 1
      BY <1>3 DEF OneEntry
    <3>. QED  BY <3>1, <1>3, SMT
  <2>4. \A f \in heap' : \A j \in 1..Len(fired') : f.id # fired'[j].id
    BY <1>1, <1>3, <1>7, <1>10 DEF OneEntry
  <2>. QED  BY <2>1, <2>2, <2>3, <2>4 DEF OneEntry
<1>15. Handed'
  BY <1>0, <1>1, <1>3, <1>7, <1>8 DEF Handed
<1>16. Schedule'
  <2>1. ASSUME NEW f \in heap'
        PROVE  /\ f.repeating => f.next <= now' + f.interval
               /\ OnTime(f, fires[f.id])'
    <3>1. CASE f \in heap
      BY <1>0, <3>1 DEF Schedule, OnTime
    <3>2. CASE f = back /\ e.repeating
      <4>1. e.next + e.interval <= now + e.interval
        BY <1>5, <1>8, <1>11, SMT
      <4>2. e.next = added[e.id] + ((fires[e.id] - 1) + 1) * e.interval
        BY <1>8, <3>2 DEF OnTime
      <4>3. (fires[e.id] - 1) + 1 = fires[e.id]
        BY <1>11, SMT
      <4>4. added[e.id] \in Int
        BY <1>5, WheelNumbers, SMT DEF Never
      <4>5. e.next + e.interval = added[e.id] + (fires[e.id] + 1) * e.interval
        BY <1>5, <1>11, <4>2, <4>3, <4>4, NextPeriod
      <4>. QED  BY <1>0, <1>7, <3>2, <4>1, <4>5 DEF OnTime
    <3>. QED  BY <1>1, <2>1, <3>1, <3>2
  <2>2. ASSUME NEW j \in 1..Len(fired')
        PROVE  fired'[j].next <= now' /\ OnTime(fired[j], fires[fired[j].id])'
    <3>1. /\ fired[j + 1].next <= now
          /\ OnTime(fired[j + 1], fires[fired[j + 1].id])
      BY <1>3, <2>2 DEF Schedule
    <3>. QED  BY <1>0, <1>3, <2>2, <3>1 DEF OnTime
  <2>3. ~(pc' = "repush")
    BY <1>0
  <2>. QED  BY <2>1, <2>2, <2>3 DEF Schedule
<1>17. CancelHolds'
  <2>. SUFFICES ASSUME NEW i \in Ids
       PROVE  /\ late[i] <= 1
              /\ late[i] # Never /\ i \notin cancelled =>
                    /\ \A f \in heap' : f.id # i
                    /\ \A j \in 1..Len(fired') : fired'[j].id # i
              /\ late[i] # Never =>
                    \A j \in 1..Len(fired') : fired'[j].id = i => late[i] = 0
    BY <1>0 DEF CancelHolds
  <2>1. late[i] <= 1
    BY DEF CancelHolds
  <2>2. ASSUME late[i] # Never, i \notin cancelled
        PROVE  /\ \A f \in heap' : f.id # i
               /\ \A j \in 1..Len(fired') : fired'[j].id # i
    <3>1. /\ \A f \in heap : f.id # i
          /\ \A j \in 1..Len(fired) : fired[j].id # i
      BY <2>2 DEF CancelHolds
    <3>2. e.id # i
      BY <1>2, <3>1 DEF e
    <3>. QED  BY <1>1, <1>3, <1>7, <3>1, <3>2
  <2>3. ASSUME late[i] # Never, NEW j \in 1..Len(fired'), fired'[j].id = i
        PROVE  late[i] = 0
    BY <1>3, <2>3 DEF CancelHolds
  <2>. QED  BY <2>1, <2>2, <2>3
<1>18. AlarmSet'
  BY <1>0 DEF AlarmSet
<1>. QED  BY <1>12, <1>13, <1>14, <1>15, <1>16, <1>17, <1>18

\* The wheel's invariant holds in every reachable state.
THEOREM WheelInvariant == Spec => []WheelInv
<1>1. WheelInv /\ [Next]_vars => WheelInv'
  <2>. SUFFICES ASSUME WheelInv, [Next]_vars PROVE WheelInv'
    OBVIOUS
  <2>1. CASE UNCHANGED vars
    BY <2>1 DEF vars, WheelInv, TypeOK, Control, OneEntry, Handed, Schedule,
                OnTime, CancelHolds, AlarmSet
  <2>2. ASSUME NEW i \in Intervals, AddRepeating(i) \/ AddOnce(i) PROVE WheelInv'
    <3>1. i \in Nat /\ i \in Intervals \cup {0} /\ 0 \in Intervals \cup {0}
      BY IdFacts
    <3>2. CASE AddRepeating(i)
      BY <3>1, <3>2, AddStep DEF AddRepeating
    <3>3. CASE AddOnce(i)
      BY <3>1, <3>3, AddStep DEF AddOnce
    <3>. QED  BY <2>2, <3>2, <3>3
  <2>. QED  BY <2>1, <2>2, TickStep, CancelStep, MoveStep, PurgeStep, FireStep,
               RepushStep DEF Next, WheelStep
<1>. QED  BY WheelInit, <1>1, PTL DEF Spec

-----------------------------------------------------------------------------
(* The properties *)

\* The wheel thread never goes to sleep in epoll_wait with a timer in the heap
\* and neither the eventfd set nor the timerfd armed in time for it.
THEOREM NeverAsleepUnarmed == Spec => []WheelSound
<1>1. WheelInv => WheelSound
  BY DEF WheelInv, WheelSound, AlarmSet, ArmedWhileAsleep
<1>. QED  BY <1>1, WheelInvariant, PTL

\* After Cancel(id) returned the callback of id runs at most once more.
THEOREM CancelIsPrompt == Spec => []AtMostOneAfterCancel
<1>1. WheelInv => AtMostOneAfterCancel
  BY DEF WheelInv, CancelHolds, AtMostOneAfterCancel
<1>. QED  BY <1>1, WheelInvariant, PTL

\* A repeating timer keeps to its grid added + k * interval: ProcessFired
\* anticipates no period and skips none, however late it runs.
THEOREM TimersKeepSchedule == Spec => []OnSchedule
<1>1. WheelInv => OnSchedule
  <2>. SUFFICES ASSUME WheelInv PROVE OnSchedule
    OBVIOUS
  <2>. USE DEF WheelInv
  <2>1. NoPeriodSkipped
    BY DEF NoPeriodSkipped, Schedule, OnTime
  <2>2. ASSUME NEW e \in heap \cup {fired[j] : j \in DOMAIN fired}
        PROVE  IF e.repeating THEN fires[e.id] * e.interval <= now - added[e.id]
                              ELSE fires[e.id] = 0 \/ (fires[e.id] = 1 /\ e.next <= now)
    <3>0. e \in heap \/ \E j \in 1..Len(fired) : e = fired[j]
      BY <2>2 DEF TypeOK
    <3>1. e \in Entry /\ e.id < nextId
      BY <3>0, WheelNumbers DEF Handed
    <3>2. /\ e.id \in Ids /\ e.next \in Nat /\ e.interval \in Nat
          /\ fires[e.id] \in Nat /\ now \in Nat
      BY <3>1, EntryFacts, WheelNumbers
    <3>3. added[e.id] \in Nat
      <4>1. added[e.id] \in 0..now
        BY <3>1, <3>2 DEF Handed
      <4>. QED  BY <3>2, <4>1, SMT
    <3>4. CASE e \in heap
      <4>1. /\ e.repeating => e.next <= now + e.interval
            /\ OnTime(e, fires[e.id])
        BY <3>4 DEF Schedule
      <4>2. ASSUME e.repeating PROVE fires[e.id] * e.interval <= now - added[e.id]
        <5>1. e.next = added[e.id] + (fires[e.id] + 1) * e.interval
          BY <4>1, <4>2 DEF OnTime
        <5>. QED  BY <3>2, <3>3, <4>1, <4>2, <5>1, PeriodsBefore
      <4>. QED  BY <4>1, <4>2 DEF OnTime
    <3>5. CASE \E j \in 1..Len(fired) : e = fired[j]
      <4>0. PICK j \in 1..Len(fired) : e = fired[j]
        BY <3>5
      <4>1. /\ e.next <= now
            /\ \/ OnTime(e, fires[e.id])
               \/ fires[e.id] >= 1 /\ OnTime(e, fires[e.id] - 1)
        BY <4>0 DEF Schedule
      <4>2. CASE OnTime(e, fires[e.id])
        <5>1. ASSUME e.repeating PROVE fires[e.id] * e.interval <= now - added[e.id]
          <6>1. e.next = added[e.id] + (fires[e.id] + 1) * e.interval
            BY <4>2, <5>1 DEF OnTime
          <6>2. e.next <= now + e.interval
            BY <3>2, <4>1, SMT
          <6>. QED  BY <3>2, <3>3, <6>1, <6>2, PeriodsBefore
        <5>. QED  BY <4>2, <5>1 DEF OnTime
      <4>3. CASE fires[e.id] >= 1 /\ OnTime(e, fires[e.id] - 1)
        <5>0. (fires[e.id] - 1) + 1 = fires[e.id]
          BY <3>2, SMT
        <5>1. ASSUME e.repeating PROVE fires[e.id] * e.interval <= now - added[e.id]
          <6>1. e.next = added[e.id] + fires[e.id] * e.interval
            BY <4>3, <5>0, <5>1 DEF OnTime
          <6>2. fires[e.id] * e.interval \in Int
            BY <3>2, SMT
          <6>. QED  BY <3>2, <3>3, <4>1, <6>1, <6>2, SMT
        <5>2. ASSUME ~e.repeating PROVE fires[e.id] = 1
          <6>1. fires[e.id] - 1 = 0
            BY <4>3, <5>2 DEF OnTime
          <6>. QED  BY <3>2, <6>1, SMT
        <5>. QED  BY <4>1, <5>1, <5>2
      <4>. QED  BY <4>1, <4>2, <4>3
    <3>. QED  BY <3>0, <3>4, <3>5
  <2>3. NeverAheadOfSchedule
    BY <2>2 DEF NeverAheadOfSchedule
  <2>. QED  BY <2>1, <2>3 DEF OnSchedule
<1>. QED  BY <1>1, WheelInvariant, PTL

\* No callback runs once Stop has returned, because Stop joins the thread.
THEOREM StopIsFinal == Spec => QuietAfterStop
<1>1. WheelInv /\ [Next]_vars => [stopper = "returned" => fires' = fires]_vars
  <2>. SUFFICES ASSUME WheelInv, Next, stopper = "returned" PROVE fires' = fires
    OBVIOUS
  <2>1. pc = "ended"
    BY DEF WheelInv, Control
  <2>2. ~FireCallback
    BY <2>1 DEF FireCallback
  <2>. QED
    BY <2>2 DEF Next, WheelStep, Tick, AddRepeating, AddOnce, Add, Cancel, Start,
         StopExchange, StopWakeup, StopJoin, RunCheck, RunWake, LoadNow,
         PurgeAndPop, FireRepush, FireDone, RunTimeout, histVars
<1>. QED  BY WheelInvariant, <1>1, PTL DEF Spec, QuietAfterStop
=============================================================================
