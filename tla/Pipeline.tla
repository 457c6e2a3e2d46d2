------------------------------ MODULE Pipeline ------------------------------
(***************************************************************************)
(* core/engine/pipeline_controller.{h,cc}: a controller that starts, runs  *)
(* and stops N pipelines, each a source, a channel, a process thread with  *)
(* a processor and possibly an aggregator, and sinks written by the shared *)
(* SinkPool.                                                               *)
(*                                                                         *)
(* Threads: the controller's (main), the TimerWheel, the CollectPool       *)
(* workers, the thread of each push source, one process thread per         *)
(* pipeline and the SinkPool workers.  AsyncChannel, ThreadPool and        *)
(* TimerWheel have modules of their own; here a channel is a FIFO that     *)
(* loses what does not fit, a pool is a FIFO of tasks and a timer may fire *)
(* at any time between Start and Stop.                                     *)
(*                                                                         *)
(* The batches of a pipeline are numbered as its source makes them.        *)
(***************************************************************************)
EXTENDS Integers, Sequences, FiniteSets

CONSTANTS
    N,           \* number of pipelines
    Push,        \* pipelines whose source IsPushMode()
    Agg,         \* pipelines with an aggregator
    NumSinks,    \* sinks of a pipeline
    Collectors,  \* workers of the CollectPool
    Writers,     \* workers of the SinkPool
    Capacity,    \* capacity of a channel
    DropOldest,  \* DropPolicy::kDropOldest, otherwise kDropNewest
    MaxPending,  \* kMaxPendingTasks
    MayFail,     \* pipelines with a plugin whose Start may fail
    MaxBatches,  \* bound: batches a source makes
    MaxCollects, \* bound: tasks queued in the CollectPool
    MaxFlushes   \* bound: sentinels in a channel

Pipelines == 1..N
Sinks == 1..NumSinks
Batches == 1..MaxBatches
Flush == 0                          \* the FlushSentinel in a channel

\* The plugins of a pipeline, numbered in the order Start and Stop visit them.
Source == 1
Processor == 2
Aggregator == 3
SinkStage(s) == 3 + s
Stages == 1..(3 + NumSinks)

ASSUME PipelineAssumption ==
    /\ N \in Nat \ {0} /\ NumSinks \in Nat \ {0} /\ Capacity \in Nat \ {0}
    /\ Push \subseteq Pipelines /\ Agg \subseteq Pipelines
    /\ MayFail \subseteq Pipelines
    /\ MaxPending \in Nat /\ MaxBatches \in Nat
    /\ IsFiniteSet(Collectors) /\ IsFiniteSet(Writers)
    /\ DropOldest \in BOOLEAN

VARIABLES
    cpc,       \* the controller's position in StartAll, StopAll, ~Controller
    cp,        \* the pipeline it is starting or stopping
    stage,     \* and the plugin of it
    life,      \* what the controller has done to each plugin
    running,   \* running_
    callback,  \* SetCallback has been called on the push source
    timer,     \* the TimerWheel thread runs
    collectq,  \* tasks of the CollectPool: the pipeline to collect for
    hand,      \* what a collector works on
    chan,      \* ingest_channel_
    ppc,       \* the process thread
    back,      \* where the process thread goes after the item
    item,      \* the batch it has dequeued, 0 if none
    agg,       \* the aggregator's buffers
    outbox,    \* batches in SubmitToSinks, each a set of source batches
    todo,      \* the next sink to submit to
    pool,      \* tasks of the SinkPool
    busy,      \* the task of a SinkPool worker
    written,   \* source batches a sink has been given while started
    late,      \* source batches a sink has been given after its Stop
    made,      \* number of batches made by the source
    fate       \* what became of each batch

controlVars == <<cpc, cp, stage, life, running, callback, timer>>
collectVars == <<collectq, hand>>
processVars == <<ppc, back, item, agg, outbox, todo>>
sinkVars == <<pool, busy, written, late>>
batchVars == <<made, fate>>
vars == <<controlVars, collectVars, chan, processVars, sinkVars, batchVars>>

Idle == [p |-> 0, b |-> 0]
NoTask == [p |-> 0, s |-> 0, b |-> {}]

Init ==
    /\ cpc = "start" /\ cp = 1 /\ stage = Source
    /\ life = [p \in Pipelines |-> [i \in Stages |-> "idle"]]
    /\ running = [p \in Pipelines |-> FALSE]
    /\ callback = [p \in Pipelines |-> FALSE]
    /\ timer = FALSE
    /\ collectq = <<>>
    /\ hand = [c \in Collectors |-> Idle]
    /\ chan = [p \in Pipelines |-> <<>>]
    /\ ppc = [p \in Pipelines |-> "off"]
    /\ back = [p \in Pipelines |-> "loop"]
    /\ item = [p \in Pipelines |-> 0]
    /\ agg = [p \in Pipelines |-> {}]
    /\ outbox = [p \in Pipelines |-> <<>>]
    /\ todo = [p \in Pipelines |-> 1]
    /\ pool = <<>>
    /\ busy = [w \in Writers |-> NoTask]
    /\ written = [p \in Pipelines |-> [s \in Sinks |-> {}]]
    /\ late = [p \in Pipelines |-> [s \in Sinks |-> {}]]
    /\ made = [p \in Pipelines |-> 0]
    /\ fate = [p \in Pipelines |-> [b \in Batches |-> "unmade"]]

-----------------------------------------------------------------------------
(* StartAll: Pipeline::Start for each pipeline, then the timers *)

Present(p, i) == i # Aggregator \/ p \in Agg

StartPlugin ==
    /\ cpc = "start"
    /\ life' = [life EXCEPT ![cp][stage] =
                              IF Present(cp, stage) THEN "started" ELSE @]
    /\ IF stage < 3 + NumSinks
       THEN stage' = stage + 1 /\ cpc' = cpc
       ELSE stage' = Source /\ cpc' = "spawn"
    /\ UNCHANGED <<cp, running, callback, timer, collectVars, chan,
                   processVars, sinkVars, batchVars>>

\* A plugin's Start returns an error (or the source or the sinks are missing):
\* Start gives up where it is, and StartAll calls StopAll.
StartPluginFails ==
    /\ cpc = "start" /\ cp \in MayFail /\ Present(cp, stage)
    /\ cpc' = "stop_timer"
    /\ UNCHANGED <<cp, stage, life, running, callback, timer, collectVars,
                   chan, processVars, sinkVars, batchVars>>

StartThread ==
    /\ cpc = "spawn"
    /\ running' = [running EXCEPT ![cp] = TRUE]
    /\ ppc' = [ppc EXCEPT ![cp] = "loop"]
    /\ cpc' = "callback"
    /\ UNCHANGED <<cp, stage, life, callback, timer, collectVars, chan, back,
                   item, agg, outbox, todo, sinkVars, batchVars>>

StartCallback ==
    /\ cpc = "callback"
    /\ callback' = [callback EXCEPT ![cp] = cp \in Push]
    /\ IF cp < N
       THEN cp' = cp + 1 /\ cpc' = "start"
       ELSE cp' = 1 /\ cpc' = "timers"
    /\ UNCHANGED <<stage, life, running, timer, collectVars, chan,
                   processVars, sinkVars, batchVars>>

StartTimers ==
    /\ cpc = "timers"
    /\ timer' = TRUE
    /\ cpc' = "up"
    /\ UNCHANGED <<cp, stage, life, running, callback, collectVars, chan,
                   processVars, sinkVars, batchVars>>

-----------------------------------------------------------------------------
(* StopAll, and the destruction of the controller after it *)

\* A signal ends the daemon's wait.
Shutdown ==
    /\ cpc = "up"
    /\ cpc' = "stop_timer"
    /\ UNCHANGED <<cp, stage, life, running, callback, timer, collectVars,
                   chan, processVars, sinkVars, batchVars>>

\* Mistake: the timers keep running.
StopTimerRunning ==
    /\ cpc = "stop_timer"
    /\ cpc' = "stop_collect"
    /\ UNCHANGED <<cp, stage, life, running, callback, timer, collectVars, chan,
                   processVars, sinkVars, batchVars>>

StopTimer ==
    /\ cpc = "stop_timer"
    /\ timer' = FALSE
    /\ cpc' = "stop_collect"
    /\ UNCHANGED <<cp, stage, life, running, callback, collectVars, chan,
                   processVars, sinkVars, batchVars>>

\* Mistake: the CollectPool is not waited for.
StopCollectPoolNoWait ==
    /\ cpc = "stop_collect"
    /\ cp' = 1 /\ cpc' = "stop"
    /\ UNCHANGED <<stage, life, running, callback, timer, collectVars, chan,
                   processVars, sinkVars, batchVars>>

\* collect_pool_.reset() runs the queued tasks and joins the workers.
StopCollectPool ==
    /\ cpc = "stop_collect"
    /\ collectq = <<>> /\ \A c \in Collectors : hand[c] = Idle
    /\ cp' = 1 /\ cpc' = "stop"
    /\ UNCHANGED <<stage, life, running, callback, timer, collectVars, chan,
                   processVars, sinkVars, batchVars>>

StopNext ==
    IF cp < N THEN cp' = cp + 1 /\ cpc' = "stop"
              ELSE cp' = cp /\ cpc' = "destroy"

StopExchange ==
    /\ cpc = "stop"
    /\ running' = [running EXCEPT ![cp] = FALSE]
    /\ IF running[cp] THEN cpc' = "stop_source" /\ cp' = cp ELSE StopNext
    /\ UNCHANGED <<stage, life, callback, timer, collectVars, chan,
                   processVars, sinkVars, batchVars>>

\* source_->Stop() joins the source's thread.
StopSource ==
    /\ cpc = "stop_source"
    /\ life' = [life EXCEPT ![cp][Source] = "stopped"]
    /\ cpc' = "join"
    /\ UNCHANGED <<cp, stage, running, callback, timer, collectVars, chan,
                   processVars, sinkVars, batchVars>>

StopJoin ==
    /\ cpc = "join"
    /\ ppc[cp] = "exited"
    /\ cpc' = "stop_plugins" /\ stage' = Processor
    /\ UNCHANGED <<cp, life, running, callback, timer, collectVars, chan,
                   processVars, sinkVars, batchVars>>

\* Processors, aggregator, then each sink (after its Flush).
StopPlugin ==
    /\ cpc = "stop_plugins"
    /\ life' = [life EXCEPT ![cp][stage] =
                              IF Present(cp, stage) THEN "stopped" ELSE @]
    /\ IF stage < 3 + NumSinks
       THEN stage' = stage + 1 /\ UNCHANGED <<cp, cpc>>
       ELSE stage' = Source /\ StopNext
    /\ UNCHANGED <<running, callback, timer, collectVars, chan, processVars,
                   sinkVars, batchVars>>

\* Mistake: the tasks left in the SinkPool are thrown away.
DestroyUndrained ==
    /\ cpc = "destroy"
    /\ \A w \in Writers : busy[w] = NoTask
    /\ cpc' = "done"
    /\ UNCHANGED <<cp, stage, life, running, callback, timer, collectVars,
                   chan, processVars, sinkVars, batchVars>>

\* ~PipelineController: sink_pool_ is destroyed, and with it runs the tasks it
\* still holds, before pipelines_; ~Pipeline's Stop finds running_ false.
Destroy ==
    /\ cpc = "destroy"
    /\ pool = <<>> /\ \A w \in Writers : busy[w] = NoTask
    /\ cpc' = "done"
    /\ UNCHANGED <<cp, stage, life, running, callback, timer, collectVars,
                   chan, processVars, sinkVars, batchVars>>

-----------------------------------------------------------------------------
(* What enters the channel: batches and sentinels *)

\* chan[p] after x has been offered to it; a full channel gives up its oldest
\* item for x, or refuses x.
Offered(p, x, evict) ==
    IF Len(chan[p]) < Capacity THEN Append(chan[p], x)
    ELSE IF evict THEN Append(Tail(chan[p]), x)
    ELSE chan[p]

Contents(q) == {q[k] : k \in DOMAIN q} \ {Flush}

\* The fates after x has been offered: what is in the channel no more, and x
\* if it did not get in, has been dropped.
FatesAfterOffer(p, x, evict, f) ==
    [b \in Batches |->
        IF /\ b \in Contents(chan[p]) \cup ({x} \ {Flush})
           /\ b \notin Contents(Offered(p, x, evict))
        THEN "dropped" ELSE f[b]]

Enqueue(p, b, f) ==
    /\ chan' = [chan EXCEPT ![p] = Offered(p, b, DropOldest)]
    /\ fate' = [fate EXCEPT ![p] = FatesAfterOffer(p, b, DropOldest, f)]

\* The thread of a push source, alive from the source's Start to its Stop, has
\* an event; without a callback the event is thrown away.
SourceEvent(p) ==
    LET b == made[p] + 1 IN
    /\ p \in Push /\ life[p][Source] = "started" /\ cpc # "done"
    /\ made[p] < MaxBatches
    /\ made' = [made EXCEPT ![p] = b]
    /\ IF callback[p]
       THEN Enqueue(p, b, [fate[p] EXCEPT ![b] = "flight"])
       ELSE /\ fate' = [fate EXCEPT ![p][b] = "early"]
            /\ UNCHANGED chan
    /\ UNCHANGED <<controlVars, collectVars, processVars, sinkVars>>

\* The collect timer of a pull source fires.
CollectTick(p) ==
    /\ timer /\ p \notin Push /\ running[p]
    /\ Len(collectq) < MaxCollects
    /\ collectq' = Append(collectq, p)
    /\ UNCHANGED <<controlVars, hand, chan, processVars, sinkVars, batchVars>>

CollectTake(c) ==
    /\ hand[c] = Idle /\ collectq # <<>>
    /\ hand' = [hand EXCEPT ![c] = [p |-> Head(collectq), b |-> 0]]
    /\ collectq' = Tail(collectq)
    /\ UNCHANGED <<controlVars, chan, processVars, sinkVars, batchVars>>

\* Collect() has made a batch ...
CollectMake(c) ==
    LET p == hand[c].p IN
    /\ p # 0 /\ hand[c].b = 0
    /\ made[p] < MaxBatches
    /\ made' = [made EXCEPT ![p] = @ + 1]
    /\ fate' = [fate EXCEPT ![p][made[p] + 1] = "flight"]
    /\ hand' = [hand EXCEPT ![c].b = made[p] + 1]
    /\ UNCHANGED <<controlVars, collectq, chan, processVars, sinkVars>>

\* ... or failed, or has nothing to report.
CollectNothing(c) ==
    /\ hand[c].p # 0 /\ hand[c].b = 0
    /\ hand' = [hand EXCEPT ![c] = Idle]
    /\ UNCHANGED <<controlVars, collectq, chan, processVars, sinkVars,
                   batchVars>>

CollectEnqueue(c) ==
    /\ hand[c].b # 0
    /\ Enqueue(hand[c].p, hand[c].b, fate[hand[c].p])
    /\ hand' = [hand EXCEPT ![c] = Idle]
    /\ UNCHANGED <<controlVars, collectq, processVars, sinkVars, made>>

\* The flush timer of a pipeline with an aggregator fires.
InjectFlush(p) ==
    /\ timer /\ p \in Agg /\ running[p]
    /\ Cardinality({k \in DOMAIN chan[p] : chan[p][k] = Flush}) < MaxFlushes
    /\ chan' = [chan EXCEPT ![p] = Offered(p, Flush, TRUE)]
    /\ fate' = [fate EXCEPT ![p] = FatesAfterOffer(p, Flush, TRUE, fate[p])]
    /\ UNCHANGED <<controlVars, collectVars, processVars, sinkVars, made>>

-----------------------------------------------------------------------------
(* ProcessLoop and Drain *)

ProcessCheck(p) ==
    /\ ppc[p] = "loop"
    /\ ppc' = [ppc EXCEPT ![p] = IF running[p] THEN "wait" ELSE "drain"]
    /\ UNCHANGED <<controlVars, collectVars, chan, back, item, agg, outbox,
                   todo, sinkVars, batchVars>>

\* Dequeue in the loop, TryDequeue in Drain, find an item.
ProcessDequeue(p) ==
    /\ ppc[p] \in {"wait", "drain"}
    /\ chan[p] # <<>>
    /\ chan' = [chan EXCEPT ![p] = Tail(@)]
    /\ back' = [back EXCEPT ![p] = IF ppc[p] = "wait" THEN "loop" ELSE "drain"]
    /\ IF Head(chan[p]) = Flush
       THEN ppc' = [ppc EXCEPT ![p] = "flush"] /\ item' = item
       ELSE /\ ppc' = [ppc EXCEPT ![p] = "data"]
            /\ item' = [item EXCEPT ![p] = Head(chan[p])]
    /\ UNCHANGED <<controlVars, collectVars, agg, outbox, todo, sinkVars,
                   batchVars>>

\* Mistake: Dequeue has no deadline.
ProcessNoTimeout(p) ==
    /\ ppc[p] = "wait" /\ chan[p] = <<>>
    /\ UNCHANGED vars

ProcessTimeout(p) ==
    /\ ppc[p] = "wait" /\ chan[p] = <<>>
    /\ ppc' = [ppc EXCEPT ![p] = "loop"]
    /\ UNCHANGED <<controlVars, collectVars, chan, back, item, agg, outbox,
                   todo, sinkVars, batchVars>>

\* Mistake: the aggregator is not flushed at the end.
ProcessDrainedNoFlush(p) ==
    /\ ppc[p] = "drain" /\ chan[p] = <<>>
    /\ ppc' = [ppc EXCEPT ![p] = "exited"]
    /\ back' = [back EXCEPT ![p] = "exited"]
    /\ UNCHANGED <<controlVars, collectVars, chan, item, agg, outbox, todo,
                   sinkVars, batchVars>>

\* Nothing is left to drain: one last Flush of the aggregator.
ProcessDrained(p) ==
    /\ ppc[p] = "drain" /\ chan[p] = <<>>
    /\ ppc' = [ppc EXCEPT ![p] = IF p \in Agg THEN "flush" ELSE "exited"]
    /\ back' = [back EXCEPT ![p] = "exited"]
    /\ UNCHANGED <<controlVars, collectVars, chan, item, agg, outbox, todo,
                   sinkVars, batchVars>>

\* HandleData, a processor returns an error or an empty batch ...
HandleDataEnds(p) ==
    /\ ppc[p] = "data"
    /\ \E f \in {"error", "filtered"} : fate' = [fate EXCEPT ![p][item[p]] = f]
    /\ item' = [item EXCEPT ![p] = 0]
    /\ ppc' = [ppc EXCEPT ![p] = back[p]]
    /\ UNCHANGED <<controlVars, collectVars, chan, back, agg, outbox, todo,
                   sinkVars, made>>

\* ... or the batch goes to the aggregator or, without one, to the sinks.
HandleData(p) ==
    /\ ppc[p] = "data"
    /\ item' = [item EXCEPT ![p] = 0]
    /\ IF p \in Agg
       THEN /\ agg' = [agg EXCEPT ![p] = @ \cup {item[p]}]
            /\ ppc' = [ppc EXCEPT ![p] = back[p]]
            /\ UNCHANGED outbox
       ELSE /\ outbox' = [outbox EXCEPT ![p] = <<{item[p]}>>]
            /\ ppc' = [ppc EXCEPT ![p] = "submit"]
            /\ UNCHANGED agg
    /\ UNCHANGED <<controlVars, collectVars, chan, back, todo, sinkVars,
                   batchVars>>

\* What SubmitToSinks is called for: nothing when the batch is empty.
Batched(b) == IF b = {} THEN <<>> ELSE <<b>>

\* Mistake: the buffers are not cleared.
HandleFlushKeeps(p) ==
    /\ ppc[p] = "flush"
    /\ \E rec \in SUBSET agg[p] :
          outbox' = [outbox EXCEPT ![p] = Batched(rec) \o Batched(agg[p] \ rec)]
    /\ ppc' = [ppc EXCEPT ![p] = "submit"]
    /\ UNCHANGED <<controlVars, collectVars, chan, back, item, agg, todo,
                   sinkVars, batchVars>>

\* The aggregator's Flush empties its buffers into a batch of records and a
\* batch of stack samples, each only if it is not empty.
HandleFlush(p) ==
    /\ ppc[p] = "flush"
    /\ \E rec \in SUBSET agg[p] :
          outbox' = [outbox EXCEPT ![p] = Batched(rec) \o Batched(agg[p] \ rec)]
    /\ agg' = [agg EXCEPT ![p] = {}]
    /\ ppc' = [ppc EXCEPT ![p] = "submit"]
    /\ UNCHANGED <<controlVars, collectVars, chan, back, item, todo, sinkVars,
                   batchVars>>

-----------------------------------------------------------------------------
(* SubmitToSinks *)

\* Mistake: the pending tasks are not looked at.
SubmitUnchecked(p) ==
    /\ ppc[p] = "submit" /\ outbox[p] # <<>>
    /\ ppc' = [ppc EXCEPT ![p] = "push"]
    /\ UNCHANGED <<controlVars, collectVars, chan, back, item, agg, outbox,
                   todo, sinkVars, batchVars>>

\* PendingTasks() is read under the pool's lock, which is released before the
\* submissions.
SubmitCheck(p) ==
    /\ ppc[p] = "submit" /\ outbox[p] # <<>>
    /\ IF Len(pool) > MaxPending
       THEN /\ fate' = [fate EXCEPT ![p] = [b \in Batches |->
                   IF b \in Head(outbox[p]) THEN "shed" ELSE fate[p][b]]]
            /\ outbox' = [outbox EXCEPT ![p] = Tail(@)]
            /\ UNCHANGED ppc
       ELSE /\ ppc' = [ppc EXCEPT ![p] = "push"]
            /\ UNCHANGED <<fate, outbox>>
    /\ UNCHANGED <<controlVars, collectVars, chan, back, item, agg, todo,
                   sinkVars, made>>

SubmitSink(p) ==
    /\ ppc[p] = "push"
    /\ pool' = Append(pool, [p |-> p, s |-> todo[p], b |-> Head(outbox[p])])
    /\ IF todo[p] < NumSinks
       THEN /\ todo' = [todo EXCEPT ![p] = @ + 1]
            /\ UNCHANGED <<outbox, ppc>>
       ELSE /\ todo' = [todo EXCEPT ![p] = 1]
            /\ outbox' = [outbox EXCEPT ![p] = Tail(@)]
            /\ ppc' = [ppc EXCEPT ![p] = "submit"]
    /\ UNCHANGED <<controlVars, collectVars, chan, back, item, agg, busy,
                   written, late, batchVars>>

SubmitDone(p) ==
    /\ ppc[p] = "submit" /\ outbox[p] = <<>>
    /\ ppc' = [ppc EXCEPT ![p] = back[p]]
    /\ UNCHANGED <<controlVars, collectVars, chan, back, item, agg, outbox,
                   todo, sinkVars, batchVars>>

WriterTake(w) ==
    /\ busy[w] = NoTask /\ pool # <<>>
    /\ busy' = [busy EXCEPT ![w] = Head(pool)]
    /\ pool' = Tail(pool)
    /\ UNCHANGED <<controlVars, collectVars, chan, processVars, written, late,
                   batchVars>>

\* sink->Write(batch)
WriterWrite(w) ==
    LET t == busy[w] IN
    /\ t # NoTask
    /\ busy' = [busy EXCEPT ![w] = NoTask]
    /\ IF life[t.p][SinkStage(t.s)] = "started"
       THEN /\ written' = [written EXCEPT ![t.p][t.s] = @ \cup t.b]
            /\ UNCHANGED late
       ELSE /\ late' = [late EXCEPT ![t.p][t.s] = @ \cup t.b]
            /\ UNCHANGED written
    /\ UNCHANGED <<controlVars, collectVars, chan, processVars, pool,
                   batchVars>>

-----------------------------------------------------------------------------
Controller ==
    \/ StartPlugin \/ StartPluginFails \/ StartThread \/ StartCallback
    \/ StartTimers
    \/ StopTimer \/ StopCollectPool \/ StopExchange \/ StopSource \/ StopJoin
    \/ StopPlugin \/ Destroy

Process(p) ==
    \/ ProcessCheck(p) \/ ProcessDequeue(p) \/ ProcessTimeout(p)
    \/ ProcessDrained(p) \/ HandleDataEnds(p) \/ HandleData(p)
    \/ HandleFlush(p) \/ SubmitCheck(p) \/ SubmitSink(p) \/ SubmitDone(p)

Collector(c) ==
    CollectTake(c) \/ CollectMake(c) \/ CollectNothing(c) \/ CollectEnqueue(c)

Writer(w) == WriterTake(w) \/ WriterWrite(w)

\* The daemon is gone.
Terminated == cpc = "done" /\ UNCHANGED vars

Next ==
    \/ Controller \/ Shutdown \/ Terminated
    \/ \E p \in Pipelines : \/ SourceEvent(p) \/ CollectTick(p)
                            \/ InjectFlush(p) \/ Process(p)
    \/ \E c \in Collectors : Collector(c)
    \/ \E w \in Writers : Writer(w)

Spec == Init /\ [][Next]_vars

\* Every thread of the daemon that can run is scheduled.  Nothing is owed by
\* the environment: no event, no timer and no signal need ever come.
Fairness ==
    /\ WF_vars(Controller)
    /\ \A p \in Pipelines : WF_vars(Process(p))
    /\ \A c \in Collectors : WF_vars(Collector(c))
    /\ \A w \in Writers : WF_vars(Writer(w))

FairSpec == Spec /\ Fairness

-----------------------------------------------------------------------------
(* Properties *)

\* Type invariant.
TypeOK ==
    /\ cpc \in {"start", "spawn", "callback", "timers", "up", "stop_timer",
                "stop_collect", "stop", "stop_source", "join", "stop_plugins",
                "destroy", "done"}
    /\ cp \in Pipelines /\ stage \in Stages
    /\ life \in [Pipelines -> [Stages -> {"idle", "started", "stopped"}]]
    /\ running \in [Pipelines -> BOOLEAN]
    /\ callback \in [Pipelines -> BOOLEAN]
    /\ timer \in BOOLEAN
    /\ collectq \in Seq(Pipelines)
    /\ hand \in [Collectors -> [p : 0..N, b : 0..MaxBatches]]
    /\ chan \in [Pipelines -> Seq(0..MaxBatches)]
    /\ \A p \in Pipelines : Len(chan[p]) <= Capacity
    /\ ppc \in [Pipelines -> {"off", "loop", "wait", "drain", "data", "flush",
                              "submit", "push", "exited"}]
    /\ back \in [Pipelines -> {"loop", "drain", "exited"}]
    /\ item \in [Pipelines -> 0..MaxBatches]
    /\ agg \in [Pipelines -> SUBSET Batches]
    /\ outbox \in [Pipelines -> Seq(SUBSET Batches)]
    /\ todo \in [Pipelines -> Sinks]
    /\ pool \in Seq([p : Pipelines, s : Sinks, b : SUBSET Batches])
    /\ busy \in [Writers -> [p : 0..N, s : 0..NumSinks, b : SUBSET Batches]]
    /\ written \in [Pipelines -> [Sinks -> SUBSET Batches]]
    /\ late \in [Pipelines -> [Sinks -> SUBSET Batches]]
    /\ made \in [Pipelines -> 0..MaxBatches]
    /\ fate \in [Pipelines -> [Batches -> {"unmade", "flight", "early",
                    "dropped", "error", "filtered", "shed"}]]

\* How many copies of batch b of pipeline p are on their way to sink s, or
\* have reached it.
Copies(p, s, b) ==
      Cardinality({c \in Collectors : hand[c] = [p |-> p, b |-> b]})
    + Cardinality({k \in DOMAIN chan[p] : chan[p][k] = b})
    + (IF item[p] = b THEN 1 ELSE 0)
    + (IF b \in agg[p] THEN 1 ELSE 0)
    + Cardinality({k \in DOMAIN outbox[p] :
          b \in outbox[p][k] /\ ~(k = 1 /\ ppc[p] = "push" /\ s < todo[p])})
    + Cardinality({k \in DOMAIN pool :
          pool[k].p = p /\ pool[k].s = s /\ b \in pool[k].b})
    + Cardinality({w \in Writers :
          busy[w].p = p /\ busy[w].s = s /\ b \in busy[w].b})
    + (IF b \in written[p][s] THEN 1 ELSE 0)
    + (IF b \in late[p][s] THEN 1 ELSE 0)

\* A batch is lost only where the code says so (no callback yet, channel full,
\* processor error or filter, SinkPool overloaded); every other batch is on
\* its way to each sink or has been given to it, once: nothing is duplicated,
\* forgotten or sent to some of the sinks only.
EachBatchOnce ==
    \A p \in Pipelines, s \in Sinks, b \in Batches :
        Copies(p, s, b) = IF fate[p][b] = "flight" THEN 1 ELSE 0

\* The state is well formed and every batch is accounted for.
BatchesSound == TypeOK /\ EachBatchOnce

\* SubmitToSinks tests PendingTasks() > kMaxPendingTasks before it submits to
\* all sinks, and N process threads may pass the test together: the queue of
\* the SinkPool exceeds the limit by at most one batch per pipeline.
PoolBounded == Len(pool) <= MaxPending + N * NumSinks

\* Sources, processors and aggregators are used only between their Start and
\* their Stop, whoever uses them: a collector, the process thread or the final
\* flush (plugin_api.h, the plugin's life cycle).
UsedWhileStarted ==
    /\ \A c \in Collectors : hand[c].p # 0 => life[hand[c].p][Source] = "started"
    /\ \A p \in Pipelines :
          ppc[p] \in {"loop", "wait", "drain", "data", "flush", "submit", "push"}
              => \A i \in {Processor, Aggregator} :
                    Present(p, i) => life[p][i] = "started"

\* Once the process thread of pipeline p has been joined, nothing is left
\* behind in the channel or in the aggregator.
Drained(p) ==
    ppc[p] = "exited" /\ life[p][Processor] = "stopped"
        => chan[p] = <<>> /\ agg[p] = {}

\* StopAll's order (timers, CollectPool, pipelines) leaves nothing behind in a
\* pipeline that is fed by a pull source.
PullDrained == \A p \in Pipelines \ Push : Drained(p)

\* "Stop each pipeline (ProcessThread drains channel)": whatever its source.
AllDrained == \A p \in Pipelines : Drained(p)

\* When the daemon is gone every batch that was not lost by then has been given
\* to every sink: the pool's last tasks run before it is destroyed.
DeliveredAtExit ==
    cpc = "done" =>
        \A p \in Pipelines \ Push, s \in Sinks, b \in Batches :
            fate[p][b] = "flight" => b \in written[p][s] \cup late[p][s]

\* A pull pipeline is emptied, and what it made is delivered.
PullDelivered == PullDrained /\ DeliveredAtExit

\* A sink is written only between its Start and its Stop (plugin_api.h).
NoWriteAfterStop == \A p \in Pipelines, s \in Sinks : late[p][s] = {}

\* A plugin that was started is stopped before it is destroyed (plugin_api.h).
StartedIsStopped ==
    cpc = "done" => \A p \in Pipelines, i \in Stages : life[p][i] # "started"

\* The two pools as TaskFifo has them; StopAll and ~PipelineController destroy them.
CollectPool == INSTANCE TaskFifo WITH
    Workers <- Collectors, Task <- Pipelines, None <- 0,
    queue <- collectq, hands <- [c \in Collectors |-> hand[c].p],
    owner <- IF cpc = "stop_collect" THEN "destroying"
             ELSE IF cpc \in {"stop", "stop_source", "join", "stop_plugins", "destroy", "done"}
             THEN "gone" ELSE "using"

SinkPool == INSTANCE TaskFifo WITH
    Workers <- Writers, Task <- [p : Pipelines, s : Sinks, b : SUBSET Batches],
    None <- NoTask, queue <- pool, hands <- busy,
    owner <- IF cpc = "destroy" THEN "destroying" ELSE IF cpc = "done" THEN "gone" ELSE "using"

\* Both pools are used as ThreadPool asks: whatever timers, process threads and a
\* failed start are doing, no task is submitted to a pool that is being destroyed,
\* and the controller goes on only when its last task has run.
PoolsOwned == CollectPool!Spec /\ SinkPool!Spec

\* A shutdown ends: no thread is joined that waits for ever.
ShutdownEnds == (cpc = "stop_timer") ~> (cpc = "done")
=============================================================================
