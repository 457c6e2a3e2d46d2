# Illuminator: TLA+ specifications

Illuminator is a C++ observability daemon: eBPF and `/proc` sources feed
event-driven pipelines that process, aggregate, store and export what they
collect. This directory holds TLA+ modules of its concurrent core, the TLC
configurations that check them on small instances, and proofs that TLAPS checks:
the queue, the pools and the timers, the pipelines built on them, and at both
ends of the pipelines the eBPF sources, the storage and the WebSocket server.
Paths below are relative to `src/src/` unless they say otherwise.

`PROJECT.json` lists the components, the runs, the source lines behind every
definition (`map`), the hazards of the code, the findings and the theorems.

## 1. The system

### Data path and threads

```
 TimerWheel ──(collect tick)──► CollectPool ──► Source::Collect ─┐
     │                                                           ├─► AsyncChannel ─► process thread ─► SinkPool ─► Sink::Write
     │          push source's own poll thread ──(callback)───────┘   (LockFreeQueue)   processors
     └──(flush tick)── InjectFlush: a sentinel in the same channel ──────┘             aggregator
```

One TimerWheel thread, M CollectPool workers, one process thread per pipeline,
K SinkPool workers, one poll thread per push source, and the main thread that
starts and stops everything. The HTTP server and the WebSocket manager have
threads of their own and read what the sinks leave for them.

### Inventory

| Component | State | Operations | What is hard | What makes it correct |
|---|---|---|---|---|
| LockFreeQueue (`core/memory/lock_free_queue.h`) | `head_`, `tail_`, per cell a sequence and a plain `data` | `TryPush`, `TryPop`, `SizeApprox` | any number of threads, single atomic accesses, a push that laps a slow pop | no two threads inside a cell; a bounded FIFO; a fill level that is possible; one thread's operations do not depend on the others' progress |
| AsyncChannel (`core/engine/async_channel.h`) | the queue, five counters, `backpressured_` | `TryEnqueue`, `InjectFlush`, `Dequeue`, `TryDequeue` | full queue: evict and push again while others push; the flag is tested and set in separate steps | nothing vanishes uncounted; losses follow the policy; backpressure is justified and reaches the source |
| ThreadPool (`core/threading/thread_pool.h`) | `tasks_`, `stop_`, a condition variable | `Submit`, worker loop, destructor | notification outside the lock, spurious wake-ups, destructor against sleeping workers | every task once and in order; no lost wake-up; the destructor drains and returns |
| TimerWheel (`core/engine/timer_wheel.h`) | heap, cancelled ids, timerfd, eventfd, `running_` | `AddRepeating`, `AddOnce`, `Cancel`, `Start`, `Stop`, `Run` | timers added and cancelled while callbacks run; being late; stop against `epoll_wait` | never asleep past a deadline; no period skipped or anticipated; bounded effect of a late cancel; quiet after `Stop` |
| Pipeline, PipelineController (`core/engine/pipeline_controller.{h,cc}`) | `running_`, the channel, the process thread, the plugins' life cycle, both pools | `Start`, `Stop`, `Enqueue`, `ProcessLoop`, `Drain`, `SubmitToSinks`, `StartAll`, `StopAll` | six kinds of threads; order of shutdown; failure half-way through start | each batch takes exactly one way; plugins used only while started; shutdown ends and leaves nothing behind |
| Daemon (`cli/main.cc`) | the order of all of it | `RunDaemon` | the storage backend becomes known after `StartAll` | everything that is registered is reachable |
| Storage (`storage/sqlite_backend/`, `sinks/local_storage/`) | one SQLite connection and mutex per sink, one file | `Init`, `WriteRecords`, `WriteStackSamples`, `WriteProfile`, `Prune`, `Query`, `Close` | a `COMMIT` that fails; `Close` without the mutex; queries inside another thread's transaction; crashes | whole parts of batches or nothing; Ok is durable; rows stay for their retention and then go |
| WebSocketManager (`server/websocket_manager.h`, `websocket_server.h`) | connections, subscriptions and receive buffers behind `mu_`; the sink's batches | accept loop, broadcast loop, frame codec, `Stop` | descriptor numbers that are reused; peers that send after a Close or do not read; frames split by reads; a mutex that is not recursive; blocking sockets | the tables agree with the descriptors; no leak; the newest batch reaches every subscriber; `Stop` returns |
| Scheduler and I/O sources (`sources/sched`, `sources/io`, `sources/ebpf_ring_buffer_source.h`) with their BPF probes and the loader (`ebpf/`) | start times by task or sector, per-task counts, ring buffers; `cached_batch_`, `recent_events_`, `history_` | probes; `Start`, poll thread, `Stop`, `Collect`, `QueryExtra` | dropped ends, full maps and rings, programs attached one by one, keys that are reused or shared, counts added through a pointer, overlapping `Collect`s | a latency is one that really was; start times do not pile up; nothing reported twice |
| CPU profile (`sources/cpu/cpu_profiler`, `processors/stack_symbolizer`, `processors/stack_merger`, the stack window of `aggregators/cpu_stats_aggregator`) | `stack_counts`, filters, perf events; cached address spaces; merged counts | `on_cpu_sample`, `Start`, `Stop`, `Collect`, `Process`, `Add`, `Flush`, the API's flame graph | two CPUs at one new entry; exec and reused pids against a cache; counts that nobody clears | counts conserved; only targets; names not older than the cache's life time |
| `/proc` sources (`sources/cpu/cpu_utilization`, `process_cpu`, `proc_stat_reader`) | the previous reading | `Collect` | called by a pool worker and the API at once; counters of the kernel that go back | rates are not negative |
| Other processors and sinks | little | formatting and filtering | little | not modelled, or by their outcomes |
| Arena, DataBatch (`core/memory/arena.h`, `core/engine/data_batch.h`) | blocks, columns | allocate, append | alignment, growth | no overlap |
| Plugin system, configuration, metrics, JSON, HTTP routes | registries and parsers | start-up and formatting | little | not modelled |
| Web front end (`src/web/src/services/`) | sockets, timers, ring buffers | reconnect, subscribe, append, query | late events of an old socket | not modelled |

## 2. Modules

| Module | Models | Notes |
|---|---|---|
| `BoundedFifo` | what a LockFreeQueue promises | a push is a claim and a publication, a pop a take and a release; says exactly when "full" and "empty" may be answered early |
| `LockFreeQueue` | `TryPush`, `TryPop`, `SizeApprox` | one action per atomic access; `ImplementsFifo` is the refinement mapping |
| `LockFreeQueue_proofs` | | theorems about `LockFreeQueue` |
| `AsyncChannel`, `AsyncChannel_proofs` | the channel and the backpressure half of `Pipeline::Enqueue` | uses `BoundedFifo` as its queue, so every promise the channel relies on is one the ring is checked to keep |
| `TaskFifo` | what a ThreadPool promises and what it asks of its owner | a free worker takes the oldest task; nothing is submitted once the destructor has begun, and it returns when no task is queued or under way |
| `ThreadPool` | the pool, its condition variable, its destructor | `ImplementsTaskFifo` is the refinement mapping |
| `TimerWheel` | the wheel thread, its callers, timerfd and eventfd, a clock | |
| `Engine_proofs` | | theorems about `ThreadPool` and `TimerWheel`, the two schedulers; they share no variable and stand side by side |
| `Pipeline`, `Pipeline_proofs` | controller, collectors, push sources, process threads, SinkPool workers for N pipelines | composes what the modules above promise: a channel is a lossy FIFO, a pool what `TaskFifo` says (`PoolsOwned`), a timer may fire at any time while it runs |
| `Storage`, `Storage_proofs` | the SQLite backend under the storage sinks, `Prune`, and the daemon's start order | SQLite is external; composes sinks, SinkPool workers, daemon and crashes |
| `WebSocket`, `WebSocket_proofs` | manager, codec and sink store | kernel and peers are external |
| `Tracers`, `Tracers_proofs` | four BPF objects, the loader, and five sources (one module, because they share the pairing of two events through a map, the loader and the poll thread) | the traced kernel is external |
| `Profiling`, `Profiling_proofs` | the CPU profile pipeline from the BPF program to the aggregator's window | composes source, two processors and the aggregator |
| `MC…` | model values, symmetry and bounds for TLC | |

### Correspondence with the code

*LockFreeQueue.* `pc[t]` is the place of thread t in an operation, `pos[t]` the
local `pos`, `val[t]` the argument or result. Each `compare_exchange_weak` is a
success action (`PushClaim`, `PopClaim`) or a failure (`PushCasFail`,
`PopCasFail`), which may be spurious. Plain accesses to `data` are separate
steps, so a data race would be visible as two threads between claim and release
of one cell. Interleaving of single accesses is adequate for the orders the code
asks for: an operation makes one read-modify-write that claims its cell, its
later stores are to that cell alone, and the acquire load of the sequence that
admits the next thread pairs with the release store that follows the access to
`data`. A relaxed load of `head_` or `tail_` that returns an old value is a load
that happened earlier; the retry loop is modelled so. Positions are unbounded:
the 64-bit counters do not wrap in practice. `Capacity` is the value after
`RoundUpPow2`.

*AsyncChannel.* `head`, `tail` are kept beside the abstract queue because
`UpdateBackpressure` reads them one after the other through `SizeApprox`.
`was`, `h`, `bp` are the locals of the calls; the counters of `Stats` are
variables. `dropOldest` is the policy the constructor received.
`EnqueueLoadBp … EnqueueTell` are lines 168-178 of `pipeline_controller.h`.

*ThreadPool.* A critical section is one action, `notify_one` and `notify_all`
follow it as steps of their own. A sleeping worker may wake spuriously.

*TimerWheel.* `heap_` is a set of entries; entries with equal deadlines leave it
in any order, as a binary heap leaves that open. `armed` is the expiry of the
timerfd. `Tick` lets the clock run between any two steps.

*Pipeline.* `cpc` walks through `StartAll`, the wait, `StopAll` and the
destruction of the controller. `life[p]` records what was done to each plugin.
`fate[p][b]` and `written`, `late` are history: where a batch was lost, and
which sink received it while started or after its `Stop`. Processors are
modelled by their outcomes (error, nothing left, a batch); the aggregator by its
two buffers, which `Flush` empties into at most two batches.

*Storage.* `txn[c]` is the open transaction of a connection: rows inserted and
deleted. Whatever statement runs on the connection sees it and joins it; that is
how a query reads uncommitted rows and how a write after a failed `COMMIT`
becomes part of the transaction that was left open (`BEGIN` fails, and nobody
looks). A transaction with changes holds the lock of the file, and other
connections fail after the busy timeout (`Busy`). `StopSink` is
`LocalStorageSink::Stop` with `Close`: with a statement not yet finalized
SQLite refuses to close, the pointer is cleared all the same, and the connection
is leaked together with its lock (`"leaked"`). `task[w]` is where a SinkPool
worker is inside `Write`. `Crash` is the death of the process, with WAL and
`synchronous=NORMAL`, not a power failure. `result` records what each part was
answered: `"skipped"` is the Ok of a backend that is already closed.

*WebSocket.* `fds` is the kernel's descriptor table: a closed number is the next
one given out. `conns` and `subs` are the two maps; `conns[f].bytes` is how much
of what the peer has sent is in `recv_buf`. `DecodeFrame` works on the header
bytes a peer really sends, for the three encodings of the length. The sockets are
blocking ones: `full` is the set of peers that have not read, and a write to one of
them (a batch, a pong, a Close frame) waits. Sections under `mu_` are one step,
except the two in which the broadcast thread may wait: while it decodes and answers
the frames of a connection, where `HandleTextMessage` also tries to lock `mu_` (that
state is `"stuck"`), and while it takes leave of a connection it removes
(`CloseListed`). A batch is written subscriber by subscriber, without the mutex
(`WriteTo`, `WriteFails`). `toRemove` is a sequence, because a descriptor may be in
it twice; `twice` remembers that it was. Only the broadcast thread removes
connections, so its snapshot and `poll` are one step.

*Tracers.* `start` is the map from task or sector to a time, `Updates` the two
outcomes of an update with a new key (no probe checks them), `Submit` a
reservation in a ring that may be full. `waits` is what the latency ought to be,
kept by the traced kernel, for each task and each request; `SectorOf` gives several
requests one sector number, as two disks do. A probe is one step, except
`sched_agg_add_latency`: `agg` is the element a task has in the map, `mem` the count
in each element, used or not, and `hit` a probe's pointer and what it loaded through
it. `LoadCount` and `StoreCount` go to that element whoever has it by then.
`carried` is history: by how much such a store raised the count of another task.
`Later` is the rest of the machine, whose events keep filling the ring buffer.
`life` walks through `Start`, whose every step may fail, and `Stop`; programs are
attached and detached one at a time, and each is live as soon as it is attached.

*Profiling.* A stack stands for the process it was taken in, and a name for the
address space it was resolved in. `cpu[c]` is a probe between its look-up and its
insert. `cache` is `maps_cache_` with the age of each entry; `stale` counts how
long ago the process left the cached address space. Ages are in ticks, of which
several make a second, since the code compares whole seconds.
`AggregatedPullLoop` changes nothing, because `FlushAggregatedCounts` returns at
once when `callback_` is not set.

## 3. Runs

| Run | Instance | Shows |
|---|---|---|
| `LockFreeQueue` | 3 threads, 2 values, 2 cells; pushes start until two have been claimed, and three may be under way then, so up to four happen | `NoDataRace`, `SizeWithinCapacity`, the inductive invariant `RingInv`, the refinement `ImplementsFifo`, and `LoneOperationEnds`: t1 keeps running, the other two may stop anywhere. Four pushes over two cells reuse every cell while others are slow |
| `AsyncChannel` | 2 producers, the flusher, the consumer, capacity 2, both policies, 3 batches, 1 sentinel | `ChannelSound` (every item is accounted for), `LossOnlyToFlush`, `RaiseJustified`. Three batches and a sentinel over two places force eviction, a lost second push and both edges of the flag |
| `ThreadPool` | 3 workers, 2 submitters, 4 tasks | `OnceInOrder` (each task exactly once, none overtaken), `NoLostWakeup`, `DestroyedMeansDrained`, the refinement `ImplementsTaskFifo`, `EveryTaskRuns`, `DestructorReturns` |
| `TimerWheel` | 2 timers, intervals 1 and 2, clock to 2 | `WheelSound` (armed whenever asleep), `AtMostOneAfterCancel`, `OnSchedule` (no period skipped or anticipated), `QuietAfterStop`, `DueTimersFire`, `StopReturns`. The clock reaches two deadlines of a fast timer before the wheel looks, so catching up happens |
| `PipelinePull` | 1 pull pipeline, aggregator, 2 sinks, 2 collectors, 2 writers, 2 batches, pool limit 0, start may fail | `BatchesSound` (each batch takes one way), `PullDelivered` (nothing is left in the pipeline, all of it is delivered), `PoolsOwned` (the daemon uses both pools as `TaskFifo` allows), `ShutdownEnds`. The limit of 0 makes the overload path happen, two batches and a sentinel overfill the channel |
| `PipelinePair` | a pull and a push pipeline, 1 sink each, capacity 1, drop oldest, the second may fail to start | `UsedWhileStarted`, `PoolBounded`: shared pools, a start that fails after another pipeline runs |
| `Storage` | 2 sinks on one file, 2 workers, 2 batches of up to two parts of 2 rows, 1 failing call, 1 crash; the backend is set before `StartAll` looks for it (`EarlyBackend`), so that `Prune` runs | `RowsSound` (whole parts or nothing), `OkIsStored`, `RowsStay` (no row leaves before its retention, none that a query could show goes silently), `CallsEnd`. Two rows let a crash, a failure or a `Close` come between two INSERTs; two connections contend for the file; two batches let the second join a transaction the first left open |
| `StoragePrune` | the order of `RunDaemon`, no faults | violated: `OldRowsPruned` |
| `WebSocket` | 2 peers, 2 descriptors, 1 key, 2 batches of which the sink keeps 1, one peer that talks, with up to 2 frames under way, reads may end after three bytes, any peer may stop reading | `TablesSound` (the two maps agree, their descriptors and all that is about to be closed are one's own, nothing leaks), `FramesInStep`, `DeliversLatest`, `StopReturns`. The second peer gets the first one's number when that has left; two frames are two Close frames in one read, a Close and a Ping, or a frame that follows a Close |
| `Tracers` | 5 kinds of sources, 2 tasks or 2 requests on one sector, 2 elements of `sched_agg`, room for 1 event (block I/O: 2), 3 (counts), 4 (scheduler) or 6 (off-CPU, block I/O) kernel events and any number of others after them, 2 `Collect`s by 2 callers, 1 failing step of `Start` (none for the sources of `sched_analyzer`, which start as the others do) | `MapsSound` (stored times belong to waits under way, no freed ring buffer is polled), `LatencyTrue`, `ReportedOnce` (each event once, counts never inflated, queries answer the newest), `PollerProgress` (every event is handed over, and `Stop` returns if `ring_buffer__poll` does). One event of room makes drops common; the bound of each kind suffices for a wait, a dropped end and a second wait of the same key, or for two overlapping requests; two elements and three switches let a probe store into the element of another task |
| `Profiling` | 2 processes of one name, 2 CPUs, 3 samples, 2 counts under way, life time 1 s of 2 ticks, both modes, with and without a whitelist; CPUs symmetric | `CountsSound` (lost only in the race for a first entry, conserved from there, filters hold), `NamesFresh`. Three samples on two CPUs reach the race and a hit after it |
| `ProfilingRecount` | the same | violated: `CountsOnce` |

Several properties are conjunctions of named parts: a type invariant and the
invariants that describe one structure (`RowsSound == TypeOK /\ AllOrNothing`), or
two halves of one promise (`RowsStay`, `OnSchedule`, `PollerProgress`). Each part
has its own comment in the module.

Deadlock is checked where a behaviour has no natural end. It is not in
`ThreadPool`, `TimerWheel`, `Storage`, `WebSocket` and `Tracers`, whose component
does nothing more once it is stopped, and in `Profiling`, where the bound on
counts under way stops the threads. The end of the daemon in `Pipeline` is an
explicit stuttering step, so any other stop would be reported.

### Where code and comments disagree

* **Old rows are never deleted** (`StoragePrune`). `StartAll` registers the prune
  timer only if `storage_backend_` is set, and `RunDaemon` sets it after
  `StartAll` (`cli/main.cc:203`, `:214`); the comment at
  `core/engine/pipeline_controller.cc:166` promises "every 60s, keep last 30
  minutes".
* **Aggregated counts are never cleared** (`ProfilingRecount`). The comments of
  `cpu_profiler.h` (lines 35 and 509) say that the map is emptied after every
  snapshot "so that nothing is reported twice"; the function that does it returns at once,
  because nobody sets the callback in this mode. Every `Collect` reports the
  cumulative counts again, and once `stack_counts` has its 65536 entries new
  stacks are no longer counted.

### Properties the code does not have

TLC refutes these. The ones with a name are definitions of the modules, the others
are what a property says without one of its exceptions or premises. They are kept as
statements of what a change to the code should achieve, and are not runs.

* `AsyncChannel!SourceToldLast`: **backpressure callbacks out of order.**
  `Pipeline::Enqueue` compares, stores and reports the last state in separate
  steps, from several collect workers. The later edge can be recorded first and
  the earlier one reported last: the source keeps the wrong rate
  (`pipeline_controller.h:173`; `plugin/api/source_plugin.h:53` says the source
  may return to its rate when the pressure is over).
* `Pipeline!AllDrained`: **a batch behind the drain.** `Pipeline::Stop` clears
  `running_` before `source_->Stop()` (`pipeline_controller.h:138`). The process
  thread may drain and exit while a push source still delivers, although
  `pipeline_controller.cc:195` says "ProcessThread drains channel".
* `Pipeline!NoWriteAfterStop`: **writes to stopped sinks.** The sinks are stopped
  right after the process thread has been joined; the tasks it queued during the
  drain are still in the SinkPool, which is drained when the controller is
  destroyed. For the storage sink this means an Ok for rows that are not stored
  (`"skipped"` in `Storage`).
* `Pipeline!StartedIsStopped`: **started and never stopped.** When a plugin fails
  to start, `Start` returns with `running_` false, and `Stop` does nothing for a
  pipeline that is not running: its earlier plugins are destroyed unstopped.
* `WebSocket!StopAlwaysReturns`: **a mutex locked twice.** A text frame
  "subscribe:…" makes `HandleTextMessage` (`websocket_manager.h:195`) lock `mu_`,
  which `ProcessIncoming` (`:156`) holds: the broadcast thread stops for good,
  then the accept thread at its next connection, then `Stop`. `StopReturns` states
  what is left.
* `WebSocket`, **a descriptor closed twice.** Two Close frames of a peer in one
  `read` put its descriptor into `to_remove` twice (`websocket_manager.h:176`,
  `:188`), and `RemoveConnectionLocked` (`:253`) writes a Close frame to the number
  and closes it, in the maps or not. Between the two removals the accept
  thread may have been given the same number for a new peer, or another thread of
  the daemon for a file. `OwnDescriptors` without its exception `twice` is refuted.
* `WebSocket`, **one peer that does not read stops all.** The accepted sockets are
  blocking ones and no write has a timeout. A subscriber that reads nothing fills its
  buffer, and the broadcast thread waits in `write` (`:235`, or with `mu_` held at
  `:173` and `:261`): nobody is sent anything any more, and `Stop` waits for that
  thread (`:93`), or in its own write (`:97`). Without the premise `Reads` TLC refutes
  `StopReturns` and `DeliversLatest`.
* `Tracers!LatencySinceWakeup`: **a latency charged to the wrong switch.**
  `sched_tracer.bpf.c:88` reserves room for the event first, and returns without
  deleting the wake-up time when there is none; the next switch of that task
  reports it, though no wake-up preceded. `LatencyTrue` holds for the other
  probes, which take the time out first.
* `Tracers`, **two requests on one sector number.** `req_starts` is keyed by the
  sector alone, without the device, and an update overwrites
  (`bio_latency.bpf.c:87`, `:98`; the comment at `:82` says that in theory there are
  no two such requests). With two disks the request that completes first reports the
  time since the other one was issued, and the other reports nothing. `LatencyTrue`
  excepts that (`Replaced`) and says that the time is never longer than the
  request's own.
* `Tracers`, **a count stored into another task's element.** `st->switch_count += 1`
  (`sched_analyzer.bpf.c:86`) is a load and a store through the pointer of the
  look-up. If `Collect` reads and deletes the entry between them and the element is
  given to another task, that one gets the old count and one more: the same switches
  are reported twice. `NeverInflated` without `carried` is refuted.
* `Tracers`, **a poll thread that is outrun.** `Stop` joins the poll thread
  (`ebpf_ring_buffer_source.h:91`) before the probes are detached, and
  `ring_buffer__poll` goes on as long as it finds new events. If the probes are
  faster than the thread, `Stop` does not return: without its premise TLC refutes
  `StopReturns`.

More that follows from the models or was met while reading:

* A ring of one cell (a requested capacity of 0 or 1) overwrites its element,
  because a full and a free cell have the same sequence; this is why the theorems
  assume two cells.
* Under `kDropOldest` a producer may evict a sentinel. A producer that read a
  high fill level may raise the flag after the consumer emptied the queue; it
  stays raised until the next item.
* After a failed `COMMIT` the transaction stays open with its lock
  (`sqlite_backend.h:122` has no `ROLLBACK`): other sinks get errors until the
  next write on that connection commits, which takes the failed rows along, or
  fails and rolls both back.
* The accept thread reads a request without a timeout (`websocket_manager.h:281`).
  `kWebSocketGUID` (`websocket_server.h:16`) is not the one of RFC 6455. A comment
  in `websocket_sink.h:96` gives another default than line 109.
* While the programs of an object are attached one after the other, a start time
  may be stored whose end nobody sees; the next end of that key reports it once
  (`Leftover`).
* The symbolizer's ELF cache has no life time (`stack_symbolizer.h:438`), though
  the header speaks of one for both caches. Merged off-CPU samples keep the
  duration of the first (`stack_merger.h:103`). In a window, samples at the same
  addresses that were named differently are merged under the first name
  (`cpu_stats_aggregator.h:254`).
* `process_cpu`'s and `cpu_utilization`'s `Collect` update the previous reading
  without a lock and are called by a pool worker and by the API.

### Fairness

* `LoneFairness(t)`: thread t keeps being scheduled, and a weak compare-exchange
  does not fail spuriously for ever (strong fairness of its success). Nothing is
  assumed of the other threads.
* `ThreadPool`: workers, the notification of a submitter and the destructor are
  scheduled. No wake-up without a notification is assumed.
* `TimerWheel`: the wheel thread and the caller of `Stop` are scheduled. The
  one-second timeout of `epoll_wait` gets no fairness: it hides a missing
  wake-up instead of preventing it.
* `Pipeline`: the controller and every thread are scheduled. The environment
  owes nothing: no event, no tick and no signal need ever come. The 100 ms
  deadline of `Dequeue` is an action of the process thread, since the code does
  rely on it to notice `running_`.
* `Storage`: SinkPool workers inside a call are scheduled; one that waits for a
  mutex or a free file that becomes available again and again gets it (strong
  fairness of `LockStep` and `Prune`); time passes. Nobody needs to stop or to
  write.
* `WebSocket`: the accept and the broadcast thread and the joins of `Stop` are
  scheduled, and a peer that connected asks or leaves; `accept` itself owes no
  new connection. That peers read is no fairness of `FairSpec`, because nothing in
  the manager brings it about: it is the premise `Reads` of `StopReturns` and
  `DeliversLatest`, where a reader sees it.
* `Tracers`: the poll thread and the rest of a `Stop` that has begun are
  scheduled. The traced kernel owes no event, and nobody has to stop. `StopReturns`
  has the premise that `ring_buffer__poll` returns again and again; for
  `EventsHandedOver`, that each event is handed over while others keep coming, the
  fairness of the poll thread suffices.
* `Profiling` states no liveness.

## 4. Proofs

TLC checks small instances; what follows holds for every value of the constants.
For each component `X_proofs` has one inductive invariant (two where a second layer
rests on the first), a lemma per action that the action keeps it, and the theorems
that it gives. Assumptions on constants are in the modules that declare them
(`CapacityAssumption`, `PoolAssumption`, …): sets of threads, ids and workers that
are counted are finite, bounds are natural numbers, and the value `None` is not
one of the values it stands beside. Two results assume
more: the theorems about the ring two cells, `NamesStayFresh` that the cache has a
life time.

| Module | For every | Theorems |
|---|---|---|
| `LockFreeQueue_proofs` | set of threads and values, capacity of at least 2 (`TypeCorrect`: any) | `TypeCorrect`, `RingInvariant`, `CellsAreExclusive`, `OccupancyIsBounded`, `RingImplementsFifo` (the refinement `ImplementsFifo`) |
| `AsyncChannel_proofs` | finite set of threads, capacity, marks, policy | `BooksBalance`, `RaisedForAReason`, `NewestDropsOnlyForFlush`, `ChannelDrivesQueue` (the channel uses its queue as `BoundedFifo` allows) |
| `Engine_proofs`, pool | finite non-empty set of workers, set of submitters | `WakeupsAreNotLost`, `DestructorDrains`, `FirstInFirstOut`, `EveryTaskOnce`, `TasksOnceInOrder`, `PoolImplementsTaskFifo` (the refinement `ImplementsTaskFifo`) |
| `Engine_proofs`, wheel | number of timers, positive intervals, end of time | `NeverAsleepUnarmed`, `CancelIsPrompt`, `TimersKeepSchedule`, `StopIsFinal` (an action property) |
| `Pipeline_proofs` | number of pipelines, sinks, collectors, writers and batches, kind of source, aggregator or none, plugins that may fail, capacity, limit | `PluginsUsedWhileStarted`, `PoolIsBounded`, `PullPipelinesDrain`, `EveryBatchOnce`, `ExitDelivers`, `PullIsDelivered`, `PoolsAreOwned` (both pools are used as `TaskFifo` allows) |
| `Storage_proofs` | number of sinks, workers, batches, rows, failing calls and crashes | `PartsAreWhole`, `OkIsDurable`, `RowsDoNotVanish` (an action property) |
| `WebSocket_proofs` | number of peers, descriptors, keys, batches and frames, which peers talk, places where reads end | `TablesAgree`, `DecoderKeepsStep` |
| `Tracers_proofs` | set of sources, number of tasks or requests and sharing of sectors, number of elements of `sched_agg`, callers of `Collect`, failing steps of `Start`, sizes of ring buffer and histories, threshold, filter | `MapsAreSound`, `LatenciesAreTrue`, `OffcpuEventsOnce`, `CountsNeverInflated`, `QueriesAnswerNewest`, `EachReportedOnce` |
| `Profiling_proofs` | finite sets of processes and CPUs, comms, way of grouping, whitelists, sizes of map, ring buffer and queue, resolution of the clock, life time of the cache (`NamesStayFresh`: any but 0, which turns expiry off) | `ProfileInvariant`, `CountsAreSound`, `NamesStayFresh` (an action property) |

The refinements compose, once for the queues and once for the pools.
`ChannelDrivesQueue` says that the channel relies on `BoundedFifo` alone,
`RingImplementsFifo` that the ring keeps what `BoundedFifo` promises. In the same
way `PoolsAreOwned` says that the daemon uses CollectPool and SinkPool as `TaskFifo`
allows, and `PoolImplementsTaskFifo` that a ThreadPool keeps what `TaskFifo`
promises: that no wake-up is lost, that a worker leaves only an empty queue and that
`collect_pool_.reset()` waits are facts about `ThreadPool`, and `Pipeline` does
not have to look at a condition variable. What `TaskFifo` asks in return is the
order of `StopAll` (`pipeline_controller.cc:188`): the timers, which submit to the
CollectPool, are joined before it is destroyed, and the process threads, which
submit to the SinkPool, before that one is.

### The invariants and why they are needed

*The ring.* `NoDataRace` is not inductive: that a claim hits a free cell depends
on what the sequence numbers say about every position. `RingInv` says it. The
positions `tail .. tail+Capacity-1` name every cell once; below `head` a cell is
full (sequence p+1) or its pusher is at work (p), from `head` on it is free (p) or
its popper of the previous lap is at work (p+1-Capacity). `Holders` ties each
thread inside a cell to that description, `UniqueHolder` keeps them apart, and
`Retriers` carries what a thread learned before its compare-exchange: its
position is old at worst and the sequence it saw has not moved back since, so a
successful compare-exchange claims a cell in the state the thread saw. The
lemmas about `Slot` (`%`) say when two positions share a cell. `Capacity >= 2`
is needed where p+1 must differ from p+Capacity. For the refinement `DataInv`
adds what is in the cells: a published cell has the element of its position, and
a popper that has read carries the element that was taken.

*The channel.* A count of threads by label (`Accounted`) changes with every
step, so the lemmas about `Num` say how. `LossOnlyToFlush` is not inductive:
whether a batch will be dropped is open while its call runs. `Paid` pays for each call
when it begins, `NewestKeepsRoom` says that under `kDropNewest` no producer
evicts. `HeadSeen` is why a raise is justified: the `head_` a thread loaded is no
further ahead of `tail_`, which only grows, than the queue was filled then.

*The pool.* `PoolInv` adds to the types that every submitted task is queued,
running or done, that a worker has a task exactly while it runs, that `stop_` goes
with the destructor's progress, and that a worker only leaves with `stop_` set and
the queue empty. If tasks are queued and no worker is awake, somebody is between
the critical section and the notification. `OrderInv` describes the queue as a
window of consecutive numbers that ends at the last task submitted. The refinement
needs both: that a worker which takes a task had none (`HandsEmpty`), and that a
destructor whose workers are gone has an empty queue.

*The wheel.* `AlarmSet` extends "armed whenever asleep" to the steps before the
sleep: whenever the thread may go to sleep with timers in the heap, a wake-up is
pending, the alarm is due, or it is set for the earliest deadline or before. `Schedule` counts the deadline of an
entry in callbacks run; the entry whose callback has just run is one ahead.
`OneEntry` says that an id is in the heap or in the thread's hands, once.

*The pipelines.* `PipeInv` ties the controller's place in `StartAll` and `StopAll`
to what each thread may still be doing: the order timers, CollectPool, source,
process thread, plugins, pools is what every conjunct rests on. A pull pipeline
is drained because no collector is left when its process thread starts its last
round. The pool's bound counts the tasks that pipelines past the test of
`SubmitToSinks` still owe (`Owed`). `EveryBatchOnce` needs counting: `Counted` and `CopiesSplit` split the
copies of a batch into those upstream of `SubmitToSinks`, downstream of it and
given to the sink, and each step moves one.

*The storage.* `StorageInv` says what an open transaction may hold: whole parts,
the parts of writes that were answered with an error (a `COMMIT` that failed
without a `ROLLBACK`), and the rows so far of the one write that has the mutex. It
must survive a `Close` under a running write and a later write that joins the
transaction left behind, so it speaks of leaked connections too.

*The WebSocket server.* The codec comes first: `Decodes` says that `DecodeFrame`
inverts the peers' encoding for the three widths of the length, and `Streams` that
the bytes of `recv_buf` are a part of what the peer has sent and the thread has not
handled, whatever follows a Close frame. `Owned` says that a number in
`connections_` denotes the peer it was registered with and no other does, although
the kernel gives numbers out again. This part does not depend on `to_remove`: a
second removal of the same number takes the entry of whoever has it by then out of
both maps before it closes it. What is
in `to_remove`, or with the accept thread, is one's own as long as nothing is listed
twice (`Distinct`, `Incoming`, `Accepting`); the variable `twice` is set by the step
that lists a descriptor again and stays set until the turn is over and nobody holds a
number that was closed. `Serving` says that the snapshot of the subscriptions is
stale only in the direction that does no harm: while batches are written, only the
broadcast thread could remove one of its descriptors.

*The tracers.* `LatencyTrue` speaks of events, and those take their latency from
the map of start times, so `Paired` describes the map: once all programs are
attached, a stored time is the begin of the wait under way, or older than the
attachment (`since`), or, for `sched_tracer` alone, left there by a switch that
was dropped. Of a sector it is the time of the latest request under way
(`PairedSector`), so that another request which completes first is charged with less
than its own. With the last program attached, everything stored or reported before
becomes such a leftover, which is why times and events are kept strictly in the
past. `Loading` says when all programs are attached: exactly from `since` until
the first link goes. For `NeverInflated`, `Counted` adds the switches that probes have
seen and not yet stored (`Flying`), one for each pointer they hold: a store raises
the count of the element by that one and by no more than it carries over, even if
another task has the element. That no two tasks have one element (`AggTypes`) is
what makes a store count once. A sum over tasks is the cardinality of a set with one
element for each switch (`Units`), so that the theorems about finite sets apply.

`AnswersNewest` says of an answer, without any loop, which events it must have:
as many of the matching ones as there are and fit, newest first chosen, in the
order of the ring. `GetRecentEvents` is a recursive scan from the newest event
back, and no induction principle can be cited for it; `Scan` is proved by the
least number at which it could fail (`LeastNumber`), with `ScanStep` as the one
step of the loop. `RecentIsNewest` adds that `recent_events_` is the end of what
the callback was handed, whatever was trimmed.

*The CPU profile.* Every sum is the number of its units, and two sums are equal
because of a bijection between units. `SumPartition`, that a sum may be taken
group by group, carries the rest: `MergeSum` uses it for the groups of
`StackKey`, `AddStackSum` for those of a process, so that merging and adding to
the window keep the counts whatever the batch and the grouping. `Conserved` then
needs only that the process thread has nothing in its hands when it takes a batch
(`EmptyHands`). What the map of `on_cpu_sample` may lose is not inductive as
`LostAtMost` says it: `SampleLost` adds that a stack without an entry has all its
samples between a look-up and an insert, or the map is full. Hence the first
insert leaves behind only the other CPUs that were waiting, and afterwards every
sample is counted; a stack that met a full map never gets an entry, because
nothing leaves the map. `FiltersSet` and `OnlyOurs` follow the whitelist from the
map in the kernel through ring, keys, batches, queue and window. For `NamesFresh`
it is enough that an entry is no staler than it is old (`StaleSince`) and that
`ResolveUser` reads none that has expired; `WholeUnits` is the second that the
comparison of whole seconds adds.

### What is only model-checked

* Liveness (`EveryTaskRuns`, `DestructorReturns`, `LoneOperationEnds`,
  `DueTimersFire`, `StopReturns`, `ShutdownEnds`, `CallsEnd`, `DeliversLatest`,
  `PollerProgress`): the prover has no rules for fairness and `ENABLED`.
* The two properties that the code violates, `OldRowsPruned` and `CountsOnce`: TLC
  finds the behaviour.

Every safety property of the passing runs, invariant or action property, is
stated by a theorem. The theorems hold for every value of the bounds too
(`MaxSamples`, `MaxOwed`, `MaxTime`, …), so that none of these properties holds
because a bound cuts a behaviour short.

## 5. Abstractions and what is left out

* Batches are model values or numbers; their contents, the plugins' own work,
  logging and formatting are not modelled.
* A push source in `Pipeline` is a thread that lives from `Start` to `Stop`. An
  event before `SetCallback` is thrown away. That `callback_` is assigned while
  the thread reads it is a data race of the code that the model does not
  unfold.
* Intervals of timers are positive. An interval of 0 would make a timer due
  again at once.
* The metrics timer, `GetPipeline` and `RunProcessors`' internals are not
  modelled.
* `Storage`: the text of queries, `Compact` and `Flush` (VACUUM and a checkpoint)
  change no row. A failed `Init` is a failed start of the sink, see `Pipeline`.
* `WebSocket`: `write` sends all, fails or waits; part of a frame is never sent. The
  first answer on an accepted socket does not wait, as its buffer is empty.
  cpp-httplib's server ignores SIGPIPE for the whole process, so a write to a peer
  that left is an error and not a signal. A pong is a write whose contents do not
  matter. What the accept thread does with a number that was closed under it before
  it registers it (`Lost`) is not followed. Numbers are given out to peers only; in
  the daemon a number that is closed twice may be any file's.
* `Tracers`: one CPU, and any number of them where counts are followed; fields other
  than key, time and latency are left out, the migration count and the sums of
  latencies of `sched_agg` among them. `ebpf_net_tracer` has the same user side and a
  probe without state.
* `Profiling`: one thread and one stack per process; kernel stacks, ELF symbols
  and the filter by name are left out. `OnBackpressure` only changes the
  kernel's sampling rate.

Not modelled, and not planned: the `/proc` sources and the aggregator's statistics
(floating-point arithmetic on the difference of two readings); HTTP routing (no
state of its own); the configuration and plugin loaders (run once, before any
thread); Arena and DataBatch (sequential, about addresses); JSON and the other
export formats; the Web front end. `ebpf/include/vmlinux.h`, nine tenths of the
lines of the repository, is generated from the kernel's type information and
declares types only: there is nothing in it to model.

## 6. What is left

All safety properties are proved and the liveness properties are checked. What
would come next, in this order:

* models of what section 5 leaves out where it has state that threads share: the
  previous readings of the `/proc` sources (without a lock, called by a pool
  worker and the API), and the metrics timer against `StopAll`;
* the composition of `Pipeline` with `AsyncChannel` as a refinement, as there is one
  with `ThreadPool` (`TaskFifo`): `Pipeline` takes a channel to be a lossy FIFO,
  which `ChannelDrivesQueue`, `RingImplementsFifo` and `BooksBalance` justify one by
  one and not in one theorem;
* liveness proofs, when the prover has rules for fairness.
