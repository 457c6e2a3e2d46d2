----------------------------- MODULE Profiling -----------------------------
(***************************************************************************)
(* The CPU profile pipeline from end to end: the BPF program on_cpu_sample *)
(* on every CPU, the source CpuProfilerSource that reads its maps, the     *)
(* processors stack_symbolizer and stack_merger, and the stack window of   *)
(* CpuStatsAggregator.                                                     *)
(*                                                                         *)
(* A sampled stack is represented by the process it was taken in: every    *)
(* process has one thread and one stack, whose addresses mean one function *)
(* in each address space the process has had (layout 1, then layout 2      *)
(* after an exec or after the pid was given to another process; 0 while    *)
(* the pid is free).  The name of a frame is the layout it was resolved    *)
(* in, 0 for a frame that stays an address.  Time is counted in ticks, of  *)
(* which TicksPerSec make a second.                                        *)
(*                                                                         *)
(* AggregatedPullLoop has no action: FlushAggregatedCounts returns at its  *)
(* first line while callback_ is not set, and Pipeline::Start sets it for  *)
(* a push source only, which in this class is the stream mode, where the   *)
(* loop does not run.  The channel between source and process thread is    *)
(* the module AsyncChannel; here it is a short queue that loses nothing.   *)
(***************************************************************************)
EXTENDS Naturals, Sequences, FiniteSets

CONSTANTS
    Pids,            \* processes that may be sampled
    Movers,          \* those whose address space changes during the run
    Comm,            \* [Pids -> names]: the comm of each process
    Cpus,            \* CPUs that perf events are opened on
    GroupBy,         \* "comm", "pid" or "global": group_by_ of the merger
    TargetChoices,   \* whitelists of pids tried; the empty one filters nothing
    TicksPerSec,     \* resolution of time
    TtlSec,          \* cache_ttl_sec_
    MaxEntries,      \* max_entries of stack_counts
    RingSize,        \* events cpu_events has room for
    QueueSize,       \* bound: batches waiting for the process thread
    MaxSamples,      \* bound: samples taken in a behaviour
    MaxOwed,         \* bound: counts on their way or in the window
    None             \* no pid

ASSUME ProfilingAssumption ==
    /\ IsFiniteSet(Pids) /\ IsFiniteSet(Cpus)
    /\ Movers \subseteq Pids
    /\ DOMAIN Comm = Pids
    /\ GroupBy \in {"comm", "pid", "global"}
    /\ \A ts \in TargetChoices : ts \subseteq Pids
    /\ TicksPerSec \in Nat \ {0}
    /\ {TtlSec, MaxEntries, RingSize, QueueSize, MaxSamples, MaxOwed} \subseteq Nat
    /\ None \notin Pids

VARIABLES
    mode,      \* stream_mode_: "stream" or "aggregated"
    targets,   \* target_pids_; target_comms_ works alike and is left out
    flags,     \* maps cpu_profiler_cfg and target_pids: [stream, filter, pids]
    src,       \* how far Start or Stop of the source has come
    untried,   \* CPUs whose perf event Start has still to open
    on,        \* CPUs with an enabled perf event (perf_fds_)
    callback,  \* callback_ is set
    poll,      \* the stream thread: "none", "run" or "exit"
    cpu,       \* [Cpus -> pid]: a probe between a failed lookup and its insert
    taken,     \* [Pids -> samples that passed the filters]  (history)
    counts,    \* map stack_counts; 0 is no entry
    ring,      \* map cpu_events
    layout,    \* [Pids -> address space of the process]
    cache,     \* maps_cache_: [Pids -> [layout, age in ticks]]; layout 0 is no
               \* entry; stale counts the ticks since the process left that
               \* layout  (history)
    keys,      \* keys Collect has listed and not yet looked up
    pc,        \* what each thread does
    batch,     \* [Workers -> samples the thread holds]
    queue,     \* batches waiting for the process thread
    window,    \* stack_buffer_: [Pids -> [count, name]]; count 0 is no entry
    owed       \* counts handed to the pipeline and not yet flushed  (history)

kernel == <<flags, on, cpu, taken, counts, ring>>
source == <<mode, targets, src, untried, callback, poll>>
work   == <<keys, pc, batch, queue, window, owed>>
vars   == <<kernel, source, layout, cache, work>>

Workers == {"pool", "loop"}   \* the collecting pool worker; the process thread

(* Sum of the natural numbers f[x] over the finite set S: one unit for each *)
(* number up to f[x].                                                       *)
Units(f, S) == UNION {{x} \X (1 .. f[x]) : x \in S}
SumOver(f, S) == Cardinality(Units(f, S))

CountsOf(b) == [i \in DOMAIN b |-> b[i].count]
Total(b) == SumOver(CountsOf(b), DOMAIN b)

Sample(p, n) == [pid |-> p, count |-> n, name |-> 0]

---------------------------------------------------------------------------
(* Start and Stop of the source *)

(* LoadObject and the look-up of the two maps may fail; then Start returns.  *)
(* (Without a configured path the source does nothing, as in "off".)          *)
StartLoad ==
    /\ src = "off"
    /\ src' \in {"loaded", "failed"}
    /\ UNCHANGED <<kernel, mode, targets, untried, callback, poll, layout, cache, work>>

(* The flags and the whitelist reach the kernel before any event is enabled. *)
ApplyFilterMaps ==
    /\ src = "loaded"
    /\ src' = "opening"
    /\ flags' = [stream |-> mode = "stream", filter |-> targets # {}, pids |-> targets]
    /\ UNCHANGED <<on, cpu, taken, counts, ring, mode, targets, untried, callback, poll,
                   layout, cache, work>>

(* perf_event_open, SET_BPF and ENABLE for one CPU; a CPU that fails is skipped. *)
OpenPerfEvent(c) ==
    /\ src = "opening"
    /\ c \in untried
    /\ untried' = untried \ {c}
    /\ on' \in {on, on \cup {c}}
    /\ UNCHANGED <<flags, cpu, taken, counts, ring, mode, targets, src, callback, poll,
                   layout, cache, work>>

(* With no event at all, or no ring buffer in stream mode, Start fails; the  *)
(* events it enabled stay enabled.  Otherwise the thread of the mode starts. *)
StartThread ==
    /\ src = "opening" /\ untried = {}
    /\ \/ src' = "failed" /\ (on = {} \/ mode = "stream") /\ poll' = poll
       \/ src' = "started" /\ on # {} /\ poll' = IF mode = "stream" THEN "run" ELSE poll
    /\ UNCHANGED <<kernel, mode, targets, untried, callback, layout, cache, work>>

(* Pipeline::Start sets the callback of a push source after its Start. *)
SetCallback ==
    /\ src = "started" /\ mode = "stream" /\ ~callback
    /\ callback' = TRUE
    /\ UNCHANGED <<kernel, mode, targets, src, untried, poll, layout, cache, work>>

(* running_ is cleared once pool and API server are gone. *)
StopBegin ==
    /\ src = "started"
    /\ pc["pool"] = "idle"
    /\ src' = "stopping"
    /\ UNCHANGED <<kernel, mode, targets, untried, callback, poll, layout, cache, work>>

(* The stream thread is joined, then the events are disabled and closed. *)
StopEnd ==
    /\ src = "stopping" /\ poll # "run"
    /\ src' = "stopped"
    /\ on' = {}
    /\ UNCHANGED <<flags, cpu, taken, counts, ring, mode, targets, untried, callback, poll,
                   layout, cache, work>>

---------------------------------------------------------------------------
(* on_cpu_sample *)

Passes(p) == ~flags.filter \/ p \in flags.pids

Taken == SumOver(taken, Pids)

(* The event of a sample, dropped when the ring buffer has no room. *)
Submit(p) == ring' = IF flags.stream /\ Len(ring) < RingSize THEN Append(ring, p) ELSE ring

(* A sample whose stack has an entry: an atomic addition. *)
SampleHit(c, p) ==
    /\ counts[p] > 0
    /\ counts' = [counts EXCEPT ![p] = @ + 1]
    /\ Submit(p)
    /\ cpu' = cpu

(* A sample whose stack has none yet: the insert is a later step. *)
SampleMiss(c, p) ==
    /\ counts[p] = 0
    /\ cpu' = [cpu EXCEPT ![c] = p]
    /\ UNCHANGED <<counts, ring>>

TakeSample(c, p) ==
    /\ c \in on /\ cpu[c] = None
    /\ layout[p] # 0
    /\ Passes(p)
    /\ Taken < MaxSamples
    /\ taken' = [taken EXCEPT ![p] = @ + 1]
    /\ SampleHit(c, p) \/ SampleMiss(c, p)
    /\ UNCHANGED <<flags, on, source, layout, cache, work>>

(* Mutant: BPF_ANY. *)
InsertedAny(p) == 1

(* BPF_NOEXIST: the insert fails when another CPU was first or the map is full. *)
Inserted(p) ==
    IF counts[p] = 0 /\ Cardinality({q \in Pids : counts[q] > 0}) < MaxEntries
      THEN 1 ELSE counts[p]

Insert(c) ==
    LET p == cpu[c] IN
    /\ p # None
    /\ counts' = [counts EXCEPT ![p] = Inserted(p)]
    /\ Submit(p)
    /\ cpu' = [cpu EXCEPT ![c] = None]
    /\ UNCHANGED <<flags, on, taken, source, layout, cache, work>>

---------------------------------------------------------------------------
(* What the source hands to the pipeline *)

Enqueue(b) ==
    /\ Len(queue) < QueueSize
    /\ owed + Total(b) <= MaxOwed
    /\ queue' = Append(queue, b)
    /\ owed' = owed + Total(b)

(* An event read before the callback is set is thrown away. *)
HandleStreamEvent ==
    /\ poll = "run" /\ ring # <<>>
    /\ ring' = Tail(ring)
    /\ IF callback THEN Enqueue(<<Sample(Head(ring), 1)>>) ELSE UNCHANGED <<queue, owed>>
    /\ UNCHANGED <<flags, on, cpu, taken, counts, source, layout, cache,
                   keys, pc, batch, window>>

(* The loop sees running_ cleared when its poll has returned. *)
StreamPollExit ==
    /\ poll = "run" /\ src = "stopping"
    /\ poll' = "exit"
    /\ UNCHANGED <<kernel, mode, targets, src, untried, callback, layout, cache, work>>

(* Collect lists the keys under last_batch_mu_; last_batch_ is never set. *)
CollectBegin ==
    /\ src = "started" /\ mode = "aggregated"
    /\ pc["pool"] = "idle"
    /\ pc' = [pc EXCEPT !["pool"] = "collect"]
    /\ keys' = {p \in Pids : counts[p] > 0}
    /\ UNCHANGED <<kernel, source, layout, cache, batch, queue, window, owed>>

(* ... looks the keys up one by one ... *)
CollectLookup(p) ==
    /\ pc["pool"] = "collect"
    /\ p \in keys
    /\ keys' = keys \ {p}
    /\ batch' = [batch EXCEPT !["pool"] = Append(@, Sample(p, counts[p]))]
    /\ UNCHANGED <<kernel, source, layout, cache, pc, queue, window, owed>>

(* ... and the pool worker enqueues the batch, unless it is empty. *)
CollectEnqueue ==
    /\ pc["pool"] = "collect" /\ keys = {}
    /\ pc' = [pc EXCEPT !["pool"] = "idle"]
    /\ batch' = [batch EXCEPT !["pool"] = <<>>]
    /\ IF batch["pool"] = <<>> THEN UNCHANGED <<queue, owed>> ELSE Enqueue(batch["pool"])
    /\ UNCHANGED <<kernel, source, layout, cache, keys, window>>

---------------------------------------------------------------------------
(* stack_symbolizer *)

NoEntry == [layout |-> 0, age |-> 0, stale |-> 0]

(* Whole seconds since the entry was loaded. *)
Age(e) == e.age \div TicksPerSec

Expired(e) == TtlSec # 0 /\ Age(e) > TtlSec

(* A failed LoadMaps caches nothing. *)
LoadMaps(p) == [layout |-> layout[p], age |-> 0, stale |-> 0]

PurgeExpiredMapsCaches(m) == [p \in Pids |-> IF Expired(m[p]) THEN NoEntry ELSE m[p]]

(* Mutant: using an entry makes it new. *)
ResolveUserTouches(m, p) ==
    IF m[p].layout = 0 THEN LoadMaps(p) ELSE [m[p] EXCEPT !.age = 0]

(* The entry ResolveUser reads: the cached one, or one loaded now. *)
ResolveUser(m, p) == IF m[p].layout = 0 \/ Expired(m[p]) THEN LoadMaps(p) ELSE m[p]

(* The cache after Process of samples of the processes P, all under mu_ and *)
(* with one reading of the clock.                                          *)
CacheAfter(P) ==
    LET kept == PurgeExpiredMapsCaches(cache) IN
    [p \in Pids |-> IF p \in P THEN ResolveUser(kept, p) ELSE kept[p]]

Symbolize ==
    LET b == batch["loop"] IN
    /\ pc["loop"] = "process"
    /\ cache' = CacheAfter({b[i].pid : i \in DOMAIN b})
    /\ batch' = [batch EXCEPT
                    !["loop"] = [i \in DOMAIN b |-> [b[i] EXCEPT !.name = cache'[b[i].pid].layout]]]
    /\ pc' = [pc EXCEPT !["loop"] = "named"]
    /\ UNCHANGED <<kernel, source, layout, keys, queue, window, owed>>

(* GET .../flamegraph: Collect and the processors on the thread of the HTTP *)
(* server.  Of its batch nothing stays but what the symbolizer cached.      *)
ApiCollect ==
    /\ src = "started" /\ pc["pool"] # "collect"
    /\ cache' = CacheAfter({p \in Pids : counts[p] > 0})
    /\ UNCHANGED <<kernel, source, layout, work>>

---------------------------------------------------------------------------
(* stack_merger and the stack window of the aggregator *)

GroupKey(p) == IF GroupBy = "comm" THEN Comm[p] ELSE IF GroupBy = "pid" THEN p ELSE None
StackKey(s) == <<GroupKey(s.pid), s.name>>

(* The samples of the batch b with the key of its i-th one. *)
Alike(b, i) == {j \in DOMAIN b : StackKey(b[j]) = StackKey(b[i])}

(* The first sample of every key, with the counts of all of them. *)
Merge(b) ==
    {[b[i] EXCEPT !.count = SumOver(CountsOf(b), Alike(b, i))] :
        i \in {j \in DOMAIN b : \A h \in 1 .. j - 1 : StackKey(b[h]) # StackKey(b[j])}}

(* Add: the frames of the first sample of a key stay, the counts add up. *)
AddStack(win, ss) ==
    [p \in Pids |->
        LET mine == {s \in ss : s.pid = p} IN
        IF mine = {} THEN win[p]
        ELSE [count |-> win[p].count + SumOver([s \in mine |-> s.count], mine),
              name  |-> IF win[p].count > 0 THEN win[p].name
                        ELSE (CHOOSE s \in mine : TRUE).name]]

Empty == [p \in Pids |-> [count |-> 0, name |-> 0]]

InWindow == SumOver([p \in Pids |-> window[p].count], Pids)

(* The process thread takes a batch ... *)
TakeBatch ==
    /\ pc["loop"] = "idle" /\ queue # <<>>
    /\ batch' = [batch EXCEPT !["loop"] = Head(queue)]
    /\ queue' = Tail(queue)
    /\ pc' = [pc EXCEPT !["loop"] = "process"]
    /\ UNCHANGED <<kernel, source, layout, cache, keys, window, owed>>

(* ... merges the named samples and adds them to the window. *)
AddToWindow ==
    /\ pc["loop"] = "named"
    /\ window' = AddStack(window, Merge(batch["loop"]))
    /\ batch' = [batch EXCEPT !["loop"] = <<>>]
    /\ pc' = [pc EXCEPT !["loop"] = "idle"]
    /\ UNCHANGED <<kernel, source, layout, cache, keys, queue, owed>>

(* A flush sentinel: the window is handed to the sinks and cleared. *)
Flush ==
    /\ pc["loop"] = "idle" /\ InWindow > 0
    /\ window' = Empty
    /\ owed' = owed - InWindow
    /\ UNCHANGED <<kernel, source, layout, cache, keys, pc, batch, queue>>

---------------------------------------------------------------------------
(* Processes and time *)

(* Ages from here on are the same to every test. *)
MaxAge == TicksPerSec * (TtlSec + 1) + 1

Older(a) == IF a < MaxAge THEN a + 1 ELSE a

(* exec, or exit, or a new process with the same pid. *)
Move(p) ==
    /\ \/ layout[p] = 1 /\ layout' \in {[layout EXCEPT ![p] = 0], [layout EXCEPT ![p] = 2]}
       \/ layout[p] = 0 /\ layout' = [layout EXCEPT ![p] = 2]
    /\ UNCHANGED <<kernel, source, cache, work>>

Aged(p) ==
    LET e == cache[p] IN
    IF e.layout = 0 THEN e
    ELSE [e EXCEPT !.age = Older(@), !.stale = IF e.layout = layout[p] THEN 0 ELSE Older(@)]

Tick ==
    /\ cache' = [p \in Pids |-> Aged(p)]
    /\ UNCHANGED <<kernel, source, layout, work>>

---------------------------------------------------------------------------
Init ==
    /\ mode \in {"stream", "aggregated"}
    /\ targets \in TargetChoices
    /\ flags = [stream |-> FALSE, filter |-> FALSE, pids |-> {}]
    /\ src = "off" /\ untried = Cpus /\ on = {}
    /\ callback = FALSE /\ poll = "none"
    /\ cpu = [c \in Cpus |-> None]
    /\ taken = [p \in Pids |-> 0] /\ counts = [p \in Pids |-> 0]
    /\ ring = <<>>
    /\ layout = [p \in Pids |-> 1]
    /\ cache = [p \in Pids |-> NoEntry]
    /\ keys = {}
    /\ pc = [w \in Workers |-> "idle"]
    /\ batch = [w \in Workers |-> <<>>]
    /\ queue = <<>> /\ window = Empty /\ owed = 0

SourceStep ==
    \/ StartLoad \/ ApplyFilterMaps \/ (\E c \in Cpus : OpenPerfEvent(c))
    \/ StartThread \/ SetCallback \/ StopBegin \/ StopEnd
    \/ HandleStreamEvent \/ StreamPollExit

ProbeStep == \E c \in Cpus : (\E p \in Pids : TakeSample(c, p)) \/ Insert(c)

PipelineStep ==
    \/ CollectBegin \/ (\E p \in Pids : CollectLookup(p)) \/ CollectEnqueue
    \/ TakeBatch \/ Symbolize \/ AddToWindow \/ Flush \/ ApiCollect

Next == SourceStep \/ ProbeStep \/ PipelineStep \/ (\E p \in Movers : Move(p)) \/ Tick

Spec == Init /\ [][Next]_vars

---------------------------------------------------------------------------
(* Properties *)

(* Type invariant. *)
TypeOK ==
    /\ mode \in {"stream", "aggregated"} /\ targets \in SUBSET Pids
    /\ flags \in [stream : BOOLEAN, filter : BOOLEAN, pids : SUBSET Pids]
    /\ src \in {"off", "loaded", "failed", "opening", "started", "stopping", "stopped"}
    /\ untried \subseteq Cpus /\ on \subseteq Cpus
    /\ callback \in BOOLEAN /\ poll \in {"none", "run", "exit"}
    /\ cpu \in [Cpus -> Pids \cup {None}]
    /\ taken \in [Pids -> Nat] /\ counts \in [Pids -> Nat]
    /\ ring \in Seq(Pids)
    /\ layout \in [Pids -> 0 .. 2]
    /\ cache \in [Pids -> [layout : 0 .. 2, age : 0 .. MaxAge, stale : 0 .. MaxAge]]
    /\ keys \subseteq Pids
    /\ pc \in [Workers -> {"idle", "collect", "process", "named"}]
    /\ batch \in [Workers -> Seq([pid : Pids, count : Nat, name : 0 .. 2])]
    /\ queue \in Seq(Seq([pid : Pids, count : Nat, name : 0 .. 2]))
    /\ window \in [Pids -> [count : Nat, name : 0 .. 2]]
    /\ owed \in Nat

(* A sample is lost only while the first entry of its stack is contested:   *)
(* at most one for every other CPU, once; and no count is above the samples *)
(* that were taken.                                                         *)
LostAtMost ==
    \A p \in Pids :
        LET pending == Cardinality({c \in Cpus : cpu[c] = p}) IN
        /\ counts[p] + pending <= taken[p]
        /\ counts[p] > 0 => taken[p] - pending - counts[p] < Cardinality(Cpus)

(* What the source handed to the pipeline is in the queue, in the hands of  *)
(* the process thread or in the window until it is flushed: merging and     *)
(* windowing lose no count and make none up.                                *)
Conserved ==
    owed = SumOver([i \in DOMAIN queue |-> Total(queue[i])], DOMAIN queue)
               + Total(batch["loop"]) + InWindow

(* With a whitelist, nothing of another process is counted or reported.     *)
OnlyTargets ==
    targets # {} => \A p \in Pids \ targets : counts[p] = 0 /\ window[p].count = 0

(* The state is well formed, the map loses and invents no samples beyond    *)
(* that race, the pipeline keeps every count, and the filters hold from the *)
(* first sample on.                                                         *)
CountsSound == TypeOK /\ LostAtMost /\ Conserved /\ OnlyTargets

(* A frame is never named after an address space the process left a cache   *)
(* life time (TtlSec whole seconds, so up to one second more) ago or more.  *)
NamesFresh ==
    [][pc["loop"] = "process" /\ pc'["loop"] = "named" =>
          \A i \in DOMAIN batch'["loop"] :
             cache'[batch'["loop"][i].pid].stale < TicksPerSec * (TtlSec + 1)]_vars

(* cpu_profiler.h:33: the map is cleared after every snapshot, so that a    *)
(* sample is reported once and a window never holds more than was taken.    *)
(* Violated in aggregated mode: nothing clears the map, and every Collect   *)
(* reports the whole count again.                                           *)
CountsOnce == InWindow <= Taken

===========================================================================
