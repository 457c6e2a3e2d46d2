------------------------------ MODULE Tracers ------------------------------
(***************************************************************************)
(* The tracing sources: an eBPF object with its probes in the kernel, and  *)
(* the C++ source that loads it and reads its ring buffer or its map.      *)
(*                                                                         *)
(*   kind         kernel side              user side                       *)
(*   "tracer"     sched_tracer.bpf.c       ebpf_sched_tracer.h             *)
(*   "detailed"   sched_analyzer.bpf.c     sched_analyzer.h, detailed_mode *)
(*   "aggregate"  sched_analyzer.bpf.c     sched_analyzer.h, pull mode     *)
(*   "offcpu"     offcpu_profiler.bpf.c    offcpu_profiler.h               *)
(*   "bio"        bio_latency.bpf.c        ebpf_io_monitor.h               *)
(*                                                                         *)
(* "tracer" and "bio" share ebpf_ring_buffer_source.h; all of them share   *)
(* ebpf/loader/bpf_program_manager.h.                                      *)
(*                                                                         *)
(* Each of them pairs two kernel events (of a task, of a request): the     *)
(* first writes a time into a hash map, the second looks it up and reports *)
(* the difference.  The traced kernel is external: one CPU that switches   *)
(* between tasks, and disks, whose requests may have the same sector       *)
(* number; each of their events takes one unit of time.  "aggregate"       *)
(* follows the counts and not the latencies: any number of CPUs switch     *)
(* to tasks, and back to their idle tasks, which leaves no trace.          *)
(* A probe is one step, except where it writes through a pointer into the  *)
(* map that Collect empties meanwhile.                                     *)
(***************************************************************************)
EXTENDS Integers, Sequences, FiniteSets, SequencesExt

CONSTANTS Kinds,       \* the sources a run looks at
          NumKeys,     \* tasks (their tid), or requests
          SectorOf,    \* the sector number of a request, on whatever disk
          NumElems,    \* elements of sched_agg for the tasks followed
          RingSize,    \* events a ring buffer holds, by kind
          MinDuration, \* min_duration_ns of the off-CPU profiler
          MaxHistory, MaxRecent,  \* kMaxHistory, kMaxEvents
          Targets,     \* target_pid_allow_, {}: every task
          NumCollectors, \* threads that may call Collect: pool workers and the API
          MaxTime,     \* bound on kernel events, by kind
          MaxCollects, \* bound on calls of Collect
          MaxFaults,   \* bound on failing steps of Start, by kind
          None

AllKinds == {"tracer", "detailed", "aggregate", "offcpu", "bio"}

ASSUME TracersAssumption ==
  /\ Kinds \subseteq AllKinds
  /\ {NumKeys, NumElems, MaxHistory, MaxRecent, NumCollectors} \subseteq Nat \ {0}
  /\ {MinDuration, MaxCollects} \subseteq Nat
  /\ RingSize \in [AllKinds -> Nat \ {0}] /\ SectorOf \in [1..NumKeys -> 1..NumKeys]
  /\ {MaxTime, MaxFaults} \subseteq [AllKinds -> Nat] /\ Targets \subseteq 1..NumKeys /\ None \notin Nat

Keys == 1..NumKeys
Elems == 1..NumElems
Collectors == 1..NumCollectors

VARIABLES kind,
          \* the traced kernel
          clock, phase, cpu,   \* time; what each key does; the task on the CPU, 0: idle
          waits,               \* when the wait that a report of the key would measure really began
          switches,            \* context switches to a task since the probes are attached
          \* the probes and their maps
          attached,            \* programs attached, in the order of links_
          since,               \* when the last program was attached
          start,               \* wakeup_ts, offcpu_start, req_starts: time by tid or sector
          ring,                \* the ring buffer
          agg, mem,            \* sched_agg: the element of a task; switch_count of each element,
                               \* in use or not (migrate_count is not followed)
          hit,                 \* probes that have a pointer to an element, by the task switched
                               \* to: the element, and what was loaded from it
          carried,             \* history: counts that stores of such probes have brought into
                               \* elements which were given to another task meanwhile
          \* the source
          life, running, poll, \* Start and Stop; running_; the poll thread
          ringBuf,             \* ring_buf_: "null", "open"
          cache, handled,      \* cached_batch_ of the off-CPU profiler; all events its callback
                               \* accepted, or the last ones that sched_analyzer's did
          taken,               \* events its Collect has returned
          recent,              \* recent_events_
          cpc, todo,           \* each Collect: control, tasks still to visit
          got, total, history, \* counts it has read in this call and in all calls; history_
          collects, faults

world == <<clock, phase, cpu, waits>>
counts == <<agg, mem, hit, carried, switches>>
probes == <<start, ring, agg, mem, hit, carried, switches>>
loader == <<attached, since, life, running, ringBuf, faults>>
events == <<poll, cache, handled, taken, recent>>
pulls == <<cpc, todo, got, total, history>>
vars == <<kind, world, probes, loader, events, pulls, collects>>

(***************************************************************************)
(* BPF maps and the ring buffer (external).  An update with a new key      *)
(* fails if the map is full, be it of keys that the model does not follow, *)
(* and no probe looks at the result: Updates is the set of outcomes.  A    *)
(* reservation in a full ring buffer fails.                                *)
(***************************************************************************)
Updates(m, k, v) ==
  {[i \in DOMAIN m \union {k} |-> IF i = k THEN v ELSE m[i]]}
    \union (IF k \in DOMAIN m THEN {} ELSE {m})
Delete(m, k) == [i \in DOMAIN m \ {k} |-> m[i]]
Room(r) == Len(r) < RingSize[kind]
Submit(r, e) == IF Room(r) THEN Append(r, e) ELSE r

\* Kernel events are followed while they are seen: without a probe they leave
\* no trace, and Init has a task or request in each state already.
Observed == attached # <<>> /\ clock < MaxTime[kind]

\* Other requests under way that have the sector number of request k.
Sharing(k) ==
  IF kind # "bio" \/ k = 0 THEN {}
  ELSE {j \in Keys \ {k} : SectorOf[j] = SectorOf[k] /\ waits[j] # None}

\* An event: what happened, to which tasks or request, when, the latency or duration
\* reported, the one that really was (0: it was not waiting, or nobody knows since
\* when), and how long the requests it shares its sector with have been waiting.
Event(type, prev, next, lat, true) ==
  [type |-> type, prev |-> prev, next |-> next, at |-> clock, lat |-> lat, true |-> true,
   others |-> {clock - waits[j] : j \in Sharing(next)}]

Programs ==
  [tracer |-> <<"wakeup", "switch">>,
   detailed |-> <<"wakeup", "switch", "migrate">>,
   aggregate |-> <<"wakeup", "switch", "migrate">>,
   offcpu |-> <<"switch">>,
   bio |-> <<"issue", "complete">>][kind]
On(p) == p \in ToSet(attached)

\* bpf_get_ktime minus the stored time, 0 when there is none.
Since(i) == IF i \in DOMAIN start THEN clock - start[i] ELSE 0
TrueWait(k) == IF k = 0 \/ waits[k] = None THEN 0 ELSE clock - waits[k]

(***************************************************************************)
(* sched_wakeup and sched_migrate_task.                                    *)
(***************************************************************************)
\* sched_analyzer_wakeup, trace_sched_wakeup: the time is stored even if
\* the event finds no room.
WakeupProbe(k) ==
  IF ~On("wakeup") THEN UNCHANGED <<start, ring>>
  ELSE /\ start' \in Updates(start, k, clock)
       /\ ring' = Submit(ring, Event("wakeup", cpu, k, 0, 0))

\* A task may be woken while it still has the CPU, on its way to sleep.
Wakeup(k) ==
  /\ kind \in {"tracer", "detailed", "offcpu"} /\ Observed
  /\ phase[k] \in {"sleep", "run"}
  /\ clock' = clock + 1
  /\ phase' = [phase EXCEPT ![k] = IF @ = "sleep" THEN "ready" ELSE @]
  /\ waits' = IF kind = "offcpu" THEN waits ELSE [waits EXCEPT ![k] = clock]
  /\ WakeupProbe(k)
  /\ UNCHANGED <<kind, cpu, counts, loader, events, pulls, collects>>

\* Free elements are alike, but for those that a probe still has a pointer to: one of
\* the others stands for all of them.
Held == {hit[k].elem : k \in DOMAIN hit}
Free == LET F == Elems \ Range(agg) IN {e \in F : e \in Held \/ \A d \in F \ Held : e <= d}

\* An update of sched_agg with a new key takes a free element, if there is one, and
\* overwrites its value.
Insert(k, n) ==
  \/ UNCHANGED <<agg, mem>>
  \/ \E e \in Free :
       /\ agg' = [i \in DOMAIN agg \union {k} |-> IF i = k THEN e ELSE agg[i]]
       /\ mem' = [mem EXCEPT ![e] = n]

\* sched_agg_add_latency up to its update or the end of its look-up: what is found
\* is a pointer, through which LoadCount and StoreCount add.  The map is filled in
\* both modes, and followed in the one that reads it.
Count(k) ==
  IF kind # "aggregate" \/ k = 0 THEN UNCHANGED <<agg, mem, hit>>
  ELSE IF k \notin DOMAIN agg THEN Insert(k, 1) /\ UNCHANGED hit
  ELSE /\ hit' = [i \in DOMAIN hit \union {k} |->
                    IF i = k THEN [elem |-> agg[k], val |-> None] ELSE hit[i]]
       /\ UNCHANGED <<agg, mem>>

\* sched_analyzer_migrate: a task that waits for a CPU gets an element if it has
\* none; then the event of the detailed mode.
Migrate(k) ==
  /\ Observed
  /\ On("migrate") /\ phase[k] = "ready" /\ k \notin DOMAIN hit
  /\ clock' = clock + 1
  /\ IF kind = "aggregate" /\ k \notin DOMAIN agg THEN Insert(k, 0) ELSE UNCHANGED <<agg, mem>>
  /\ ring' = IF kind = "aggregate" THEN ring
             ELSE Submit(ring, Event("migrate", k, k, 0, 0))
  /\ UNCHANGED <<kind, phase, cpu, waits, start, hit, carried, switches, loader, events, pulls, collects>>

(***************************************************************************)
(* sched_switch.                                                           *)
(***************************************************************************)
\* trace_sched_switch: reserves first, so that with a full ring buffer it
\* returns before it has taken the time out of the map.
TracerSwitch(prev, next) ==
  /\ IF ~Room(ring) THEN UNCHANGED <<start, ring>>
     ELSE /\ ring' = Append(ring, Event("switch", prev, next, Since(next), TrueWait(next)))
          /\ start' = Delete(start, next)
  /\ UNCHANGED counts

\* Mutant: reserves first, as sched_tracer does.
AnalyzerSwitchReservesFirst(prev, next) ==
  /\ start' = IF kind = "detailed" /\ ~Room(ring) THEN start ELSE Delete(start, next)
  /\ switches' = IF next = 0 \/ kind = "detailed" THEN switches ELSE switches + 1
  /\ Count(next) /\ UNCHANGED carried
  /\ ring' = IF kind = "aggregate" THEN ring
             ELSE Submit(ring, Event("switch", prev, next, Since(next), TrueWait(next)))

\* sched_analyzer_switch: takes the time out first, then counts, then
\* reports.
AnalyzerSwitch(prev, next) ==
  /\ start' = Delete(start, next)
  /\ switches' = IF next = 0 \/ kind = "detailed" THEN switches ELSE switches + 1
  /\ Count(next) /\ UNCHANGED carried
  /\ ring' = IF kind = "aggregate" THEN ring
             ELSE Submit(ring, Event("switch", prev, next, Since(next), TrueWait(next)))

\* `st->switch_count += 1' is a load and a store through the pointer of the look-up.
\* If Collect has deleted the entry in between, both may go to an element that is
\* free, or another task's by now.
HitRest == UNCHANGED <<kind, world, start, ring, agg, switches, loader, events, pulls, collects>>

LoadCount(k) ==
  /\ k \in DOMAIN hit /\ hit[k].val = None
  /\ hit' = [hit EXCEPT ![k].val = mem[hit[k].elem]]
  /\ UNCHANGED <<mem, carried>> /\ HitRest

StoreCount(k) ==
  /\ k \in DOMAIN hit /\ hit[k].val # None
  /\ LET e == hit[k].elem   v == hit[k].val
     IN  /\ mem' = [mem EXCEPT ![e] = v + 1]
         /\ carried' = IF e \in Range(agg) /\ v > mem[e] THEN carried + (v - mem[e]) ELSE carried
  /\ hit' = Delete(hit, k)
  /\ HitRest

\* trace_offcpu: first the task that leaves the CPU, then the one that gets
\* it, whose entry is gone afterwards whatever happens to the event.
OffcpuSwitch(prev, next) ==
  \E left \in IF prev = 0 THEN {start} ELSE Updates(start, prev, clock) :
      /\ start' = Delete(left, next)
      /\ ring' = IF next \notin DOMAIN left \/ clock - left[next] < MinDuration THEN ring
                 ELSE Submit(ring, Event("offcpu", 0, next, clock - left[next], TrueWait(next)))
      /\ UNCHANGED counts

\* The CPU goes from its task to another one or to the idle task.  The task
\* that leaves blocks, is preempted or has exited.
Switch(next, becomes) ==
  /\ kind \notin {"bio", "aggregate"} /\ Observed
  /\ next \in ({0} \union {k \in Keys : phase[k] = "ready"}) \ {cpu}
  /\ cpu = 0 => becomes = "ready"
  /\ clock' = clock + 1 /\ cpu' = next
  /\ phase' = [k \in Keys |-> IF k = next THEN "run"
                              ELSE IF k = cpu THEN becomes ELSE phase[k]]
  /\ waits' = [k \in Keys |-> IF k = next THEN None
                              ELSE IF k = cpu /\ kind = "offcpu" THEN clock ELSE waits[k]]
  /\ IF On("switch")
     THEN \/ kind = "tracer" /\ TracerSwitch(cpu, next)
          \/ kind = "detailed" /\ AnalyzerSwitch(cpu, next)
          \/ kind = "offcpu" /\ OffcpuSwitch(cpu, next)
     ELSE UNCHANGED probes
  /\ UNCHANGED <<kind, loader, events, pulls, collects>>

\* One of the CPUs, which was idle, switches to a task.  The probe ends before the task
\* runs, so that nobody else switches to it meanwhile.
SwitchTo(k) ==
  /\ kind = "aggregate" /\ Observed
  /\ k \notin DOMAIN hit
  /\ clock' = clock + 1
  /\ IF On("switch") THEN AnalyzerSwitch(0, k) ELSE UNCHANGED probes
  /\ UNCHANGED <<kind, phase, cpu, waits, loader, events, pulls, collects>>

\* A new task gets the tid of one that has exited.  Nothing is traced, and
\* to the probes it is the same key: waits does not tell them apart either.
Fork(k) ==
  /\ phase[k] = "dead" /\ Observed
  /\ phase' = [phase EXCEPT ![k] = "ready"]
  /\ UNCHANGED <<kind, clock, cpu, waits, probes, loader, events, pulls, collects>>

(***************************************************************************)
(* block_rq_issue and block_rq_complete.                                   *)
(***************************************************************************)
\* The start is stored by sector number, over that of another request if there is one.
Issue(k) ==
  /\ kind = "bio" /\ Observed
  /\ phase[k] = "sleep"
  /\ clock' = clock + 1
  /\ phase' = [phase EXCEPT ![k] = "run"]
  /\ waits' = [waits EXCEPT ![k] = clock]
  /\ IF On("issue") THEN start' \in Updates(start, SectorOf[k], clock) ELSE UNCHANGED start
  /\ UNCHANGED <<kind, cpu, ring, counts, loader, events, pulls, collects>>

\* Mutant: returns without deleting when there is no room.
CompleteProbeLeaks(k) ==
  LET s == SectorOf[k] IN
  IF ~On("complete") \/ s \notin DOMAIN start \/ ~Room(ring) THEN UNCHANGED <<start, ring>>
  ELSE /\ ring' = Submit(ring, Event("bio", 0, k, Since(s), TrueWait(k)))
       /\ start' = Delete(start, s)

\* The record is deleted with a full ring buffer as well.
CompleteProbe(k) ==
  LET s == SectorOf[k] IN
  IF ~On("complete") \/ s \notin DOMAIN start THEN UNCHANGED <<start, ring>>
  ELSE /\ ring' = Submit(ring, Event("bio", 0, k, Since(s), TrueWait(k)))
       /\ start' = Delete(start, s)

Complete(k) ==
  /\ kind = "bio" /\ Observed
  /\ phase[k] = "run"
  /\ clock' = clock + 1
  /\ phase' = [phase EXCEPT ![k] = "sleep"]
  /\ waits' = [waits EXCEPT ![k] = None]
  /\ CompleteProbe(k)
  /\ UNCHANGED <<kind, cpu, counts, loader, events, pulls, collects>>

\* The kernel goes on after what is followed of it: events of other tasks or requests,
\* with times of their own, fill the ring buffer while it is read.
Later ==
  /\ attached # <<>> /\ clock = MaxTime[kind] /\ ringBuf = "open"
  /\ ring' = Submit(ring, Event("later", 0, 0, 0, 0))
  /\ UNCHANGED <<kind, world, start, counts, loader, events, pulls, collects>>

(***************************************************************************)
(* Start.  Every step may fail; a failure after the first program has been *)
(* attached leaves the probes attached.  No path configured: the source    *)
(* is a stub, and idle.                                                    *)
(***************************************************************************)
Fail == faults < MaxFaults[kind] /\ faults' = faults + 1
Go(l) == life' = l
LoaderRest(vs) == UNCHANGED <<kind, world, probes, events, pulls, collects>> /\ UNCHANGED vs

\* The check for a configured path, LoadObject.
StartLoad ==
  /\ life = "init"
  /\ \/ Go("attach") /\ UNCHANGED faults
     \/ Go("stub") /\ UNCHANGED faults
     \/ Go("failed") /\ Fail
  /\ LoaderRest(<<attached, since, running, ringBuf>>)

\* One turn of AttachPrograms' loop: a program that fails is skipped.  The
\* number of programs tried so far is what life counts.
Tries == [attach |-> 0, attach1 |-> 1, attach2 |-> 2]
Attached(n) == <<"attach", "attach1", "attach2">>[n + 1]
StartAttach ==
  /\ life \in DOMAIN Tries
  /\ \/ attached' = Append(attached, Programs[Tries[life] + 1]) /\ UNCHANGED faults
     \/ Fail /\ UNCHANGED attached
  /\ IF Tries[life] + 1 < Len(Programs)
     THEN Go(Attached(Tries[life] + 1)) /\ UNCHANGED since
     ELSE /\ since' = IF attached' = Programs THEN clock ELSE since
          /\ Go(IF attached' = <<>> THEN "failed" ELSE "open")
  /\ LoaderRest(<<running, ringBuf>>)

\* The rest: the ring buffer and its thread, or, in pull mode, nothing.
StartOpen ==
  /\ life = "open"
  /\ \/ /\ Go("running") /\ running' = TRUE
        /\ ringBuf' = IF kind = "aggregate" THEN "null" ELSE "open"
        /\ poll' = IF kind = "aggregate" THEN "none" ELSE "check"
        /\ UNCHANGED faults
     \/ /\ kind # "aggregate" /\ Go("failed") /\ Fail
        /\ UNCHANGED <<running, ringBuf, poll>>
  /\ UNCHANGED <<kind, world, probes, attached, since, cache, handled, taken, recent, pulls, collects>>

(***************************************************************************)
(* The poll thread.  ring_buffer__poll (external) hands over one event     *)
(* after the other, and returns when it finds no new one.                  *)
(***************************************************************************)
AllowPid(k) == Targets = {} \/ k \in Targets
Allowed(e) == /\ kind = "detailed" => AllowPid(e.prev) \/ AllowPid(e.next)
              /\ kind = "offcpu" => AllowPid(e.next)

Newest(s, n) == SubSeq(s, Len(s) - (IF Len(s) < n THEN Len(s) ELSE n) + 1, Len(s))

PollCheck ==
  /\ poll = "check"
  /\ poll' = IF running THEN "poll" ELSE "done"
  /\ UNCHANGED <<kind, world, probes, loader, cache, handled, taken, recent, pulls, collects>>

\* HandleEvent, HandleDetailedEvent: the push sources call the callback.
\* (wakeups_ is a second deque of the same kind, and left out.)
HandleEvent ==
  /\ poll = "poll" /\ ring # <<>>
  /\ ring' = Tail(ring)
  /\ LET e == Head(ring)
     IN  IF ~Allowed(e) THEN UNCHANGED <<cache, handled, recent>>
         ELSE /\ handled' = IF kind = "offcpu" THEN Append(handled, e)
                           ELSE IF kind = "detailed" THEN Newest(Append(handled, e), MaxRecent + 1)
                           ELSE handled
              /\ cache' = IF kind = "offcpu" THEN Append(cache, e) ELSE cache
              /\ recent' = IF kind = "detailed" THEN Newest(Append(recent, e), MaxRecent) ELSE recent
  /\ UNCHANGED <<kind, world, start, counts, loader, poll, taken, pulls, collects>>

PollReturn ==
  /\ poll = "poll" /\ ring = <<>>
  /\ poll' = "check"
  /\ UNCHANGED <<kind, world, probes, loader, cache, handled, taken, recent, pulls, collects>>

\* The tid that GetRecentEvents filters by, 0: every task.
Matches(k, e) == k = 0 \/ k \in {e.prev, e.next}

\* GetRecentEvents: backwards through the deque, then reversed.
GetRecentEvents(k, n) ==
  LET scan[i \in 0..Len(recent)] ==
        IF i = 0 THEN <<>>
        ELSE LET out == scan[i - 1]
                 e == recent[Len(recent) - i + 1]
             IN  IF Len(out) < n /\ Matches(k, e) THEN Append(out, e) ELSE out
  IN  Reverse(scan[Len(recent)])

(***************************************************************************)
(* Stop, called once by the pipeline, and only if Start succeeded.         *)
(***************************************************************************)
\* Mutant: running_ is left set.
StopBeginStillRunning ==
  /\ life \in {"running", "stub"}
  /\ Go("join")
  /\ LoaderRest(<<attached, since, running, ringBuf, faults>>)

StopBegin ==
  /\ life \in {"running", "stub"}
  /\ running' = FALSE /\ Go("join")
  /\ LoaderRest(<<attached, since, ringBuf, faults>>)

StopFree ==
  /\ life = "join" /\ poll \in {"none", "done"}
  /\ ringBuf' = "null" /\ Go("detach")
  /\ LoaderRest(<<attached, since, running, faults>>)

\* DetachAll, link by link in the order of links_; also run by the
\* destructor of the manager of a source whose Start has failed.
DetachAll ==
  /\ life \in {"detach", "failed"}
  /\ IF attached # <<>> THEN attached' = Tail(attached) /\ UNCHANGED life
     ELSE Go("stopped") /\ UNCHANGED attached
  /\ LoaderRest(<<since, running, ringBuf, faults>>)

(***************************************************************************)
(* Collect: of the off-CPU profiler, which swaps its batch under the lock, *)
(* and of sched_analyzer in pull mode, which lists the tasks in the map    *)
(* and then looks up, deletes and reports one after the other, unlocked.   *)
(***************************************************************************)
CollectOffcpu ==
  /\ kind = "offcpu" /\ collects < MaxCollects
  /\ life \in {"running", "stub"}
  /\ collects' = collects + 1
  /\ taken' = taken \o cache /\ cache' = <<>>
  /\ UNCHANGED <<kind, world, probes, loader, poll, handled, recent, pulls>>

CollectBegin(c) ==
  /\ kind = "aggregate" /\ collects < MaxCollects
  /\ life = "running" /\ cpc[c] = "idle"
  /\ collects = 0 => c = 1     \* the collectors are alike
  /\ collects' = collects + 1
  /\ todo' = [todo EXCEPT ![c] = DOMAIN agg]
  /\ cpc' = [cpc EXCEPT ![c] = "lookup"]
  /\ UNCHANGED <<kind, world, probes, loader, events, got, total, history>>

CollectRest ==
  UNCHANGED <<kind, world, start, ring, mem, hit, carried, switches, loader, events, history, collects>>

CollectLookup(c, k) ==
  /\ cpc[c] = "lookup" /\ k \in todo[c]
  /\ IF k \notin DOMAIN agg
     THEN todo' = [todo EXCEPT ![c] = @ \ {k}] /\ UNCHANGED <<cpc, got>>
     ELSE /\ cpc' = [cpc EXCEPT ![c] = "delete"] /\ UNCHANGED todo
          /\ got' = [got EXCEPT ![c].key = k, ![c].sw = @ + (IF AllowPid(k) THEN mem[agg[k]] ELSE 0)]
  /\ UNCHANGED <<agg, total>> /\ CollectRest

\* Mutant: only entries that are not reported are deleted.
CollectDeleteFiltered(c) ==
  /\ cpc[c] = "delete"
  /\ agg' = IF AllowPid(got[c].key) THEN agg ELSE Delete(agg, got[c].key)
  /\ todo' = [todo EXCEPT ![c] = @ \ {got[c].key}]
  /\ cpc' = [cpc EXCEPT ![c] = "lookup"]
  /\ UNCHANGED <<got, total>> /\ CollectRest

\* The entry is deleted whether or not it was reported.
CollectDelete(c) ==
  /\ cpc[c] = "delete"
  /\ agg' = Delete(agg, got[c].key)
  /\ todo' = [todo EXCEPT ![c] = @ \ {got[c].key}]
  /\ cpc' = [cpc EXCEPT ![c] = "lookup"]
  /\ UNCHANGED <<got, total>> /\ CollectRest

\* The point of the history, under its lock, and the answer.
CollectEnd(c) ==
  /\ cpc[c] = "lookup" /\ todo[c] = {}
  /\ history' = Newest(Append(history, got[c].sw), MaxHistory)
  /\ total' = [total EXCEPT ![c] = @ + got[c].sw]
  /\ got' = [got EXCEPT ![c] = [key |-> 0, sw |-> 0]]
  /\ cpc' = [cpc EXCEPT ![c] = "idle"]
  /\ UNCHANGED <<kind, world, probes, loader, events, todo, collects>>

Init ==
  /\ kind \in Kinds
  /\ clock = 0 /\ cpu = 0
  /\ phase = [k \in Keys |-> IF k < NumKeys /\ kind # "aggregate" THEN "sleep"
                             ELSE IF kind = "bio" THEN "run" ELSE "ready"]
  /\ waits = [k \in Keys |-> None]
  /\ switches = 0 /\ attached = <<>> /\ since = None
  /\ start = <<>> /\ ring = <<>> /\ agg = <<>> /\ mem = [e \in Elems |-> 0] /\ hit = <<>> /\ carried = 0
  /\ life = "init" /\ running = FALSE /\ poll = "none" /\ ringBuf = "null"
  /\ cache = <<>> /\ handled = <<>> /\ taken = <<>> /\ recent = <<>>
  /\ cpc = [c \in Collectors |-> "idle"] /\ todo = [c \in Collectors |-> {}]
  /\ got = [c \in Collectors |-> [key |-> 0, sw |-> 0]]
  /\ total = [c \in Collectors |-> 0] /\ history = <<>>
  /\ collects = 0 /\ faults = 0

Kernel ==
  \/ \E k \in Keys : Wakeup(k) \/ Migrate(k) \/ Fork(k) \/ Issue(k) \/ Complete(k) \/ SwitchTo(k)
  \/ \E k \in {0} \union Keys, b \in {"sleep", "ready", "dead"} : Switch(k, b)
  \/ Later
Addition == \E k \in Keys : LoadCount(k) \/ StoreCount(k)
Starting == StartLoad \/ StartAttach \/ StartOpen
PollThread == PollCheck \/ HandleEvent \/ PollReturn
Stopping == StopFree \/ DetachAll
Collect(c) ==
  \/ CollectBegin(c) \/ CollectDelete(c) \/ CollectEnd(c)
  \/ \E k \in Keys : CollectLookup(c, k)

Next == \/ Kernel \/ Addition \/ Starting \/ PollThread \/ StopBegin \/ Stopping
        \/ CollectOffcpu \/ \E c \in Collectors : Collect(c)

Spec == Init /\ [][Next]_vars

\* The threads of the daemon are scheduled; nobody has to call Start, Stop
\* or Collect, and the traced kernel owes nothing.
FairSpec == Spec /\ WF_vars(PollThread) /\ WF_vars(Stopping)
-----------------------------------------------------------------------------

TypeOK ==
  /\ kind \in Kinds
  /\ clock \in 0..MaxTime[kind] /\ cpu \in {0} \union Keys
  /\ phase \in [Keys -> {"sleep", "ready", "run", "dead"}]
  /\ waits \in [Keys -> 0..MaxTime[kind] \union {None}] /\ switches \in 0..MaxTime[kind]
  /\ IsPrefix(attached, Programs) \/ ToSet(attached) \subseteq ToSet(Programs)
  /\ since \in 0..MaxTime[kind] \union {None}
  /\ DOMAIN start \subseteq Keys
  /\ \A k \in DOMAIN start : start[k] \in 0..MaxTime[kind]
  /\ DOMAIN agg \subseteq Keys /\ \A k \in DOMAIN agg : agg[k] \in Elems
  /\ mem \in [Elems -> Nat] /\ carried \in Nat
  /\ DOMAIN hit \subseteq Keys /\ \A k \in DOMAIN hit : hit[k] \in [elem : Elems, val : Nat \union {None}]
  /\ Len(ring) <= RingSize[kind] /\ Len(recent) <= MaxRecent /\ Len(history) <= MaxHistory
  /\ life \in {"init", "stub", "failed", "open", "running", "join", "detach", "stopped"} \union DOMAIN Tries
  /\ running \in BOOLEAN /\ poll \in {"none", "check", "poll", "done"}
  /\ ringBuf \in {"null", "open"}
  /\ cpc \in [Collectors -> {"idle", "lookup", "delete"}] /\ todo \in [Collectors -> SUBSET Keys]
  /\ got \in [Collectors -> [key : {0} \union Keys, sw : Nat]] /\ total \in [Collectors -> Nat]
  /\ collects \in 0..MaxCollects /\ faults \in 0..MaxFaults[kind]

(***************************************************************************)
(* A latency or duration in the ring buffer, as long as its poll thread    *)
(* may still read it or start to, is the one the task or request really    *)
(* had since its last wake-up, its last switch off the CPU or its issue,   *)
(* or 0 (not measured), also when events were dropped before it.           *)
(* Three exceptions: a time stored before all programs were attached may   *)
(* be left over from a wait whose end nobody saw; trace_sched_switch does  *)
(* not delete a time when it finds no room (see LatencySinceWakeup); and   *)
(* req_starts knows requests by their sector number alone, so that one may *)
(* be charged with the time since a later request took its place: never    *)
(* with more than its own.                                                 *)
(***************************************************************************)
TrueOrZero(e) == e.lat \in {0, e.true}
Leftover(e) == since = None \/ e.at - e.lat < since
Replaced(e) == e.lat \in e.others /\ (e.true = 0 \/ e.lat < e.true)
Read == life \in {"open", "running", "join"} \union DOMAIN Tries
LatencyTrue ==
  Read => \A i \in DOMAIN ring :
     \/ TrueOrZero(ring[i]) \/ Leftover(ring[i]) \/ Replaced(ring[i])
     \/ kind = "tracer" /\ ring[i].true = 0

(***************************************************************************)
(* While all programs are attached, a time stored since then belongs to a  *)
(* wait that is under way: the map does not fill up with times that nobody *)
(* will take out.  An exited task waits for ever, and sched_tracer keeps   *)
(* the times of the switches it dropped.                                   *)
(***************************************************************************)
Waiters(i) == IF kind = "bio" THEN {k \in Keys : SectorOf[k] = i} ELSE {i}
StartsAreOpen ==
  attached = Programs =>
    \A i \in DOMAIN start :
      start[i] < since \/ kind = "tracer" \/ \E k \in Waiters(i) : waits[k] = start[i]

(***************************************************************************)
(* The poll thread never works on a ring buffer that Stop has freed.       *)
(***************************************************************************)
PolledIsOpen == poll = "poll" => ringBuf = "open"

(***************************************************************************)
(* The state is well formed, stored times belong to waits under way and    *)
(* nobody reads a freed ring buffer.                                       *)
(***************************************************************************)
MapsSound == TypeOK /\ StartsAreOpen /\ PolledIsOpen

(***************************************************************************)
(* The off-CPU profiler's batches hold every event its callback accepted   *)
(* once and in order, whenever the pool and the API call Collect.          *)
(***************************************************************************)
EachEventOnce == kind = "offcpu" => taken \o cache = handled

(***************************************************************************)
(* What one caller of sched_analyzer's Collect is told never adds up to    *)
(* more context switches than there were, whatever another caller and the  *)
(* probes do between its look-up and its delete, but for what a probe      *)
(* carries over: it has loaded the count of its task, Collect reports and  *)
(* deletes that, and the probe stores one more than it loaded into the     *)
(* element, another task's by now.                                         *)
(***************************************************************************)
Pending(c) == IF cpc[c] = "delete" THEN {got[c].key} ELSE {}
Units(S) == UNION {{k} \X (1..mem[agg[k]]) : k \in S}  \* one for each switch counted
InMap(c) == Cardinality(Units(DOMAIN agg \ Pending(c)))
NeverInflated == \A c \in Collectors : total[c] + got[c].sw + InMap(c) <= switches + carried

(***************************************************************************)
(* QueryExtra's "events" answers with the newest matching events among the *)
(* last kMaxEvents handed to the callback, oldest first: at says where in  *)
(* s the events of the answer a stand; a matching event is left out only   *)
(* if the answer is full of newer ones.                                    *)
(***************************************************************************)
Matching(k, s) == {i \in DOMAIN s : Matches(k, s[i])}

NewestMatching(a, k, n, s) ==
  /\ Len(a) <= n
  /\ \E at \in [DOMAIN a -> Matching(k, s)] :
       /\ \A i, j \in DOMAIN a : i < j => at[i] < at[j]
       /\ \A i \in DOMAIN a : a[i] = s[at[i]]
       /\ \A m \in Matching(k, s) \ Range(at) : Len(a) = n /\ \A i \in DOMAIN a : m < at[i]

AnswersNewest ==
  kind = "detailed" =>
    \A k \in {0} \union Keys, n \in 0..MaxRecent :
      NewestMatching(GetRecentEvents(k, n), k, n, Newest(handled, MaxRecent))

(***************************************************************************)
(* What the probes saw is reported to a caller once, however collectors,   *)
(* queries, probes and the poll thread interleave.                         *)
(***************************************************************************)
ReportedOnce == EachEventOnce /\ NeverInflated /\ AnswersNewest

(***************************************************************************)
(* Stop returns if ring_buffer__poll does.  Stop joins the poll thread     *)
(* before it detaches the probes, which fill the ring buffer meanwhile: if *)
(* the thread never catches up with them, Stop waits for ever.  (It is     *)
(* called once: to be out of it again and again is to return from it.)     *)
(***************************************************************************)
StopReturns == []<>(poll # "poll") => []<>(life \notin {"join", "detach"})

(***************************************************************************)
(* While a source runs, each event in its ring buffer is handed over,      *)
(* however many others follow.                                             *)
(***************************************************************************)
Waiting == \E i \in DOMAIN ring : ring[i].type # "later"
EventsHandedOver == []<>~(life = "running" /\ Waiting)

(***************************************************************************)
(* Nobody waits for ever: neither an event nor, but for the probes that    *)
(* outrun the poll thread, the caller of Stop.                             *)
(***************************************************************************)
PollerProgress == StopReturns /\ EventsHandedOver

(***************************************************************************)
(* sched_tracer.bpf.c:30: the latency of a switch is the time since the    *)
(* wake-up.  Violated: a switch that finds the ring buffer full leaves the *)
(* time in the map for a later switch that no wake-up preceded.            *)
(***************************************************************************)
LatencySinceWakeup == Read => \A i \in DOMAIN ring : TrueOrZero(ring[i]) \/ Leftover(ring[i])
=============================================================================
