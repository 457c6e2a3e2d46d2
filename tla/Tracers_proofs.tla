--------------------------- MODULE Tracers_proofs ---------------------------
(***************************************************************************)
(* Proofs about Tracers for every set of sources, every number of tasks or *)
(* requests and every sharing of sector numbers, every size of the map, of *)
(* the ring buffer and of the histories, any number of callers of Collect  *)
(* and of failing steps of Start.                                          *)
(*                                                                         *)
(* The heart of TraceInv is Paired: once all programs are attached, a time *)
(* in the map belongs to the wait that is under way, of a sector to the    *)
(* latest of its requests, or is older than the last attachment.  A report *)
(* takes its latency from that time, so that it is true, recognisably a    *)
(* leftover, or that of another request.  Counted adds, for the counts of  *)
(* sched_analyzer, the switches that probes have seen and not yet stored.  *)
(***************************************************************************)
EXTENDS Tracers, FiniteSetTheorems, WellFoundedInduction, TLAPS

-----------------------------------------------------------------------------
(* The inductive invariant *)

\* An event in the ring buffer or handed to the source.
Reports == {"wakeup", "switch", "migrate", "offcpu", "bio", "later"}
Entry == [type : Reports, prev : {0} \cup Keys, next : {0} \cup Keys,
          at : Nat, lat : Nat, true : Int, others : SUBSET Int]

KernelTypes ==
  /\ kind \in Kinds
  /\ clock \in 0..MaxTime[kind] /\ cpu \in {0} \cup Keys
  /\ phase \in [Keys -> {"sleep", "ready", "run", "dead"}]
  /\ waits \in [Keys -> 0..MaxTime[kind] \cup {None}]
  /\ \A k \in Keys : waits[k] = None \/ waits[k] < clock
  /\ switches \in 0..clock

\* Times in the map, and those of the events, are in the past.
StartTypes ==
  /\ DOMAIN start \subseteq Keys
  /\ \A k \in DOMAIN start : start[k] \in Nat /\ start[k] < clock
RingTypes ==
  /\ ring \in Seq(Entry) /\ Len(ring) <= RingSize[kind]
  /\ \A i \in DOMAIN ring : ring[i].at <= clock

\* No two tasks have the same element.
AggTypes ==
  /\ DOMAIN agg \subseteq Keys /\ \A k \in DOMAIN agg : agg[k] \in Elems
  /\ \A i, j \in DOMAIN agg : agg[i] = agg[j] => i = j
  /\ mem \in [Elems -> Nat] /\ carried \in Nat
  /\ DOMAIN hit \subseteq Keys
  /\ \A k \in DOMAIN hit : hit[k] \in [elem : Elems, val : Nat \cup {None}]

Probes == {"wakeup", "switch", "migrate", "issue", "complete"}
Lives == {"init", "stub", "failed", "open", "running", "join", "detach", "stopped"} \cup DOMAIN Tries
LoaderTypes ==
  /\ attached \in Seq(Probes) /\ ToSet(attached) \subseteq ToSet(Programs)
  /\ since \in 0..MaxTime[kind] \cup {None}
  /\ life \in Lives
  /\ running \in BOOLEAN /\ ringBuf \in {"null", "open"}
  /\ faults \in 0..MaxFaults[kind]

EventTypes ==
  /\ poll \in {"none", "check", "poll", "done"}
  /\ cache \in Seq(Entry) /\ handled \in Seq(Entry) /\ taken \in Seq(Entry)
  /\ recent \in Seq(Entry) /\ Len(recent) <= MaxRecent
  /\ collects \in 0..MaxCollects

PullTypes ==
  /\ cpc \in [Collectors -> {"idle", "lookup", "delete"}]
  /\ todo \in [Collectors -> SUBSET Keys]
  /\ got \in [Collectors -> [key : {0} \cup Keys, sw : Nat]]
  /\ total \in [Collectors -> Nat]
  /\ history \in Seq(Nat) /\ Len(history) <= MaxHistory

\* What Start has attached so far.  All programs are attached from since on until
\* Stop detaches them.
Loading ==
  /\ life \in DOMAIN Tries => Len(attached) <= Tries[life] /\ Tries[life] < Len(Programs)
  /\ life = "init" => attached = <<>>
  /\ life \in {"init", "stub"} \cup DOMAIN Tries => since = None
  /\ Len(attached) <= Len(Programs)
  /\ attached = Programs => since # None
  /\ Read /\ since # None => attached = Programs

\* sched_tracer keeps the times of the switches it dropped; a sector has the time of
\* the latest request that is under way.
PairedTask(k) ==
  \/ waits[k] = start[k]
  \/ kind = "tracer" /\ waits[k] = None
PairedSector(s) ==
  /\ \E j \in Keys : SectorOf[j] = s /\ waits[j] = start[s]
  /\ \A j \in Keys : SectorOf[j] = s /\ waits[j] # None => waits[j] <= start[s]
PairedKey(i) == start[i] < since \/ IF kind = "bio" THEN PairedSector(i) ELSE PairedTask(i)
Paired == attached = Programs => \A i \in DOMAIN start : PairedKey(i)

\* The poll thread has a ring buffer for as long as it lives.
Polled == poll \in {"check", "poll"} => ringBuf = "open"

\* What LatencyTrue says of one event.
Good(e) == TrueOrZero(e) \/ Leftover(e) \/ Replaced(e) \/ (kind = "tracer" /\ e.true = 0)

TraceInv ==
  /\ KernelTypes /\ StartTypes /\ RingTypes /\ AggTypes
  /\ LoaderTypes /\ EventTypes /\ PullTypes
  /\ Loading /\ Paired /\ Polled /\ LatencyTrue

-----------------------------------------------------------------------------
(* Programs, maps and sequences *)

\* The states of the loop of AttachPrograms.
LEMMA TriesFacts ==
  /\ DOMAIN Tries = {"attach", "attach1", "attach2"}
  /\ Tries["attach"] = 0 /\ Tries["attach1"] = 1 /\ Tries["attach2"] = 2
  /\ Attached(1) = "attach1" /\ Attached(2) = "attach2"
  BY DEF Tries, Attached

\* The programs of each kind of source.
LEMMA ProgramsFacts ==
  ASSUME kind \in Kinds
  PROVE  /\ Programs \in Seq(Probes) /\ Len(Programs) \in 1..3
         /\ kind = "tracer" => Programs = <<"wakeup", "switch">>
         /\ kind \in {"detailed", "aggregate"} => Programs = <<"wakeup", "switch", "migrate">>
         /\ kind = "offcpu" => Programs = <<"switch">>
         /\ kind = "bio" => Programs = <<"issue", "complete">>
<1>1. kind \in {"tracer", "detailed", "aggregate", "offcpu", "bio"}
  BY TracersAssumption DEF AllKinds
<1>2. PICK P : P = [tracer |-> <<"wakeup", "switch">>,
                   detailed |-> <<"wakeup", "switch", "migrate">>,
                   aggregate |-> <<"wakeup", "switch", "migrate">>,
                   offcpu |-> <<"switch">>,
                   bio |-> <<"issue", "complete">>]
  OBVIOUS
<1>3. Programs = P[kind]
  BY <1>2, Zenon DEF Programs
<1>4. /\ P["tracer"] = <<"wakeup", "switch">>
      /\ P["detailed"] = <<"wakeup", "switch", "migrate">>
      /\ P["aggregate"] = <<"wakeup", "switch", "migrate">>
      /\ P["offcpu"] = <<"switch">> /\ P["bio"] = <<"issue", "complete">>
  BY <1>2
<1>5. /\ kind = "tracer" => Programs = <<"wakeup", "switch">>
      /\ kind = "detailed" => Programs = <<"wakeup", "switch", "migrate">>
      /\ kind = "aggregate" => Programs = <<"wakeup", "switch", "migrate">>
      /\ kind = "offcpu" => Programs = <<"switch">>
      /\ kind = "bio" => Programs = <<"issue", "complete">>
  BY <1>3, <1>4, Zenon
<1>6. \/ Programs = <<"wakeup", "switch">>
      \/ Programs = <<"wakeup", "switch", "migrate">>
      \/ Programs = <<"switch">>
      \/ Programs = <<"issue", "complete">>
  BY <1>1, <1>5, Zenon
<1>7. /\ <<"wakeup", "switch">> \in Seq(Probes) /\ Len(<<"wakeup", "switch">>) = 2
      /\ <<"wakeup", "switch", "migrate">> \in Seq(Probes) /\ Len(<<"wakeup", "switch", "migrate">>) = 3
      /\ <<"switch">> \in Seq(Probes) /\ Len(<<"switch">>) = 1
      /\ <<"issue", "complete">> \in Seq(Probes) /\ Len(<<"issue", "complete">>) = 2
  BY DEF Probes
<1>8. Programs \in Seq(Probes) /\ (Len(Programs) = 1 \/ Len(Programs) = 2 \/ Len(Programs) = 3)
  BY <1>6, <1>7, Zenon
<1> QED  BY <1>5, <1>8

\* A source whose programs are all attached sees each of its events ...
LEMMA AllOn ==
  ASSUME kind \in Kinds, attached = Programs
  PROVE  /\ kind \in {"tracer", "detailed", "aggregate"} => On("wakeup")
         /\ kind # "bio" => On("switch")
         /\ kind = "bio" => On("issue") /\ On("complete")
<1>1. kind \in {"tracer", "detailed", "aggregate", "offcpu", "bio"}
  BY TracersAssumption DEF AllKinds
<1>2. CASE kind = "tracer"
  <2>1. attached = <<"wakeup", "switch">>
    BY <1>2, ProgramsFacts
  <2>2. 1 \in DOMAIN attached /\ 2 \in DOMAIN attached /\ attached[1] = "wakeup" /\ attached[2] = "switch"
    BY <2>1
  <2> QED  BY <1>2, <2>2 DEF On, ToSet
<1>3. CASE kind \in {"detailed", "aggregate"}
  <2>1. attached = <<"wakeup", "switch", "migrate">>
    BY <1>3, ProgramsFacts
  <2>2. 1 \in DOMAIN attached /\ 2 \in DOMAIN attached /\ attached[1] = "wakeup" /\ attached[2] = "switch"
    BY <2>1
  <2> QED  BY <1>3, <2>2 DEF On, ToSet
<1>4. CASE kind = "offcpu"
  <2>1. attached = <<"switch">>
    BY <1>4, ProgramsFacts
  <2>2. 1 \in DOMAIN attached /\ attached[1] = "switch"
    BY <2>1
  <2> QED  BY <1>4, <2>2 DEF On, ToSet
<1>5. CASE kind = "bio"
  <2>1. attached = <<"issue", "complete">>
    BY <1>5, ProgramsFacts
  <2>2. 1 \in DOMAIN attached /\ 2 \in DOMAIN attached /\ attached[1] = "issue" /\ attached[2] = "complete"
    BY <2>1
  <2> QED  BY <1>5, <2>2 DEF On, ToSet
<1> QED  BY <1>1, <1>2, <1>3, <1>4, <1>5

\* ... and the off-CPU profiler has no probe on wake-ups.
LEMMA OffcpuOff ==
  ASSUME kind \in Kinds, kind = "offcpu", ToSet(attached) \subseteq ToSet(Programs)
  PROVE  ~On("wakeup")
<1>1. Programs = <<"switch">>
  BY ProgramsFacts
<1>2. \A i \in DOMAIN Programs : Programs[i] = "switch"
  BY <1>1
<1>3. \A p \in ToSet(Programs) : p = "switch"
  BY <1>2 DEF ToSet
<1> QED  BY <1>3 DEF On

\* s is the buffer r, or r with e behind it.
Extends(r, s, e) ==
  /\ s \in Seq(Entry) /\ Len(s) <= RingSize[kind]
  /\ \A i \in DOMAIN s : (i \in DOMAIN r /\ s[i] = r[i]) \/ s[i] = e

\* A reservation that succeeds puts the event behind the others.
LEMMA SubmitFacts ==
  ASSUME kind \in Kinds, NEW r \in Seq(Entry), Len(r) <= RingSize[kind], NEW e \in Entry
  PROVE  /\ Extends(r, Submit(r, e), e) /\ Extends(r, r, e)
         /\ Room(r) => Extends(r, Append(r, e), e)
<1>1. RingSize[kind] \in Nat
  BY TracersAssumption
<1>2. Extends(r, r, e)
  BY DEF Extends
<1>3. ASSUME Room(r) PROVE Extends(r, Append(r, e), e)
  <2>1. Append(r, e) \in Seq(Entry) /\ Len(Append(r, e)) = Len(r) + 1
    OBVIOUS
  <2>2. \A i \in DOMAIN Append(r, e) : (i \in DOMAIN r /\ Append(r, e)[i] = r[i]) \/ Append(r, e)[i] = e
    OBVIOUS
  <2> QED  BY <1>1, <1>3, <2>1, <2>2 DEF Extends, Room
<1> QED  BY <1>2, <1>3 DEF Submit

\* The newest n elements of a sequence.
LEMMA NewestFacts ==
  ASSUME NEW S, NEW s \in Seq(S), NEW n \in Nat
  PROVE  Newest(s, n) \in Seq(S) /\ Len(Newest(s, n)) <= n
<1>1. PICK d \in Nat : d = IF Len(s) < n THEN Len(s) ELSE n
  OBVIOUS
<1>2. d <= n /\ d <= Len(s)
  BY <1>1
<1>3. Newest(s, n) = SubSeq(s, Len(s) - d + 1, Len(s))
  BY <1>1, Zenon DEF Newest
<1>4. PICK a \in Nat : a = Len(s) - d + 1
  BY <1>2
<1>5. a >= 1 /\ Len(s) + 1 - a = d
  BY <1>2, <1>4
<1>6. SubSeq(s, a, Len(s)) \in Seq(S) /\ Len(SubSeq(s, a, Len(s))) = d
  BY <1>2, <1>5
<1> QED  BY <1>2, <1>3, <1>4, <1>6

-----------------------------------------------------------------------------
(* What a kernel event does to the ring buffer and the maps *)

\* A kernel event does not touch the source.
LEMMA SourceRests ==
  ASSUME TraceInv, UNCHANGED <<kind, loader, events, pulls, collects>>
  PROVE  LoaderTypes' /\ EventTypes' /\ PullTypes' /\ Loading' /\ Polled'
<1> USE DEF TraceInv, loader, events, pulls
<1>1. LoaderTypes'
  BY DEF LoaderTypes, Programs
<1>2. EventTypes'
  BY DEF EventTypes
<1>3. PullTypes'
  BY DEF PullTypes
<1>4. Loading'
  BY DEF Loading, Programs, Read
<1>5. Polled'
  BY DEF Polled
<1> QED  BY <1>1, <1>2, <1>3, <1>4, <1>5

\* How long the requests that share the sector of k have been waiting.
SharedTimes(k) == {clock - waits[j] : j \in Sharing(k)}

\* The fields of an event.
LEMMA EventFacts ==
  ASSUME TraceInv, NEW type \in Reports, NEW prev \in {0} \cup Keys, NEW next \in {0} \cup Keys,
         NEW lat \in Nat, NEW true \in Int
  PROVE  /\ Event(type, prev, next, lat, true) \in Entry
         /\ Event(type, prev, next, lat, true).at = clock
         /\ Event(type, prev, next, lat, true).lat = lat
         /\ Event(type, prev, next, lat, true).true = true
         /\ Event(type, prev, next, lat, true).others = SharedTimes(next)
<1>1. clock \in Nat
  BY TracersAssumption DEF TraceInv, KernelTypes
<1>2. \A j \in Sharing(next) : waits[j] \in Nat
  <2>1. \A j \in Sharing(next) : j \in Keys /\ waits[j] # None
    BY DEF Sharing
  <2> QED  BY <2>1 DEF TraceInv, KernelTypes
<1>3. PICK O \in SUBSET Int : O = {clock - waits[j] : j \in Sharing(next)}
  <2>1. {clock - waits[j] : j \in Sharing(next)} \in SUBSET Int
    BY <1>1, <1>2
  <2> QED  BY <2>1, Zenon
<1>4. Event(type, prev, next, lat, true)
        = [type |-> type, prev |-> prev, next |-> next, at |-> clock, lat |-> lat, true |-> true,
           others |-> O]
  BY <1>3, Zenon DEF Event
<1> QED  BY <1>1, <1>3, <1>4 DEF Entry, SharedTimes

\* The bounds on time are numbers.
LEMMA Times ==
  ASSUME TraceInv
  PROVE  clock \in Nat /\ MaxTime[kind] \in Nat /\ clock <= MaxTime[kind]
  BY TracersAssumption DEF TraceInv, KernelTypes

\* So are those on failing steps of Start.
LEMMA FaultBounds ==
  ASSUME kind \in Kinds
  PROVE  MaxFaults[kind] \in Nat
  BY TracersAssumption

\* A latency, measured and real.
LEMMA SinceFacts ==
  ASSUME TraceInv, NEW k \in {0} \cup Keys, NEW s \in {0} \cup Keys
  PROVE  Since(s) \in Nat /\ TrueWait(k) \in Int
<1>1. Since(s) \in Nat
  BY Times DEF TraceInv, StartTypes, Since
<1>2. CASE k = 0
  BY <1>1, <1>2 DEF TrueWait
<1>3. CASE k \in Keys
  <2>1. waits[k] \in 0..MaxTime[kind] \/ waits[k] = None
    BY <1>3 DEF TraceInv, KernelTypes
  <2>2. TrueWait(k) \in Int
    BY <1>3, <2>1, Times DEF TrueWait
  <2> QED  BY <1>1, <2>2
<1> QED  BY <1>1, <1>2, <1>3

\* The latency of a switch or of a completion is true, recognisably a leftover, or that
\* of the request that took its place.
LEMMA ReportIsGood ==
  ASSUME TraceInv, Read, since # None, NEW k \in {0} \cup Keys, NEW s \in {0} \cup Keys,
         kind = "bio" => k # 0 /\ s = SectorOf[k], kind # "bio" => s = k,
         NEW e \in Entry, e.at = clock, e.lat = Since(s), e.true = TrueWait(k),
         e.others = SharedTimes(k)
  PROVE  Good(e)
<1>1. CASE s \notin DOMAIN start
  BY <1>1 DEF Since, Good, TrueOrZero
<1>2. CASE s \in DOMAIN start
  <2>1. attached = Programs
    BY DEF TraceInv, Loading
  <2>2. PairedKey(s)
    BY <1>2, <2>1 DEF TraceInv, Paired
  <2>3. s \in Keys /\ start[s] \in Nat /\ e.lat = clock - start[s] /\ s # 0
    BY <1>2 DEF TraceInv, StartTypes, Since, Keys
  <2>4. since \in Nat /\ clock \in Nat
    BY Times DEF TraceInv, LoaderTypes
  <2>5. CASE start[s] < since
    BY <2>3, <2>4, <2>5 DEF Good, Leftover
  <2>6. CASE kind # "bio" /\ PairedTask(s)
    <3>1. s = k
      BY <2>6
    <3>2. CASE waits[s] = start[s]
      BY <2>3, <3>1, <3>2, TracersAssumption DEF Good, TrueOrZero, TrueWait
    <3>3. CASE kind = "tracer" /\ waits[s] = None
      BY <3>1, <3>3 DEF Good, TrueWait
    <3> QED  BY <2>6, <3>2, <3>3 DEF PairedTask
  <2>7. CASE kind = "bio" /\ PairedSector(s)
    <3>1. k \in Keys /\ k # 0 /\ SectorOf[k] = s
      BY <2>7
    <3>2. PICK j \in Keys : SectorOf[j] = s /\ waits[j] = start[s]
      BY <2>7 DEF PairedSector
    <3>3. start[s] # None
      BY <2>3, TracersAssumption
    <3>4. CASE waits[k] = start[s]
      <4>1. e.true = clock - start[s]
        BY <3>1, <3>3, <3>4 DEF TrueWait
      <4> QED  BY <2>3, <4>1 DEF Good, TrueOrZero
    <3>5. CASE waits[k] # start[s]
      <4>1. j \in Sharing(k)
        BY <2>7, <3>1, <3>2, <3>3, <3>5 DEF Sharing
      <4>2. e.lat \in e.others
        BY <2>3, <3>2, <4>1 DEF SharedTimes
      <4>3. CASE waits[k] = None
        BY <4>2, <4>3 DEF Good, Replaced, TrueWait
      <4>4. CASE waits[k] # None
        <5>1. waits[k] \in Nat
          BY <3>1, <4>4, Times DEF TraceInv, KernelTypes
        <5>2. waits[k] <= start[s]
          BY <2>7, <3>1, <4>4 DEF PairedSector
        <5>3. e.true = clock - waits[k]
          BY <3>1, <4>4 DEF TrueWait
        <5>4. e.lat < e.true
          BY <2>3, <2>4, <3>5, <5>1, <5>2, <5>3
        <5> QED  BY <4>2, <5>4 DEF Good, Replaced
      <4> QED  BY <4>3, <4>4
    <3> QED  BY <3>4, <3>5
  <2> QED  BY <2>2, <2>5, <2>6, <2>7 DEF PairedKey
<1> QED  BY <1>1, <1>2

\* One more event in the ring buffer.
LEMMA RingExtended ==
  ASSUME TraceInv, UNCHANGED <<kind, loader>>, clock' \in {clock, clock + 1},
         NEW e \in Entry, Extends(ring, ring', e), e.at = clock,
         Read /\ since # None => Good(e)
  PROVE  RingTypes' /\ LatencyTrue'
<1>1. RingTypes'
  <2>1. \A i \in DOMAIN ring : ring[i].at \in Nat /\ ring[i].at <= clock
    <3>1. \A i \in DOMAIN ring : ring[i] \in Entry
      BY DEF TraceInv, RingTypes
    <3>2. \A x \in Entry : x.at \in Nat
      BY DEF Entry
    <3> QED  BY <3>1, <3>2 DEF TraceInv, RingTypes
  <2>2. \A i \in DOMAIN ring' : ring'[i].at <= clock'
    BY <2>1, Times DEF Extends
  <2> QED  BY <2>2 DEF RingTypes, Extends
<1>2. Read' <=> Read
  BY DEF Read, loader
<1>3. ASSUME Read, NEW i \in DOMAIN ring'
      PROVE  Good(ring'[i])
  <2>1. CASE i \in DOMAIN ring /\ ring'[i] = ring[i]
    BY <1>3, <2>1 DEF TraceInv, LatencyTrue, Good
  <2>2. CASE ring'[i] = e /\ since # None
    BY <1>3, <2>2
  <2>3. CASE since = None
    BY <2>3 DEF Good, Leftover
  <2> QED  BY <2>1, <2>2, <2>3 DEF Extends
<1>4. LatencyTrue'
  BY <1>2, <1>3 DEF LatencyTrue, Good, TrueOrZero, Leftover, Replaced, loader
<1> QED  BY <1>1, <1>4

\* The ring buffer stays as it is.
LEMMA RingSame ==
  ASSUME TraceInv, UNCHANGED <<kind, loader, ring>>, clock' \in {clock, clock + 1}
  PROVE  RingTypes' /\ LatencyTrue'
<1>1. RingTypes'
  <2>1. \A i \in DOMAIN ring : ring[i].at \in Nat /\ ring[i].at <= clock
    <3>1. \A i \in DOMAIN ring : ring[i] \in Entry
      BY DEF TraceInv, RingTypes
    <3>2. \A x \in Entry : x.at \in Nat
      BY DEF Entry
    <3> QED  BY <3>1, <3>2 DEF TraceInv, RingTypes
  <2>2. \A i \in DOMAIN ring' : ring'[i].at <= clock'
    BY <2>1, Times
  <2> QED  BY <2>2 DEF TraceInv, RingTypes
<1>2. LatencyTrue'
  BY DEF TraceInv, LatencyTrue, Read, TrueOrZero, Leftover, Replaced, loader
<1> QED  BY <1>1, <1>2

\* A wait begins and its time is stored, or the map is full.
LEMMA WaitBegins ==
  ASSUME TraceInv, kind # "bio", UNCHANGED <<kind, loader>>, clock' = clock + 1, NEW k \in Keys,
         start' \in Updates(start, k, clock), waits' = [waits EXCEPT ![k] = clock]
  PROVE  StartTypes' /\ Paired'
<1>1. \/ /\ DOMAIN start' = DOMAIN start \cup {k} /\ start'[k] = clock
         /\ \A i \in DOMAIN start : i # k => start'[i] = start[i]
      \/ k \notin DOMAIN start /\ start' = start
  BY DEF Updates
<1>2. StartTypes'
  BY <1>1, Times DEF TraceInv, StartTypes
<1>3. waits'[k] = clock /\ \A i \in Keys : i # k => waits'[i] = waits[i]
  BY DEF TraceInv, KernelTypes
<1>4. ASSUME attached = Programs, NEW i \in DOMAIN start'
      PROVE  PairedKey(i)'
  <2>1. CASE i = k
    BY <1>1, <1>3, <2>1 DEF PairedKey, PairedTask
  <2>2. CASE i # k
    <3>1. i \in DOMAIN start /\ i \in Keys /\ start'[i] = start[i]
      BY <1>1, <2>2 DEF TraceInv, StartTypes
    <3>2. PairedKey(i)
      BY <1>4, <3>1 DEF TraceInv, Paired
    <3> QED  BY <1>3, <2>2, <3>1, <3>2 DEF PairedKey, PairedTask, loader
  <2> QED  BY <2>1, <2>2
<1>5. Paired'
  BY <1>4 DEF Paired, Programs, loader
<1> QED  BY <1>2, <1>5

\* A wait ends, and its time is taken out of the map; sched_tracer may leave it.
LEMMA WaitEnds ==
  ASSUME TraceInv, kind # "bio", UNCHANGED <<kind, loader>>, clock' = clock + 1, NEW k \in {0} \cup Keys,
         start' = Delete(start, k) \/ (kind = "tracer" /\ start' = start),
         \A i \in Keys : waits'[i] = IF i = k THEN None ELSE waits[i]
  PROVE  StartTypes' /\ Paired'
<1>1. /\ DOMAIN start' \subseteq DOMAIN start /\ \A i \in DOMAIN start' : start'[i] = start[i]
      /\ kind = "tracer" \/ k \notin DOMAIN start'
  <2>1. CASE start' = Delete(start, k)
    <3>1. DOMAIN start' = DOMAIN start \ {k} /\ \A i \in DOMAIN start' : start'[i] = start[i]
      BY <2>1 DEF Delete
    <3> QED  BY <3>1
  <2>2. CASE kind = "tracer" /\ start' = start
    BY <2>2
  <2> QED  BY <2>1, <2>2
<1>2. StartTypes'
  BY <1>1, Times DEF TraceInv, StartTypes
<1>3. ASSUME attached = Programs, NEW i \in DOMAIN start'
      PROVE  PairedKey(i)'
  <2>1. i \in DOMAIN start /\ i \in Keys /\ start'[i] = start[i]
    BY <1>1 DEF TraceInv, StartTypes
  <2>2. PairedKey(i)
    BY <1>3, <2>1 DEF TraceInv, Paired
  <2> QED  BY <1>1, <2>1, <2>2 DEF PairedKey, PairedTask, loader
<1>4. Paired'
  BY <1>3 DEF Paired, Programs, loader
<1> QED  BY <1>2, <1>4

\* Neither the waits nor their times change.
LEMMA WaitsSame ==
  ASSUME TraceInv, UNCHANGED <<kind, loader, start, waits>>, clock' \in {clock, clock + 1}
  PROVE  StartTypes' /\ Paired'
<1>1. StartTypes'
  BY Times DEF TraceInv, StartTypes
<1>2. Paired'
  BY DEF TraceInv, Paired, PairedKey, PairedTask, PairedSector, Programs, loader
<1> QED  BY <1>1, <1>2

\* While not all programs are attached, nothing is claimed of the times.
LEMMA NotPaired ==
  ASSUME UNCHANGED <<kind, loader>>, attached # Programs
  PROVE  Paired'
  BY DEF Paired, Programs, loader

\* A request is issued: it is the latest of its sector.
LEMMA SectorBegins ==
  ASSUME TraceInv, kind = "bio", UNCHANGED <<kind, loader>>, clock' = clock + 1, NEW k \in Keys,
         start' \in Updates(start, SectorOf[k], clock), waits' = [waits EXCEPT ![k] = clock]
  PROVE  StartTypes' /\ Paired'
<1>0. PICK s \in Keys : s = SectorOf[k]
  BY TracersAssumption DEF Keys
<1>1. \/ /\ DOMAIN start' = DOMAIN start \cup {s} /\ start'[s] = clock
         /\ \A i \in DOMAIN start : i # s => start'[i] = start[i]
      \/ s \notin DOMAIN start /\ start' = start
  BY <1>0 DEF Updates
<1>2. StartTypes'
  BY <1>1, Times DEF TraceInv, StartTypes
<1>3. waits'[k] = clock /\ \A i \in Keys : i # k => waits'[i] = waits[i]
  BY DEF TraceInv, KernelTypes
<1>4. ASSUME attached = Programs, NEW i \in DOMAIN start'
      PROVE  PairedKey(i)'
  <2>1. CASE i = s
    <3>1. start'[i] = clock /\ clock \in Nat
      BY <1>1, <2>1, Times
    <3>2. \A j \in Keys : waits'[j] = None \/ waits'[j] <= clock
      BY <1>3, Times DEF TraceInv, KernelTypes
    <3>3. PairedSector(i)'
      BY <1>0, <1>3, <2>1, <3>1, <3>2 DEF PairedSector
    <3> QED  BY <3>3 DEF PairedKey
  <2>2. CASE i # s
    <3>1. i \in DOMAIN start /\ start'[i] = start[i]
      BY <1>1, <2>2
    <3>2. PairedKey(i)
      BY <1>4, <3>1 DEF TraceInv, Paired
    <3>3. \A j \in Keys : SectorOf[j] = i => waits'[j] = waits[j]
      BY <1>0, <1>3, <2>2
    <3>4. PairedSector(i) => PairedSector(i)'
      BY <3>1, <3>3 DEF PairedSector
    <3> QED  BY <3>1, <3>2, <3>4 DEF PairedKey, loader
  <2> QED  BY <2>1, <2>2
<1>5. Paired'
  BY <1>4 DEF Paired, Programs, loader
<1> QED  BY <1>2, <1>5

\* A request is completed, and the time of its sector is gone.
LEMMA SectorEnds ==
  ASSUME TraceInv, kind = "bio", UNCHANGED <<kind, loader>>, clock' = clock + 1, NEW k \in Keys,
         IF SectorOf[k] \in DOMAIN start THEN start' = Delete(start, SectorOf[k]) ELSE start' = start,
         \A i \in Keys : waits'[i] = IF i = k THEN None ELSE waits[i]
  PROVE  StartTypes' /\ Paired'
<1>0. PICK s \in Keys : s = SectorOf[k]
  BY TracersAssumption DEF Keys
<1>1. /\ DOMAIN start' \subseteq DOMAIN start /\ s \notin DOMAIN start'
      /\ \A i \in DOMAIN start' : start'[i] = start[i]
  <2>1. CASE s \in DOMAIN start
    <3>1. DOMAIN start' = DOMAIN start \ {s} /\ \A i \in DOMAIN start' : start'[i] = start[i]
      BY <1>0, <2>1 DEF Delete
    <3> QED  BY <3>1
  <2>2. CASE s \notin DOMAIN start
    BY <1>0, <2>2
  <2> QED  BY <2>1, <2>2
<1>2. StartTypes'
  BY <1>1, Times DEF TraceInv, StartTypes
<1>3. ASSUME attached = Programs, NEW i \in DOMAIN start'
      PROVE  PairedKey(i)'
  <2>1. i \in DOMAIN start /\ start'[i] = start[i] /\ i # s
    BY <1>1
  <2>2. PairedKey(i)
    BY <1>3, <2>1 DEF TraceInv, Paired
  <2>3. \A j \in Keys : SectorOf[j] = i => waits'[j] = waits[j]
    BY <1>0, <2>1
  <2>4. PairedSector(i) => PairedSector(i)'
    BY <2>1, <2>3 DEF PairedSector
  <2> QED  BY <2>1, <2>2, <2>4 DEF PairedKey, loader
<1>4. Paired'
  BY <1>3 DEF Paired, Programs, loader
<1> QED  BY <1>2, <1>4

\* A new task gets a free element, or none.
LEMMA InsertFacts ==
  ASSUME TraceInv, NEW k \in Keys, k \notin DOMAIN agg, NEW n \in Nat, Insert(k, n)
  PROVE  \/ UNCHANGED <<agg, mem>>
         \/ \E e \in Elems :
              /\ \A i \in DOMAIN agg : agg[i] # e /\ agg'[i] = agg[i] /\ mem'[agg[i]] = mem[agg[i]]
              /\ DOMAIN agg' = DOMAIN agg \cup {k} /\ agg'[k] = e /\ mem'[e] = n
              /\ mem' = [mem EXCEPT ![e] = n]
<1>1. CASE UNCHANGED <<agg, mem>>
  BY <1>1
<1>2. ASSUME NEW e \in Free,
             agg' = [i \in DOMAIN agg \union {k} |-> IF i = k THEN e ELSE agg[i]],
             mem' = [mem EXCEPT ![e] = n]
      PROVE  /\ e \in Elems
             /\ \A i \in DOMAIN agg : agg[i] # e /\ agg'[i] = agg[i] /\ mem'[agg[i]] = mem[agg[i]]
             /\ DOMAIN agg' = DOMAIN agg \cup {k} /\ agg'[k] = e /\ mem'[e] = n
  <2>1. e \in Elems /\ e \notin Range(agg)
    BY DEF Free
  <2>2. \A i \in DOMAIN agg : agg[i] # e
    BY <2>1 DEF Range
  <2>3. mem \in [Elems -> Nat] /\ \A i \in DOMAIN agg : agg[i] \in Elems
    BY DEF TraceInv, AggTypes
  <2> QED  BY <1>2, <2>1, <2>2, <2>3
<1> QED  BY <1>1, <1>2 DEF Insert

\* The elements, once a task has got one.
LEMMA InsertTypes ==
  ASSUME TraceInv, NEW k \in Keys, k \notin DOMAIN agg, NEW n \in Nat, Insert(k, n),
         UNCHANGED <<hit, carried>>
  PROVE  AggTypes'
<1>1. CASE UNCHANGED <<agg, mem>>
  BY <1>1 DEF TraceInv, AggTypes
<1>2. CASE ~UNCHANGED <<agg, mem>>
  <2>1. PICK e \in Elems :
           /\ \A i \in DOMAIN agg : agg[i] # e /\ agg'[i] = agg[i] /\ mem'[agg[i]] = mem[agg[i]]
           /\ DOMAIN agg' = DOMAIN agg \cup {k} /\ agg'[k] = e /\ mem'[e] = n
           /\ mem' = [mem EXCEPT ![e] = n]
    BY <1>2, InsertFacts
  <2>2. mem' \in [Elems -> Nat]
    BY <2>1 DEF TraceInv, AggTypes
  <2>3. DOMAIN agg' \subseteq Keys /\ \A i \in DOMAIN agg' : agg'[i] \in Elems
    BY <2>1 DEF TraceInv, AggTypes
  <2>4. \A i, j \in DOMAIN agg' : agg'[i] = agg'[j] => i = j
    BY <2>1 DEF TraceInv, AggTypes
  <2> QED  BY <2>2, <2>3, <2>4 DEF TraceInv, AggTypes
<1> QED  BY <1>1, <1>2

\* A probe takes a pointer to the element of its task.
LEMMA PointerFacts ==
  ASSUME TraceInv, NEW k \in DOMAIN agg,
         hit' = [i \in DOMAIN hit \union {k} |->
                  IF i = k THEN [elem |-> agg[k], val |-> None] ELSE hit[i]]
  PROVE  /\ DOMAIN hit' = DOMAIN hit \cup {k} /\ k \in Keys
         /\ \A i \in DOMAIN hit' : hit'[i] \in [elem : Elems, val : Nat \cup {None}]
<1>1. agg[k] \in Elems /\ k \in Keys
  BY DEF TraceInv, AggTypes
<1>2. [elem |-> agg[k], val |-> None] \in [elem : Elems, val : Nat \cup {None}]
  BY <1>1
<1>3. \A i \in DOMAIN hit : hit[i] \in [elem : Elems, val : Nat \cup {None}]
  BY DEF TraceInv, AggTypes
<1> QED  BY <1>1, <1>2, <1>3

\* The counts of a task.
LEMMA CountStep ==
  ASSUME TraceInv, NEW k \in {0} \cup Keys, Count(k), UNCHANGED carried
  PROVE  AggTypes'
<1>1. CASE UNCHANGED <<agg, mem, hit>>
  BY <1>1 DEF TraceInv, AggTypes
<1>2. CASE k \in Keys /\ k \notin DOMAIN agg /\ Insert(k, 1) /\ UNCHANGED hit
  <2>1. 1 \in Nat
    OBVIOUS
  <2> QED  BY <1>2, <2>1, InsertTypes
<1>3. CASE /\ k \in DOMAIN agg /\ UNCHANGED <<agg, mem>>
           /\ hit' = [i \in DOMAIN hit \union {k} |->
                        IF i = k THEN [elem |-> agg[k], val |-> None] ELSE hit[i]]
  <2>1. /\ DOMAIN hit' = DOMAIN hit \cup {k} /\ k \in Keys
        /\ \A i \in DOMAIN hit' : hit'[i] \in [elem : Elems, val : Nat \cup {None}]
    BY <1>3, PointerFacts
  <2> QED  BY <1>3, <2>1 DEF TraceInv, AggTypes
<1> QED  BY <1>1, <1>2, <1>3 DEF Count

-----------------------------------------------------------------------------
(* The traced kernel and the probes *)

\* Time goes on and the map stays.
LEMMA StartSame ==
  ASSUME TraceInv, start' = start, clock' = clock + 1
  PROVE  StartTypes'
  BY Times DEF TraceInv, StartTypes

\* An event that reports no latency.
LEMMA RingSubmits ==
  ASSUME TraceInv, UNCHANGED <<kind, loader>>, clock' \in {clock, clock + 1},
         NEW type \in Reports, NEW prev \in {0} \cup Keys, NEW next \in {0} \cup Keys,
         ring' = ring \/ ring' = Submit(ring, Event(type, prev, next, 0, 0))
  PROVE  RingTypes' /\ LatencyTrue'
<1>1. CASE ring' = ring
  BY <1>1, RingSame
<1>2. CASE ring' = Submit(ring, Event(type, prev, next, 0, 0))
  <2>1. PICK e : e = Event(type, prev, next, 0, 0)
    BY Zenon
  <2>2. e \in Entry /\ e.at = clock /\ e.lat = 0
    <3>1. 0 \in Nat /\ 0 \in Int
      OBVIOUS
    <3>2. /\ Event(type, prev, next, 0, 0) \in Entry
          /\ Event(type, prev, next, 0, 0).at = clock /\ Event(type, prev, next, 0, 0).lat = 0
      BY <3>1, EventFacts
    <3> QED  BY <2>1, <3>2, Zenon
  <2>3. Extends(ring, ring', e)
    BY <1>2, <2>1, <2>2, SubmitFacts DEF TraceInv, KernelTypes, RingTypes
  <2>4. Good(e)
    BY <2>2 DEF Good, TrueOrZero
  <2> QED  BY <2>2, <2>3, <2>4, RingExtended
<1> QED  BY <1>1, <1>2

\* An event that reports the latency of a task or request, whose time is stored at s.
LEMMA RingReports ==
  ASSUME TraceInv, UNCHANGED <<kind, loader>>, clock' = clock + 1,
         NEW type \in Reports, NEW prev \in {0} \cup Keys, NEW next \in {0} \cup Keys,
         NEW s \in {0} \cup Keys,
         kind = "bio" => next # 0 /\ s = SectorOf[next], kind # "bio" => s = next,
         \/ ring' = ring
         \/ ring' = Submit(ring, Event(type, prev, next, Since(s), TrueWait(next)))
         \/ Room(ring) /\ ring' = Append(ring, Event(type, prev, next, Since(s), TrueWait(next)))
  PROVE  RingTypes' /\ LatencyTrue'
<1>1. CASE ring' = ring
  BY <1>1, RingSame
<1>2. CASE \/ ring' = Submit(ring, Event(type, prev, next, Since(s), TrueWait(next)))
           \/ /\ Room(ring)
              /\ ring' = Append(ring, Event(type, prev, next, Since(s), TrueWait(next)))
  <2>1. PICK e : e = Event(type, prev, next, Since(s), TrueWait(next))
    BY Zenon
  <2>2. /\ e \in Entry /\ e.at = clock /\ e.lat = Since(s) /\ e.true = TrueWait(next)
        /\ e.others = SharedTimes(next)
    <3>1. PICK l \in Nat, w \in Int : l = Since(s) /\ w = TrueWait(next)
      BY SinceFacts
    <3>2. e = Event(type, prev, next, l, w)
      BY <2>1, <3>1
    <3>3. /\ Event(type, prev, next, l, w) \in Entry /\ Event(type, prev, next, l, w).at = clock
          /\ Event(type, prev, next, l, w).lat = l /\ Event(type, prev, next, l, w).true = w
          /\ Event(type, prev, next, l, w).others = SharedTimes(next)
      BY EventFacts
    <3> QED  BY <3>1, <3>2, <3>3, Zenon
  <2>3. Extends(ring, ring', e)
    BY <1>2, <2>1, <2>2, SubmitFacts DEF TraceInv, KernelTypes, RingTypes
  <2>4. Read /\ since # None => Good(e)
    BY <2>2, ReportIsGood
  <2> QED  BY <2>2, <2>3, <2>4, RingExtended
<1> QED  BY <1>1, <1>2

\* A task is woken, perhaps while it still has the CPU.
LEMMA WakeupStep ==
  ASSUME TraceInv, NEW k \in Keys, Wakeup(k)
  PROVE  TraceInv'
<1>1. KernelTypes'
  BY Times DEF TraceInv, KernelTypes, Wakeup, Observed, counts
<1>2. UNCHANGED <<kind, loader, events, pulls, collects>> /\ clock' = clock + 1 /\ kind # "bio"
  BY DEF Wakeup
<1>3. StartTypes' /\ Paired'
  <2>1. CASE ~On("wakeup")
    <3>1. start' = start
      BY <2>1 DEF Wakeup, WakeupProbe
    <3>2. CASE kind = "offcpu"
      BY <1>2, <3>1, <3>2, WaitsSame DEF Wakeup
    <3>3. CASE kind # "offcpu"
      <4>1. attached # Programs
        BY <2>1, <3>3, AllOn DEF TraceInv, KernelTypes, Wakeup
      <4> QED  BY <1>2, <3>1, <4>1, StartSame, NotPaired
    <3> QED  BY <3>2, <3>3
  <2>2. CASE On("wakeup")
    <3>1. kind # "offcpu"
      BY <2>2, OffcpuOff DEF TraceInv, KernelTypes, LoaderTypes
    <3>2. start' \in Updates(start, k, clock) /\ waits' = [waits EXCEPT ![k] = clock]
      BY <2>2, <3>1 DEF Wakeup, WakeupProbe
    <3> QED  BY <1>2, <3>2, WaitBegins
  <2> QED  BY <2>1, <2>2
<1>4. RingTypes' /\ LatencyTrue'
  <2>1. ring' = ring \/ ring' = Submit(ring, Event("wakeup", cpu, k, 0, 0))
    BY DEF Wakeup, WakeupProbe
  <2>2. "wakeup" \in Reports /\ cpu \in {0} \cup Keys
    BY DEF Reports, TraceInv, KernelTypes
  <2> QED  BY <1>2, <2>1, <2>2, RingSubmits
<1>5. AggTypes'
  BY DEF TraceInv, AggTypes, Wakeup, counts
<1> QED  BY <1>1, <1>2, <1>3, <1>4, <1>5, SourceRests DEF TraceInv

\* A waiting task is moved to another CPU.
LEMMA MigrateStep ==
  ASSUME TraceInv, NEW k \in Keys, Migrate(k)
  PROVE  TraceInv'
<1>1. KernelTypes'
  BY Times DEF TraceInv, KernelTypes, Migrate, Observed
<1>2. UNCHANGED <<kind, loader, events, pulls, collects>> /\ clock' = clock + 1
  BY DEF Migrate
<1>3. StartTypes' /\ Paired'
  BY <1>2, WaitsSame DEF Migrate
<1>4. RingTypes' /\ LatencyTrue'
  <2>1. ring' = ring \/ ring' = Submit(ring, Event("migrate", k, k, 0, 0))
    BY DEF Migrate
  <2>2. "migrate" \in Reports /\ k \in {0} \cup Keys
    BY DEF Reports
  <2> QED  BY <1>2, <2>1, <2>2, RingSubmits
<1>5. AggTypes'
  <2>1. CASE UNCHANGED <<agg, mem>>
    BY <2>1 DEF TraceInv, AggTypes, Migrate
  <2>2. CASE k \notin DOMAIN agg /\ Insert(k, 0)
    <3>1. 0 \in Nat /\ UNCHANGED <<hit, carried>>
      BY DEF Migrate
    <3> QED  BY <2>2, <3>1, InsertTypes
  <2> QED  BY <2>1, <2>2 DEF Migrate
<1> QED  BY <1>1, <1>2, <1>3, <1>4, <1>5, SourceRests DEF TraceInv

\* The tid of an exited task is used again.
LEMMA ForkStep ==
  ASSUME TraceInv, NEW k \in Keys, Fork(k)
  PROVE  TraceInv'
<1>1. KernelTypes'
  BY DEF TraceInv, KernelTypes, Fork, probes
<1>2. UNCHANGED <<kind, loader, events, pulls, collects, start, waits, ring>> /\ clock' = clock
  BY DEF Fork, probes
<1>3. StartTypes' /\ Paired'
  BY <1>2, WaitsSame
<1>4. RingTypes' /\ LatencyTrue'
  BY <1>2, RingSame
<1>5. AggTypes'
  BY DEF TraceInv, AggTypes, Fork, probes
<1> QED  BY <1>1, <1>2, <1>3, <1>4, <1>5, SourceRests DEF TraceInv

\* A request is issued.
LEMMA IssueStep ==
  ASSUME TraceInv, NEW k \in Keys, Issue(k)
  PROVE  TraceInv'
<1>1. KernelTypes'
  BY Times DEF TraceInv, KernelTypes, Issue, Observed, counts
<1>2. UNCHANGED <<kind, loader, events, pulls, collects>> /\ clock' = clock + 1 /\ kind = "bio"
  BY DEF Issue
<1>3. StartTypes' /\ Paired'
  <2>1. CASE ~On("issue")
    <3>1. attached # Programs
      BY <1>2, <2>1, AllOn DEF TraceInv, KernelTypes
    <3>2. start' = start
      BY <2>1 DEF Issue
    <3> QED  BY <1>2, <3>1, <3>2, StartSame, NotPaired
  <2>2. CASE On("issue")
    <3>1. start' \in Updates(start, SectorOf[k], clock) /\ waits' = [waits EXCEPT ![k] = clock]
      BY <2>2 DEF Issue
    <3> QED  BY <1>2, <3>1, SectorBegins
  <2> QED  BY <2>1, <2>2
<1>4. RingTypes' /\ LatencyTrue'
  BY <1>2, RingSame DEF Issue
<1>5. AggTypes'
  BY DEF TraceInv, AggTypes, Issue, counts
<1> QED  BY <1>1, <1>2, <1>3, <1>4, <1>5, SourceRests DEF TraceInv

\* A request is completed.
LEMMA CompleteStep ==
  ASSUME TraceInv, NEW k \in Keys, Complete(k)
  PROVE  TraceInv'
<1>1. KernelTypes'
  BY Times DEF TraceInv, KernelTypes, Complete, Observed, counts
<1>2. UNCHANGED <<kind, loader, events, pulls, collects>> /\ clock' = clock + 1 /\ kind = "bio"
  BY DEF Complete
<1>3. \A i \in Keys : waits'[i] = IF i = k THEN None ELSE waits[i]
  BY DEF Complete, TraceInv, KernelTypes
<1>4. PICK s \in Keys : s = SectorOf[k]
  BY TracersAssumption DEF Keys
<1>5. /\ ~On("complete") => UNCHANGED <<start, ring>>
      /\ On("complete") => IF s \in DOMAIN start THEN start' = Delete(start, s) ELSE start' = start
      /\ ring' = ring \/ ring' = Submit(ring, Event("bio", 0, k, Since(s), TrueWait(k)))
  BY <1>4 DEF Complete, CompleteProbe
<1>6. StartTypes' /\ Paired'
  <2>1. CASE ~On("complete")
    <3>1. attached # Programs
      BY <1>2, <2>1, AllOn DEF TraceInv, KernelTypes
    <3>2. start' = start
      BY <1>5, <2>1
    <3> QED  BY <1>2, <3>1, <3>2, StartSame, NotPaired
  <2>2. CASE On("complete")
    <3>1. IF SectorOf[k] \in DOMAIN start THEN start' = Delete(start, SectorOf[k]) ELSE start' = start
      BY <1>4, <1>5, <2>2
    <3> QED  BY <1>2, <1>3, <3>1, SectorEnds
  <2> QED  BY <2>1, <2>2
<1>7. RingTypes' /\ LatencyTrue'
  <2>1. "bio" \in Reports /\ k \in {0} \cup Keys /\ 0 \in {0} \cup Keys /\ s \in {0} \cup Keys /\ k # 0
    BY DEF Reports, Keys
  <2> QED  BY <1>2, <1>4, <1>5, <2>1, RingReports
<1>8. AggTypes'
  BY DEF TraceInv, AggTypes, Complete, counts
<1> QED  BY <1>1, <1>2, <1>6, <1>7, <1>8, SourceRests DEF TraceInv

\* An event that is not followed.
LEMMA LaterStep ==
  ASSUME TraceInv, Later
  PROVE  TraceInv'
<1>1. /\ UNCHANGED <<kind, world, start, counts, loader, events, pulls, collects>> /\ clock' = clock
      /\ ring' = Submit(ring, Event("later", 0, 0, 0, 0))
  BY DEF Later, world
<1>2. KernelTypes' /\ AggTypes'
  BY <1>1 DEF TraceInv, KernelTypes, AggTypes, world, counts
<1>3. StartTypes' /\ Paired'
  BY <1>1, WaitsSame DEF world
<1>4. RingTypes' /\ LatencyTrue'
  <2>1. "later" \in Reports /\ 0 \in {0} \cup Keys
    BY DEF Reports
  <2> QED  BY <1>1, <2>1, RingSubmits
<1> QED  BY <1>1, <1>2, <1>3, <1>4, SourceRests DEF TraceInv

-----------------------------------------------------------------------------
(* The counts of sched_analyzer *)

\* A probe that adds to a count does nothing else.
LEMMA AdditionRests ==
  ASSUME TraceInv, HitRest, AggTypes'
  PROVE  TraceInv'
<1>1. UNCHANGED <<kind, world, start, ring, agg, switches, loader, events, pulls, collects>>
  BY DEF HitRest
<1>2. KernelTypes'
  BY <1>1 DEF TraceInv, KernelTypes, world
<1>3. StartTypes' /\ Paired'
  BY <1>1, WaitsSame DEF world
<1>4. RingTypes' /\ LatencyTrue'
  BY <1>1, RingSame DEF world
<1> QED  BY <1>1, <1>2, <1>3, <1>4, SourceRests DEF TraceInv

\* It loads the count ...
LEMMA LoadCountStep ==
  ASSUME TraceInv, NEW k \in Keys, LoadCount(k)
  PROVE  TraceInv'
<1>1. /\ k \in DOMAIN hit /\ UNCHANGED <<agg, mem, carried>> /\ HitRest
      /\ hit' = [hit EXCEPT ![k].val = mem[hit[k].elem]]
  BY DEF LoadCount, HitRest
<1>2. hit[k] \in [elem : Elems, val : Nat \cup {None}] /\ mem[hit[k].elem] \in Nat
  BY <1>1 DEF TraceInv, AggTypes
<1>3. PICK h : h = [elem |-> hit[k].elem, val |-> mem[hit[k].elem]]
  OBVIOUS
<1>4. h \in [elem : Elems, val : Nat \cup {None}]
  BY <1>2, <1>3
<1>5. DOMAIN hit' = DOMAIN hit /\ \A i \in DOMAIN hit : i # k => hit'[i] = hit[i]
  BY <1>1
<1>6. hit'[k] = h
  BY <1>1, <1>2, <1>3
<1>7. AggTypes'
  BY <1>1, <1>4, <1>5, <1>6 DEF TraceInv, AggTypes
<1> QED  BY <1>1, <1>7, AdditionRests

\* ... and stores one more, into whatever the element is by now.
LEMMA StoreCountStep ==
  ASSUME TraceInv, NEW k \in Keys, StoreCount(k)
  PROVE  TraceInv'
<1>1. PICK e \in Elems, v \in Nat : e = hit[k].elem /\ v = hit[k].val
  <2>1. hit[k] \in [elem : Elems, val : Nat \cup {None}] /\ hit[k].val # None
    BY DEF StoreCount, TraceInv, AggTypes
  <2> QED  BY <2>1
<1>2. /\ UNCHANGED agg /\ HitRest
      /\ hit' = Delete(hit, k) /\ mem' = [mem EXCEPT ![e] = v + 1]
      /\ carried' = IF e \in Range(agg) /\ v > mem[e] THEN carried + (v - mem[e]) ELSE carried
  BY <1>1 DEF StoreCount, HitRest
<1>3. mem[e] \in Nat /\ mem' \in [Elems -> Nat]
  BY <1>1, <1>2 DEF TraceInv, AggTypes
<1>4. carried' \in Nat
  <2>1. carried \in Nat
    BY DEF TraceInv, AggTypes
  <2>2. CASE e \in Range(agg) /\ v > mem[e]
    BY <1>2, <1>3, <2>1, <2>2
  <2>3. CASE ~(e \in Range(agg) /\ v > mem[e])
    BY <1>2, <2>1, <2>3
  <2> QED  BY <2>2, <2>3
<1>5. DOMAIN hit' \subseteq DOMAIN hit /\ \A i \in DOMAIN hit' : hit'[i] = hit[i]
  BY <1>2 DEF Delete
<1>6. AggTypes'
  BY <1>2, <1>3, <1>4, <1>5 DEF TraceInv, AggTypes
<1> QED  BY <1>2, <1>6, AdditionRests

\* One of the CPUs switches to a task whose latencies are not followed.
LEMMA SwitchToStep ==
  ASSUME TraceInv, NEW k \in Keys, SwitchTo(k)
  PROVE  TraceInv'
<1>1. /\ UNCHANGED <<kind, phase, cpu, waits, loader, events, pulls, collects>>
      /\ clock' = clock + 1 /\ kind = "aggregate" /\ clock < MaxTime[kind]
  BY DEF SwitchTo, Observed
<1>2. k \in {0} \cup Keys
  OBVIOUS
<1>3. /\ switches' \in {switches, switches + 1}
      /\ start' = start \/ start' = Delete(start, k)
      /\ ring' = ring \/ ring' = Submit(ring, Event("switch", 0, k, Since(k), TrueWait(k)))
  BY <1>1 DEF SwitchTo, AnalyzerSwitch, probes
<1>4. KernelTypes'
  BY <1>1, <1>3, Times DEF TraceInv, KernelTypes
<1>5. /\ DOMAIN start' \subseteq DOMAIN start
      /\ \A i \in DOMAIN start' : start'[i] = start[i]
  BY <1>3 DEF Delete
<1>6. StartTypes'
  BY <1>1, <1>5, Times DEF TraceInv, StartTypes
<1>7. Paired'
  <2>1. ASSUME attached = Programs, NEW i \in DOMAIN start'
        PROVE  PairedKey(i)'
    <3>1. i \in DOMAIN start /\ start'[i] = start[i] /\ PairedKey(i)
      BY <1>5, <2>1 DEF TraceInv, Paired
    <3> QED  BY <1>1, <3>1 DEF PairedKey, PairedTask, loader
  <2> QED  BY <1>1, <2>1 DEF Paired, Programs, loader
<1>8. RingTypes' /\ LatencyTrue'
  <2>1. ring' = ring
    BY <1>1 DEF SwitchTo, AnalyzerSwitch, probes
  <2> QED  BY <1>1, <2>1, RingSame
<1>9. AggTypes'
  <2>1. CASE UNCHANGED probes
    BY <2>1 DEF TraceInv, AggTypes, probes
  <2>2. CASE Count(k) /\ UNCHANGED carried
    BY <1>2, <2>2, CountStep
  <2> QED  BY <2>1, <2>2 DEF SwitchTo, AnalyzerSwitch
<1> QED  BY <1>1, <1>4, <1>6, <1>7, <1>8, <1>9, SourceRests DEF TraceInv

-----------------------------------------------------------------------------
(* The context switch *)

\* The clock, the tasks and their waits.
LEMMA SwitchKernel ==
  ASSUME TraceInv, NEW next \in {0} \cup Keys, NEW becomes \in {"sleep", "ready", "dead"},
         Switch(next, becomes)
  PROVE  /\ KernelTypes' /\ clock' = clock + 1 /\ next # cpu
         /\ UNCHANGED <<kind, loader, events, pulls, collects>>
         /\ \A k \in Keys : waits'[k] = IF k = next THEN None
                                        ELSE IF k = cpu /\ kind = "offcpu" THEN clock ELSE waits[k]
<1>1. clock' = clock + 1 /\ next # cpu /\ UNCHANGED <<kind, loader, events, pulls, collects>>
  BY DEF Switch
<1>2. \A k \in Keys : waits'[k] = IF k = next THEN None
                                  ELSE IF k = cpu /\ kind = "offcpu" THEN clock ELSE waits[k]
  BY DEF Switch
<1>3. switches' \in 0..clock'
  <2>1. switches' = switches \/ switches' = switches + 1
    BY DEF Switch, TracerSwitch, AnalyzerSwitch, OffcpuSwitch, probes, counts
  <2> QED  BY <1>1, <2>1, Times DEF TraceInv, KernelTypes
<1>4. clock' \in 0..MaxTime[kind] /\ cpu' \in {0} \cup Keys
  BY <1>1, Times DEF Switch, Observed
<1>5. phase' \in [Keys -> {"sleep", "ready", "run", "dead"}]
  BY DEF Switch, TraceInv, KernelTypes
<1>6. waits' \in [Keys -> 0..MaxTime[kind] \cup {None}]
  BY Times DEF Switch, TraceInv, KernelTypes
<1>7. \A k \in Keys : waits'[k] = None \/ waits'[k] < clock'
  BY <1>1, <1>2, Times DEF TraceInv, KernelTypes
<1> QED  BY <1>1, <1>2, <1>3, <1>4, <1>5, <1>6, <1>7 DEF KernelTypes, TraceInv

\* sched_tracer's probe.
LEMMA TracerSwitchStep ==
  ASSUME TraceInv, NEW next \in {0} \cup Keys, NEW becomes \in {"sleep", "ready", "dead"},
         Switch(next, becomes), kind = "tracer", TracerSwitch(cpu, next)
  PROVE  TraceInv'
<1>1. KernelTypes' /\ UNCHANGED <<kind, loader, events, pulls, collects>> /\ clock' = clock + 1
  BY SwitchKernel
<1>2. \A k \in Keys : waits'[k] = IF k = next THEN None ELSE waits[k]
  BY SwitchKernel
<1>3. StartTypes' /\ Paired'
  <2>1. start' = Delete(start, next) \/ (kind = "tracer" /\ start' = start)
    BY DEF TracerSwitch
  <2> QED  BY <1>1, <1>2, <2>1, WaitEnds
<1>4. RingTypes' /\ LatencyTrue'
  <2>1. \/ ring' = ring
        \/ /\ Room(ring)
           /\ ring' = Append(ring, Event("switch", cpu, next, Since(next), TrueWait(next)))
    BY DEF TracerSwitch
  <2>2. "switch" \in Reports /\ cpu \in {0} \cup Keys
    BY DEF Reports, TraceInv, KernelTypes
  <2> QED  BY <1>1, <2>1, <2>2, RingReports
<1>5. AggTypes'
  BY DEF TraceInv, AggTypes, TracerSwitch, counts
<1> QED  BY <1>1, <1>3, <1>4, <1>5, SourceRests DEF TraceInv

\* sched_analyzer's probe in its detailed mode.
LEMMA AnalyzerSwitchStep ==
  ASSUME TraceInv, NEW next \in {0} \cup Keys, NEW becomes \in {"sleep", "ready", "dead"},
         Switch(next, becomes), kind = "detailed", AnalyzerSwitch(cpu, next)
  PROVE  TraceInv'
<1>1. KernelTypes' /\ UNCHANGED <<kind, loader, events, pulls, collects>> /\ clock' = clock + 1
  BY SwitchKernel
<1>2. \A k \in Keys : waits'[k] = IF k = next THEN None ELSE waits[k]
  BY SwitchKernel
<1>3. StartTypes' /\ Paired'
  <2>1. start' = Delete(start, next)
    BY DEF AnalyzerSwitch
  <2> QED  BY <1>1, <1>2, <2>1, WaitEnds
<1>4. RingTypes' /\ LatencyTrue'
  <2>1. \/ ring' = ring
        \/ ring' = Submit(ring, Event("switch", cpu, next, Since(next), TrueWait(next)))
    BY DEF AnalyzerSwitch
  <2>2. "switch" \in Reports /\ cpu \in {0} \cup Keys
    BY DEF Reports, TraceInv, KernelTypes
  <2> QED  BY <1>1, <2>1, <2>2, RingReports
<1>5. AggTypes'
  BY CountStep DEF AnalyzerSwitch
<1> QED  BY <1>1, <1>3, <1>4, <1>5, SourceRests DEF TraceInv

\* The off-CPU profiler's probe: one wait begins and another ends.
LEMMA OffcpuSwitchStep ==
  ASSUME TraceInv, NEW next \in {0} \cup Keys, NEW becomes \in {"sleep", "ready", "dead"},
         Switch(next, becomes), kind = "offcpu", OffcpuSwitch(cpu, next)
  PROVE  TraceInv'
<1>1. /\ KernelTypes' /\ UNCHANGED <<kind, loader, events, pulls, collects>>
      /\ clock' = clock + 1 /\ next # cpu
  BY SwitchKernel
<1>2. \A k \in Keys : waits'[k] = IF k = next THEN None ELSE IF k = cpu THEN clock ELSE waits[k]
  BY SwitchKernel
<1>3. PICK left \in IF cpu = 0 THEN {start} ELSE Updates(start, cpu, clock) :
         /\ start' = Delete(left, next)
         /\ ring' = IF next \notin DOMAIN left \/ clock - left[next] < MinDuration THEN ring
                    ELSE Submit(ring, Event("offcpu", 0, next, clock - left[next], TrueWait(next)))
  BY DEF OffcpuSwitch
<1>4. /\ DOMAIN left \subseteq DOMAIN start \cup {cpu} /\ (cpu \in DOMAIN left => cpu # 0)
      /\ \A i \in DOMAIN left : i # cpu => i \in DOMAIN start /\ left[i] = start[i]
      /\ cpu \in DOMAIN left => left[cpu] = clock
  <2>1. 0 \notin DOMAIN start
    BY DEF TraceInv, StartTypes, Keys
  <2>2. CASE cpu = 0
    BY <1>3, <2>1, <2>2
  <2>3. CASE cpu # 0
    <3>1. left \in Updates(start, cpu, clock)
      BY <1>3, <2>3
    <3>2. \/ /\ DOMAIN left = DOMAIN start \cup {cpu} /\ left[cpu] = clock
             /\ \A i \in DOMAIN start : i # cpu => left[i] = start[i]
          \/ cpu \notin DOMAIN start /\ left = start
      BY <3>1 DEF Updates
    <3> QED  BY <2>3, <3>2
  <2> QED  BY <2>2, <2>3
<1>5. next \in DOMAIN left => next \in DOMAIN start /\ left[next] = start[next]
  BY <1>1, <1>4
<1>6. /\ DOMAIN start' = DOMAIN left \ {next}
      /\ \A i \in DOMAIN start' : start'[i] = left[i]
  BY <1>3 DEF Delete
<1>7. StartTypes'
  BY <1>1, <1>4, <1>6, Times DEF TraceInv, StartTypes, KernelTypes
<1>8. Paired'
  <2>1. ASSUME attached = Programs, NEW i \in DOMAIN start'
        PROVE  PairedKey(i)'
    <3>1. CASE i = cpu
      <4>1. i \in Keys /\ start'[i] = clock /\ i # next
        BY <1>4, <1>6, <3>1 DEF TraceInv, KernelTypes
      <4> QED  BY <1>1, <1>2, <3>1, <4>1 DEF PairedKey, PairedTask
    <3>2. CASE i # cpu
      <4>1. i \in DOMAIN start /\ i \in Keys /\ start'[i] = start[i] /\ i # next
        BY <1>4, <1>6, <3>2 DEF TraceInv, StartTypes
      <4>2. PairedKey(i)
        BY <2>1, <4>1 DEF TraceInv, Paired
      <4> QED  BY <1>1, <1>2, <3>2, <4>1, <4>2 DEF PairedKey, PairedTask, loader
    <3> QED  BY <3>1, <3>2
  <2> QED  BY <1>1, <2>1 DEF Paired, Programs, loader
<1>9. RingTypes' /\ LatencyTrue'
  <2>1. \/ ring' = ring
        \/ ring' = Submit(ring, Event("offcpu", 0, next, Since(next), TrueWait(next)))
    BY <1>3, <1>5 DEF Since
  <2>2. "offcpu" \in Reports /\ 0 \in {0} \cup Keys
    BY DEF Reports
  <2> QED  BY <1>1, <2>1, <2>2, RingReports
<1>10. AggTypes'
  BY DEF TraceInv, AggTypes, OffcpuSwitch, counts
<1> QED  BY <1>1, <1>7, <1>8, <1>9, <1>10, SourceRests DEF TraceInv

\* A switch that no probe sees.
LEMMA UnseenSwitchStep ==
  ASSUME TraceInv, NEW next \in {0} \cup Keys, NEW becomes \in {"sleep", "ready", "dead"},
         Switch(next, becomes), ~On("switch")
  PROVE  TraceInv'
<1>1. KernelTypes' /\ UNCHANGED <<kind, loader, events, pulls, collects>> /\ clock' = clock + 1
  BY SwitchKernel
<1>2. UNCHANGED probes /\ kind # "bio"
  BY DEF Switch
<1>3. attached # Programs
  BY <1>2, AllOn DEF TraceInv, KernelTypes
<1>4. StartTypes' /\ Paired'
  BY <1>1, <1>2, <1>3, StartSame, NotPaired DEF probes
<1>5. RingTypes' /\ LatencyTrue'
  BY <1>1, <1>2, RingSame DEF probes
<1>6. AggTypes'
  BY <1>2 DEF TraceInv, AggTypes, probes
<1> QED  BY <1>1, <1>4, <1>5, <1>6, SourceRests DEF TraceInv

\* The CPU goes to another task.
LEMMA SwitchStep ==
  ASSUME TraceInv, NEW next \in {0} \cup Keys, NEW becomes \in {"sleep", "ready", "dead"},
         Switch(next, becomes)
  PROVE  TraceInv'
<1>1. CASE ~On("switch")
  BY <1>1, UnseenSwitchStep
<1>2. CASE On("switch")
  <2>1. \/ kind = "tracer" /\ TracerSwitch(cpu, next)
        \/ kind = "detailed" /\ AnalyzerSwitch(cpu, next)
        \/ kind = "offcpu" /\ OffcpuSwitch(cpu, next)
    BY <1>2 DEF Switch
  <2> QED  BY <2>1, TracerSwitchStep, AnalyzerSwitchStep, OffcpuSwitchStep
<1> QED  BY <1>1, <1>2

-----------------------------------------------------------------------------
(* Start and Stop *)

\* The source starts or stops while no kernel event happens.
LEMMA ProbesRest ==
  ASSUME TraceInv, UNCHANGED <<kind, world, probes>>
  PROVE  KernelTypes' /\ StartTypes' /\ RingTypes' /\ AggTypes'
<1> USE DEF TraceInv, world, probes
<1>1. KernelTypes'
  BY DEF KernelTypes
<1>2. StartTypes'
  BY DEF StartTypes
<1>3. RingTypes'
  BY DEF RingTypes
<1>4. AggTypes'
  BY DEF AggTypes
<1> QED  BY <1>1, <1>2, <1>3, <1>4

\* Nobody collects.
LEMMA PullsRest ==
  ASSUME TraceInv, UNCHANGED pulls
  PROVE  PullTypes'
  BY DEF TraceInv, PullTypes, pulls

\* The events of the source stay where they are.
LEMMA EventsRest ==
  ASSUME TraceInv, UNCHANGED <<cache, handled, taken, recent, collects>>,
         poll' \in {"none", "check", "poll", "done"}
  PROVE  EventTypes'
  BY DEF TraceInv, EventTypes

\* Nothing is claimed anew of the events in the ring buffer.
LEMMA LatencyRests ==
  ASSUME TraceInv, UNCHANGED <<kind, ring, since>>, Read' => Read \/ since = None
  PROVE  LatencyTrue'
<1>1. CASE since = None
  BY <1>1 DEF LatencyTrue, Leftover
<1>2. CASE since # None
  BY <1>2 DEF TraceInv, LatencyTrue, Leftover, TrueOrZero, Replaced
<1> QED  BY <1>1, <1>2

\* Nothing is claimed anew of the times.
LEMMA PairedRests ==
  ASSUME TraceInv, UNCHANGED <<kind, start, waits, since>>,
         attached' = attached \/ attached' # Programs
  PROVE  Paired'
  BY DEF TraceInv, Paired, PairedKey, PairedTask, PairedSector, Programs

\* LoadObject, or no path.
LEMMA StartLoadStep ==
  ASSUME TraceInv, StartLoad
  PROVE  TraceInv'
<1>1. UNCHANGED <<kind, world, probes, events, pulls, collects, attached, since, running, ringBuf>>
  BY DEF StartLoad, LoaderRest
<1>2. life = "init" /\ life' \in {"attach", "stub", "failed"} /\ faults' \in 0..MaxFaults[kind]
  BY FaultBounds DEF StartLoad, Go, Fail, TraceInv, KernelTypes, LoaderTypes
<1>3. since = None /\ attached = <<>>
  BY <1>2 DEF TraceInv, Loading
<1>4. LoaderTypes'
  BY <1>1, <1>2, TriesFacts DEF TraceInv, LoaderTypes, Lives, Programs
<1>5. Loading'
  <2>1. Len(attached) = 0 /\ Len(Programs) \in 1..3 /\ Programs' = Programs
    BY <1>1, <1>3, ProgramsFacts DEF TraceInv, KernelTypes, Programs
  <2> QED  BY <1>1, <1>2, <1>3, <2>1, TriesFacts DEF TraceInv, Loading
<1>6. LatencyTrue' /\ Paired'
  BY <1>1, <1>3, LatencyRests, PairedRests DEF probes, world
<1>7. EventTypes' /\ Polled'
  BY <1>1, EventsRest DEF events, TraceInv, EventTypes, Polled
<1> QED  BY <1>1, <1>4, <1>5, <1>6, <1>7, ProbesRest, PullsRest DEF TraceInv

\* One program is attached, or skipped.  With the last of them the times and events
\* of the past become leftovers.
LEMMA StartAttachStep ==
  ASSUME TraceInv, StartAttach
  PROVE  TraceInv'
<1>1. UNCHANGED <<kind, world, probes, events, pulls, collects, running, ringBuf>>
  BY DEF StartAttach, LoaderRest
<1>2. faults' \in 0..MaxFaults[kind]
  BY FaultBounds DEF StartAttach, Fail, TraceInv, KernelTypes, LoaderTypes
<1>3. PICK n \in 0..2 : n = Tries[life]
  BY TriesFacts DEF StartAttach
<1>4. /\ Len(attached) <= n /\ n < Len(Programs) /\ since = None
      /\ Programs \in Seq(Probes) /\ Len(Programs) \in 1..3 /\ Programs' = Programs
  BY <1>1, <1>3, ProgramsFacts DEF TraceInv, KernelTypes, Loading, StartAttach, Programs
<1>5. PICK p : p = Programs[n + 1]
  BY Zenon
<1>6. p \in Probes /\ p \in ToSet(Programs)
  BY <1>4, <1>5 DEF ToSet
<1>7. attached' = Append(attached, p) \/ attached' = attached
  BY <1>3, <1>5 DEF StartAttach
<1>8. attached' \in Seq(Probes) /\ Len(attached') <= n + 1 /\ ToSet(attached') \subseteq ToSet(Programs)
  <2>1. attached \in Seq(Probes) /\ ToSet(attached) \subseteq ToSet(Programs)
    BY DEF TraceInv, LoaderTypes
  <2>2. CASE attached' = attached
    BY <1>4, <2>1, <2>2
  <2>3. CASE attached' = Append(attached, p)
    <3>1. attached' \in Seq(Probes) /\ Len(attached') = Len(attached) + 1
      BY <1>6, <2>1, <2>3
    <3>2. \A i \in DOMAIN attached' : (i \in DOMAIN attached /\ attached'[i] = attached[i]) \/ attached'[i] = p
      BY <1>6, <2>1, <2>3
    <3>3. ToSet(attached') \subseteq ToSet(Programs)
      BY <1>6, <2>1, <3>2 DEF ToSet
    <3> QED  BY <1>4, <2>1, <3>1, <3>3
  <2> QED  BY <1>7, <2>2, <2>3
<1>9. CASE n + 1 < Len(Programs)
  <2>1. since' = None /\ life' = Attached(n + 1)
    BY <1>3, <1>4, <1>9 DEF StartAttach, Go
  <2>2. life' \in DOMAIN Tries /\ Tries[life'] = n + 1 /\ life' # "init"
    <3>1. n + 1 = 1 \/ n + 1 = 2
      <4>1. PICK l \in 1..3 : l = Len(Programs)
        BY <1>4
      <4>2. n = 0 \/ n = 1 \/ n = 2
        OBVIOUS
      <4>3. n # 2
        BY <1>9, <4>1
      <4> QED  BY <4>2, <4>3
    <3>2. \/ Attached(n + 1) = "attach1" /\ n + 1 = 1
          \/ Attached(n + 1) = "attach2" /\ n + 1 = 2
      BY <3>1, TriesFacts, Zenon
    <3> QED  BY <2>1, <3>2, TriesFacts
  <2>3. attached' # Programs
    BY <1>8, <1>9
  <2>4. LoaderTypes'
    BY <1>1, <1>2, <1>4, <1>8, <2>1, <2>2 DEF TraceInv, LoaderTypes, Lives
  <2>5. Loading'
    BY <1>4, <1>8, <1>9, <2>1, <2>2, <2>3 DEF Loading
  <2>6. LatencyTrue' /\ Paired'
    BY <1>4, <2>1, <2>3 DEF LatencyTrue, Leftover, Paired
  <2>7. EventTypes' /\ Polled'
    BY <1>1, EventsRest DEF events, TraceInv, EventTypes, Polled
  <2> QED  BY <1>1, <2>4, <2>5, <2>6, <2>7, ProbesRest, PullsRest DEF TraceInv
<1>10. CASE n + 1 = Len(Programs)
  <2>1. /\ since' = IF attached' = Programs THEN clock ELSE None
        /\ life' \in {"failed", "open"}
    BY <1>3, <1>4, <1>10 DEF StartAttach, Go
  <2>2. life' \notin DOMAIN Tries /\ clock # None
    BY <2>1, TriesFacts, Times, TracersAssumption
  <2>3. LoaderTypes'
    BY <1>1, <1>2, <1>4, <1>8, <2>1, Times DEF TraceInv, LoaderTypes, Lives, world
  <2>4. Loading'
    BY <1>4, <1>8, <1>10, <2>1, <2>2 DEF Loading
  <2>5. LatencyTrue'
    <3>1. CASE since' = None
      BY <3>1 DEF LatencyTrue, Leftover
    <3>2. CASE since' = clock
      <4>1. \A x \in Entry : x.at \in Nat /\ x.lat \in Nat
        BY DEF Entry
      <4>2. \A i \in DOMAIN ring : ring[i] \in Entry /\ ring[i].at <= clock
        BY DEF TraceInv, RingTypes
      <4>3. \A i \in DOMAIN ring : ring[i].lat = 0 \/ ring[i].at - ring[i].lat < clock
        BY <4>1, <4>2, Times
      <4> QED  BY <1>1, <3>2, <4>3 DEF LatencyTrue, Leftover, TrueOrZero, probes
    <3> QED  BY <2>1, <3>1, <3>2
  <2>6. Paired'
    BY <1>1, <1>4, <2>1 DEF TraceInv, StartTypes, Paired, PairedKey, probes
  <2>7. EventTypes' /\ Polled'
    BY <1>1, EventsRest DEF events, TraceInv, EventTypes, Polled
  <2> QED  BY <1>1, <2>3, <2>4, <2>5, <2>6, <2>7, ProbesRest, PullsRest DEF TraceInv
<1> QED  BY <1>4, <1>9, <1>10

\* The ring buffer and the poll thread, or nothing in pull mode.
LEMMA StartOpenStep ==
  ASSUME TraceInv, StartOpen
  PROVE  TraceInv'
<1>1. UNCHANGED <<kind, world, probes, pulls, collects, attached, since, cache, handled, taken, recent>>
  BY DEF StartOpen
<1>2. life = "open" /\ life' \in {"running", "failed"} /\ faults' \in 0..MaxFaults[kind]
  BY FaultBounds DEF StartOpen, Go, Fail, TraceInv, KernelTypes, LoaderTypes
<1>3. LoaderTypes'
  <2>1. running' \in BOOLEAN /\ ringBuf' \in {"null", "open"}
    BY DEF StartOpen, TraceInv, LoaderTypes
  <2> QED  BY <1>1, <1>2, <2>1 DEF TraceInv, LoaderTypes, Lives, Programs
<1>4. Loading'
  BY <1>1, <1>2, TriesFacts DEF TraceInv, Loading, Read, Programs
<1>5. LatencyTrue' /\ Paired'
  BY <1>1, <1>2, LatencyRests, PairedRests DEF probes, world, Read
<1>6. EventTypes'
  <2>1. poll' \in {"none", "check", "poll", "done"}
    BY DEF StartOpen, TraceInv, EventTypes
  <2> QED  BY <1>1, <2>1, EventsRest
<1>7. Polled'
  BY DEF StartOpen, TraceInv, Polled
<1> QED  BY <1>1, <1>3, <1>4, <1>5, <1>6, <1>7, ProbesRest, PullsRest DEF TraceInv

\* running_ is reset.
LEMMA StopBeginStep ==
  ASSUME TraceInv, StopBegin
  PROVE  TraceInv'
<1>1. UNCHANGED <<kind, world, probes, events, pulls, collects, attached, since, ringBuf, faults>>
  BY DEF StopBegin, LoaderRest
<1>2. life \in {"running", "stub"} /\ life' = "join" /\ running' = FALSE
  BY DEF StopBegin, Go
<1>3. LoaderTypes'
  BY <1>1, <1>2 DEF TraceInv, LoaderTypes, Lives, Programs
<1>4. Loading'
  BY <1>1, <1>2, TriesFacts DEF TraceInv, Loading, Read, Programs
<1>5. LatencyTrue' /\ Paired'
  <2>1. Read \/ since = None
    BY <1>2 DEF Read, TraceInv, Loading
  <2> QED  BY <1>1, <2>1, LatencyRests, PairedRests DEF probes, world
<1>6. EventTypes' /\ Polled'
  BY <1>1, EventsRest DEF events, TraceInv, EventTypes, Polled
<1> QED  BY <1>1, <1>3, <1>4, <1>5, <1>6, ProbesRest, PullsRest DEF TraceInv

\* The poll thread has ended and the ring buffer is freed.
LEMMA StopFreeStep ==
  ASSUME TraceInv, StopFree
  PROVE  TraceInv'
<1>1. UNCHANGED <<kind, world, probes, events, pulls, collects, attached, since, running, faults>>
  BY DEF StopFree, LoaderRest
<1>2. life = "join" /\ life' = "detach" /\ ringBuf' = "null" /\ poll \in {"none", "done"}
  BY DEF StopFree, Go
<1>3. LoaderTypes'
  BY <1>1, <1>2 DEF TraceInv, LoaderTypes, Lives, Programs
<1>4. ~Read'
  BY <1>2, TriesFacts DEF Read
<1>5. Loading'
  BY <1>1, <1>2, <1>4, TriesFacts DEF TraceInv, Loading, Programs
<1>6. LatencyTrue' /\ Paired'
  BY <1>1, <1>4, LatencyRests, PairedRests DEF probes, world
<1>7. EventTypes' /\ Polled'
  BY <1>1, <1>2, EventsRest DEF events, TraceInv, EventTypes, Polled
<1> QED  BY <1>1, <1>3, <1>5, <1>6, <1>7, ProbesRest, PullsRest DEF TraceInv

\* A link is destroyed: not all programs are attached any more.
LEMMA DetachStep ==
  ASSUME TraceInv, DetachAll
  PROVE  TraceInv'
<1>1. UNCHANGED <<kind, world, probes, events, pulls, collects, since, running, ringBuf, faults>>
  BY DEF DetachAll, LoaderRest
<1>2. /\ life \in {"detach", "failed"}
      /\ \/ attached # <<>> /\ attached' = Tail(attached) /\ life' = life
         \/ attached = <<>> /\ attached' = attached /\ life' = "stopped"
  BY DEF DetachAll, Go
<1>3. /\ attached \in Seq(Probes) /\ ToSet(attached) \subseteq ToSet(Programs)
      /\ Len(attached) <= Len(Programs) /\ Len(Programs) \in 1..3 /\ Programs' = Programs
  BY <1>1, ProgramsFacts DEF TraceInv, KernelTypes, LoaderTypes, Loading, Programs
<1>4. attached' \in Seq(Probes) /\ ToSet(attached') \subseteq ToSet(Programs)
  <2>1. CASE attached' = attached
    BY <1>3, <2>1
  <2>2. CASE attached # <<>> /\ attached' = Tail(attached)
    <3>1. \A i \in DOMAIN attached' : i + 1 \in DOMAIN attached /\ attached'[i] = attached[i + 1]
      BY <1>3, <2>2
    <3>2. attached' \in Seq(Probes)
      BY <1>3, <2>2
    <3> QED  BY <1>3, <3>1, <3>2 DEF ToSet
  <2> QED  BY <1>2, <2>1, <2>2
<1>5. Len(attached') < Len(Programs) /\ attached' # Programs
  <2>1. CASE attached' = attached /\ attached = <<>>
    BY <1>3, <2>1
  <2>2. CASE attached # <<>> /\ attached' = Tail(attached)
    <3>1. Len(attached') = Len(attached) - 1
      BY <1>3, <2>2
    <3>2. Len(attached') < Len(Programs)
      BY <1>3, <3>1
    <3> QED  BY <1>3, <3>2
  <2> QED  BY <1>2, <2>1, <2>2
<1>6. LoaderTypes'
  BY <1>1, <1>2, <1>3, <1>4 DEF TraceInv, LoaderTypes, Lives
<1>7. ~Read' /\ life' \in {"detach", "failed", "stopped"}
  BY <1>2, TriesFacts DEF Read
<1>8. Loading'
  BY <1>3, <1>4, <1>5, <1>7, TriesFacts DEF Loading
<1>9. LatencyTrue' /\ Paired'
  BY <1>1, <1>5, <1>7, LatencyRests, PairedRests DEF probes, world
<1>10. EventTypes' /\ Polled'
  BY <1>1, EventsRest DEF events, TraceInv, EventTypes, Polled
<1> QED  BY <1>1, <1>6, <1>8, <1>9, <1>10, ProbesRest, PullsRest DEF TraceInv

-----------------------------------------------------------------------------
(* The poll thread *)

\* The loader and everything the probes fill stay as they are.
LEMMA LoaderRests ==
  ASSUME TraceInv, UNCHANGED <<kind, loader, start, waits, ring>>
  PROVE  LoaderTypes' /\ Loading' /\ LatencyTrue' /\ Paired'
<1>1. LoaderTypes' /\ Loading'
  BY DEF TraceInv, LoaderTypes, Loading, Read, Programs, loader
<1>2. LatencyTrue' /\ Paired'
  BY LatencyRests, PairedRests DEF Read, loader
<1> QED  BY <1>1, <1>2

\* The thread looks at running_.
LEMMA PollCheckStep ==
  ASSUME TraceInv, PollCheck
  PROVE  TraceInv'
<1>1. UNCHANGED <<kind, world, probes, loader, pulls, cache, handled, taken, recent, collects>>
  BY DEF PollCheck
<1>2. poll = "check" /\ poll' \in {"poll", "done"}
  BY DEF PollCheck
<1>3. EventTypes' /\ Polled'
  BY <1>1, <1>2, EventsRest DEF TraceInv, Polled, loader
<1> QED  BY <1>1, <1>3, ProbesRest, PullsRest, LoaderRests DEF TraceInv, probes, world

\* ring_buffer__poll has found the ring empty.
LEMMA PollReturnStep ==
  ASSUME TraceInv, PollReturn
  PROVE  TraceInv'
<1>1. UNCHANGED <<kind, world, probes, loader, pulls, cache, handled, taken, recent, collects>>
  BY DEF PollReturn
<1>2. poll = "poll" /\ poll' = "check"
  BY DEF PollReturn
<1>3. EventTypes' /\ Polled'
  BY <1>1, <1>2, EventsRest DEF TraceInv, Polled, loader
<1> QED  BY <1>1, <1>3, ProbesRest, PullsRest, LoaderRests DEF TraceInv, probes, world

\* The oldest event leaves the ring buffer for the source.
LEMMA HandleEventStep ==
  ASSUME TraceInv, HandleEvent
  PROVE  TraceInv'
<1>1. /\ UNCHANGED <<kind, world, loader, poll, pulls, start, counts, taken, collects>>
      /\ ring # <<>> /\ ring' = Tail(ring)
  BY DEF HandleEvent
<1>2. PICK e : e = Head(ring)
  BY Zenon
<1>3. ring \in Seq(Entry) /\ Len(ring) <= RingSize[kind] /\ RingSize[kind] \in Nat
  BY TracersAssumption DEF TraceInv, KernelTypes, RingTypes
<1>4. /\ e \in Entry /\ ring' \in Seq(Entry) /\ Len(ring') = Len(ring) - 1
      /\ \A i \in DOMAIN ring' : i + 1 \in DOMAIN ring /\ ring'[i] = ring[i + 1]
  BY <1>1, <1>2, <1>3
<1>5. RingTypes'
  <2>1. Len(ring') <= RingSize[kind] /\ kind' = kind
    BY <1>1, <1>3, <1>4
  <2>2. \A i \in DOMAIN ring : ring[i].at <= clock
    BY DEF TraceInv, RingTypes
  <2>3. \A i \in DOMAIN ring' : ring'[i].at <= clock'
    BY <1>1, <1>4, <2>2 DEF world
  <2> QED  BY <1>4, <2>1, <2>3 DEF RingTypes
<1>6. LatencyTrue'
  BY <1>1, <1>4 DEF TraceInv, LatencyTrue, Read, Leftover, TrueOrZero, Replaced, loader
<1>7. EventTypes'
  <2>1. /\ \/ cache' = cache \/ cache' = Append(cache, e)
        /\ \/ handled' = handled \/ handled' = Append(handled, e)
           \/ handled' = Newest(Append(handled, e), MaxRecent + 1)
        /\ recent' = recent \/ recent' = Newest(Append(recent, e), MaxRecent)
    BY <1>2 DEF HandleEvent
  <2>2. /\ cache \in Seq(Entry) /\ handled \in Seq(Entry)
        /\ recent \in Seq(Entry) /\ Len(recent) <= MaxRecent
    BY DEF TraceInv, EventTypes
  <2>3. /\ Append(cache, e) \in Seq(Entry) /\ Append(handled, e) \in Seq(Entry)
        /\ Append(recent, e) \in Seq(Entry) /\ MaxRecent \in Nat /\ MaxRecent + 1 \in Nat
    BY <1>4, <2>2, TracersAssumption
  <2>4. /\ Newest(Append(handled, e), MaxRecent + 1) \in Seq(Entry)
        /\ Newest(Append(recent, e), MaxRecent) \in Seq(Entry)
        /\ Len(Newest(Append(recent, e), MaxRecent)) <= MaxRecent
    BY <2>3, NewestFacts
  <2> QED  BY <1>1, <2>1, <2>2, <2>3, <2>4 DEF TraceInv, EventTypes
<1>8. KernelTypes' /\ StartTypes' /\ AggTypes'
  BY <1>1 DEF TraceInv, KernelTypes, StartTypes, AggTypes, world, counts
<1>9. LoaderTypes' /\ Loading'
  BY <1>1 DEF TraceInv, LoaderTypes, Loading, Read, Programs, loader
<1>10. Paired' /\ Polled'
  BY <1>1, PairedRests DEF world, loader, TraceInv, Polled
<1> QED  BY <1>1, <1>5, <1>6, <1>7, <1>8, <1>9, <1>10, PullsRest DEF TraceInv

-----------------------------------------------------------------------------
(* Collect *)

\* The off-CPU profiler hands over its batch.
LEMMA CollectOffcpuStep ==
  ASSUME TraceInv, CollectOffcpu
  PROVE  TraceInv'
<1>1. UNCHANGED <<kind, world, probes, loader, poll, handled, recent, pulls>>
  BY DEF CollectOffcpu
<1>2. EventTypes' /\ Polled'
  <2>1. collects' \in 0..MaxCollects
    BY TracersAssumption DEF CollectOffcpu, TraceInv, EventTypes
  <2>2. taken' \in Seq(Entry) /\ cache' \in Seq(Entry)
    BY DEF CollectOffcpu, TraceInv, EventTypes
  <2> QED  BY <1>1, <2>1, <2>2 DEF TraceInv, EventTypes, Polled, loader
<1> QED  BY <1>1, <1>2, ProbesRest, PullsRest, LoaderRests DEF TraceInv, probes, world

\* The probes and the loader do not notice a Collect that reads the counts.
LEMMA CollectorRests ==
  ASSUME TraceInv, UNCHANGED <<kind, world, loader, events, start, ring, mem, hit, carried, switches>>,
         PullTypes', collects' \in 0..MaxCollects,
         \A k \in DOMAIN agg' : k \in DOMAIN agg /\ agg'[k] = agg[k]
  PROVE  TraceInv'
<1>1. KernelTypes' /\ StartTypes' /\ RingTypes'
  BY DEF TraceInv, KernelTypes, StartTypes, RingTypes, world
<1>2. AggTypes'
  BY DEF TraceInv, AggTypes
<1>3. EventTypes' /\ Polled'
  BY DEF TraceInv, EventTypes, Polled, events, loader
<1> QED  BY <1>1, <1>2, <1>3, LoaderRests DEF TraceInv, world

\* A call begins: it lists the tasks.
LEMMA CollectBeginStep ==
  ASSUME TraceInv, NEW c \in Collectors, CollectBegin(c)
  PROVE  TraceInv'
<1>1. UNCHANGED <<kind, world, probes, loader, events, got, total, history>>
  BY DEF CollectBegin
<1>2. DOMAIN agg \in SUBSET Keys
  BY DEF TraceInv, AggTypes
<1>3. PullTypes'
  BY <1>1, <1>2 DEF CollectBegin, TraceInv, PullTypes
<1>4. collects' \in 0..MaxCollects
  BY TracersAssumption DEF CollectBegin, TraceInv, EventTypes
<1> QED  BY <1>1, <1>3, <1>4, CollectorRests DEF probes

\* It looks up the next one.
LEMMA CollectLookupStep ==
  ASSUME TraceInv, NEW c \in Collectors, NEW k \in Keys, CollectLookup(c, k)
  PROVE  TraceInv'
<1>1. UNCHANGED <<kind, world, loader, events, start, ring, counts, total, history, collects>>
  BY DEF CollectLookup, CollectRest, counts
<1>2. cpc' \in [Collectors -> {"idle", "lookup", "delete"}]
  BY DEF CollectLookup, TraceInv, PullTypes
<1>3. todo' \in [Collectors -> SUBSET Keys]
  BY DEF CollectLookup, TraceInv, PullTypes
<1>4. got' \in [Collectors -> [key : {0} \cup Keys, sw : Nat]]
  <2>1. CASE got' = got
    BY <2>1 DEF TraceInv, PullTypes
  <2>2. CASE k \in DOMAIN agg
    <3>1. PICK n : n = IF AllowPid(k) THEN mem[agg[k]] ELSE 0
      BY Zenon
    <3>2. n \in Nat
      <4>1. mem[agg[k]] \in Nat
        BY <2>2 DEF TraceInv, AggTypes
      <4> QED  BY <3>1, <4>1
    <3>3. got' = [got EXCEPT ![c].key = k, ![c].sw = @ + n]
      BY <2>2, <3>1 DEF CollectLookup
    <3>4. got \in [Collectors -> [key : {0} \cup Keys, sw : Nat]]
      BY DEF TraceInv, PullTypes
    <3>5. got[c] \in [key : {0} \cup Keys, sw : Nat]
      BY <3>4
    <3>6. PICK t : t = [key |-> k, sw |-> got[c].sw + n]
      OBVIOUS
    <3>7. t \in [key : {0} \cup Keys, sw : Nat]
      BY <3>2, <3>5, <3>6
    <3>8. /\ DOMAIN got' = Collectors /\ got' = [d \in Collectors |-> got'[d]]
          /\ \A d \in Collectors : d # c => got'[d] = got[d]
      BY <3>3, <3>4
    <3>9. got'[c] = t
      BY <3>3, <3>4, <3>5, <3>6
    <3>10. \A d \in Collectors : got'[d] \in [key : {0} \cup Keys, sw : Nat]
      BY <3>4, <3>7, <3>8, <3>9
    <3> QED  BY <3>8, <3>10
  <2> QED  BY <2>1, <2>2 DEF CollectLookup
<1>5. PullTypes'
  BY <1>1, <1>2, <1>3, <1>4 DEF TraceInv, PullTypes
<1>6. collects' \in 0..MaxCollects
  BY <1>1 DEF TraceInv, EventTypes
<1> QED  BY <1>1, <1>5, <1>6, CollectorRests DEF counts

\* It deletes the entry that it has read.
LEMMA CollectDeleteStep ==
  ASSUME TraceInv, NEW c \in Collectors, CollectDelete(c)
  PROVE  TraceInv'
<1>1. UNCHANGED <<kind, world, loader, events, start, ring, mem, hit, carried, switches, got, total, history, collects>>
  BY DEF CollectDelete, CollectRest
<1>2. PullTypes'
  BY <1>1 DEF CollectDelete, TraceInv, PullTypes
<1>3. \A k \in DOMAIN agg' : k \in DOMAIN agg /\ agg'[k] = agg[k]
  BY DEF CollectDelete, Delete
<1>4. collects' \in 0..MaxCollects
  BY <1>1 DEF TraceInv, EventTypes
<1> QED  BY <1>1, <1>2, <1>3, <1>4, CollectorRests

\* It answers.
LEMMA CollectEndStep ==
  ASSUME TraceInv, NEW c \in Collectors, CollectEnd(c)
  PROVE  TraceInv'
<1>1. UNCHANGED <<kind, world, probes, loader, events, todo, collects>>
  BY DEF CollectEnd
<1>2. got \in [Collectors -> [key : {0} \cup Keys, sw : Nat]] /\ got[c].sw \in Nat
  BY DEF TraceInv, PullTypes
<1>3. history' \in Seq(Nat) /\ Len(history') <= MaxHistory
  <2>1. Append(history, got[c].sw) \in Seq(Nat) /\ MaxHistory \in Nat
    BY <1>2, TracersAssumption DEF TraceInv, PullTypes
  <2> QED  BY <2>1, NewestFacts DEF CollectEnd
<1>4. total' \in [Collectors -> Nat]
  BY <1>2 DEF CollectEnd, TraceInv, PullTypes
<1>5. got' \in [Collectors -> [key : {0} \cup Keys, sw : Nat]]
  BY <1>2 DEF CollectEnd
<1>6. cpc' \in [Collectors -> {"idle", "lookup", "delete"}]
  BY DEF CollectEnd, TraceInv, PullTypes
<1>7. PullTypes'
  BY <1>1, <1>3, <1>4, <1>5, <1>6 DEF TraceInv, PullTypes
<1>8. collects' \in 0..MaxCollects
  BY <1>1 DEF TraceInv, EventTypes
<1> QED  BY <1>1, <1>7, <1>8, CollectorRests DEF probes

-----------------------------------------------------------------------------
(* The theorems *)

\* The source is not started, and the maps are empty.
LEMMA TraceInit == Init => TraceInv
<1> SUFFICES ASSUME Init PROVE TraceInv
  OBVIOUS
<1>1. kind \in Kinds /\ MaxTime[kind] \in Nat /\ NumKeys \in Nat
  BY TracersAssumption DEF Init
<1>2. KernelTypes
  BY <1>1 DEF Init, KernelTypes
<1>3. StartTypes /\ RingTypes /\ AggTypes
  <2>1. RingSize[kind] \in Nat
    BY <1>1, TracersAssumption
  <2> QED  BY <2>1 DEF Init, StartTypes, RingTypes, AggTypes
<1>4. Len(Programs) \in 1..3
  BY <1>1, ProgramsFacts
<1>5. LoaderTypes
  <2>1. attached \in Seq(Probes) /\ ToSet(attached) \subseteq ToSet(Programs)
    BY DEF Init, ToSet
  <2>2. life \in Lives /\ since = None /\ faults = 0 /\ running = FALSE /\ ringBuf = "null"
    BY DEF Init, Lives
  <2>3. 0 \in 0..MaxFaults[kind]
    BY <1>1, FaultBounds
  <2> QED  BY <2>1, <2>2, <2>3 DEF LoaderTypes
<1>6. EventTypes
  BY TracersAssumption DEF Init, EventTypes
<1>7. PullTypes
  BY TracersAssumption DEF Init, PullTypes
<1>8. Loading
  <2>1. attached = <<>> /\ since = None /\ life = "init" /\ life \notin DOMAIN Tries
    BY TriesFacts DEF Init
  <2>2. Len(attached) = 0 /\ attached # Programs
    BY <1>4, <2>1
  <2> QED  BY <1>4, <2>1, <2>2 DEF Loading
<1>9. Paired /\ Polled /\ LatencyTrue
  BY DEF Init, Paired, Polled, LatencyTrue
<1> QED  BY <1>2, <1>3, <1>5, <1>6, <1>7, <1>8, <1>9 DEF TraceInv

\* Every step keeps it.
LEMMA TraceNext == TraceInv /\ [Next]_vars => TraceInv'
<1> SUFFICES ASSUME TraceInv, [Next]_vars PROVE TraceInv'
  OBVIOUS
<1>1. CASE Kernel
  <2>1. ASSUME NEW k \in Keys,
               Wakeup(k) \/ Migrate(k) \/ Fork(k) \/ Issue(k) \/ Complete(k) \/ SwitchTo(k)
        PROVE  TraceInv'
    BY <2>1, WakeupStep, MigrateStep, ForkStep, IssueStep, CompleteStep, SwitchToStep
  <2>2. ASSUME NEW k \in {0} \cup Keys, NEW b \in {"sleep", "ready", "dead"}, Switch(k, b)
        PROVE  TraceInv'
    BY <2>2, SwitchStep
  <2> QED  BY <1>1, <2>1, <2>2, LaterStep DEF Kernel
<1>2. CASE Addition
  BY <1>2, LoadCountStep, StoreCountStep DEF Addition
<1>3. CASE Starting
  BY <1>3, StartLoadStep, StartAttachStep, StartOpenStep DEF Starting
<1>4. CASE PollThread
  BY <1>4, PollCheckStep, HandleEventStep, PollReturnStep DEF PollThread
<1>5. CASE StopBegin
  BY <1>5, StopBeginStep
<1>6. CASE Stopping
  BY <1>6, StopFreeStep, DetachStep DEF Stopping
<1>7. CASE CollectOffcpu
  BY <1>7, CollectOffcpuStep
<1>8. ASSUME NEW c \in Collectors, Collect(c)
      PROVE  TraceInv'
  BY <1>8, CollectBeginStep, CollectLookupStep, CollectDeleteStep, CollectEndStep DEF Collect
<1>9. CASE UNCHANGED vars
  <2>1. UNCHANGED <<kind, world, probes, loader, events, pulls, collects>>
    BY <1>9 DEF vars
  <2>2. EventTypes' /\ Polled'
    BY <2>1 DEF events, loader, TraceInv, EventTypes, Polled
  <2> QED  BY <2>1, <2>2, ProbesRest, PullsRest, LoaderRests DEF TraceInv, probes, world
<1> QED  BY <1>1, <1>2, <1>3, <1>4, <1>5, <1>6, <1>7, <1>8, <1>9 DEF Next

\* TraceInv holds in every reachable state.
THEOREM TracersInvariant == Spec => []TraceInv
<1>1. Init => TraceInv
  BY TraceInit
<1>2. TraceInv /\ [Next]_vars => TraceInv'
  BY TraceNext
<1> QED  BY <1>1, <1>2, PTL DEF Spec

\* MapsSound: the state is well formed, the times that the probes store belong to waits
\* that are under way, so that the maps do not fill up with times that nobody will
\* take out, and ring_buffer__poll never runs on the ring buffer that Stop has freed.
THEOREM MapsAreSound == Spec => []MapsSound
<1>1. TraceInv => MapsSound
  <2> SUFFICES ASSUME TraceInv PROVE MapsSound
    OBVIOUS
  <2>1. TypeOK
    <3>1. switches \in 0..MaxTime[kind]
      BY Times DEF TraceInv, KernelTypes
    <3>2. /\ DOMAIN start \subseteq Keys
          /\ \A k \in DOMAIN start : start[k] \in 0..MaxTime[kind]
      BY Times DEF TraceInv, StartTypes
    <3>3. IsPrefix(attached, Programs) \/ ToSet(attached) \subseteq ToSet(Programs)
      BY DEF TraceInv, LoaderTypes
    <3> QED  BY <3>1, <3>2, <3>3
             DEF TypeOK, TraceInv, KernelTypes, RingTypes, AggTypes, LoaderTypes, Lives,
                 EventTypes, PullTypes
  <2>2. StartsAreOpen
    <3> SUFFICES ASSUME attached = Programs, NEW i \in DOMAIN start
                 PROVE  start[i] < since \/ kind = "tracer" \/ \E k \in Waiters(i) : waits[k] = start[i]
      BY DEF StartsAreOpen
    <3>1. PairedKey(i)
      BY DEF TraceInv, Paired
    <3>2. CASE kind = "bio" /\ PairedSector(i)
      BY <3>2 DEF PairedSector, Waiters
    <3>3. CASE kind # "bio" /\ PairedTask(i)
      BY <3>3 DEF PairedTask, Waiters
    <3> QED  BY <3>1, <3>2, <3>3 DEF PairedKey
  <2>3. PolledIsOpen
    BY DEF TraceInv, Polled, PolledIsOpen
  <2> QED  BY <2>1, <2>2, <2>3 DEF MapsSound
<1> QED  BY <1>1, TracersInvariant, PTL

\* LatencyTrue: every latency that the poll thread may still read is the one that the
\* task or the request really had, or 0, or recognisably older than the attachment,
\* whatever was dropped before it.  Only sched_tracer may charge a switch with the
\* latency of one that it dropped, and bio_latency a request with the shorter one of
\* another request under way on the same sector number.
THEOREM LatenciesAreTrue == Spec => []LatencyTrue
<1>1. TraceInv => LatencyTrue
  BY DEF TraceInv
<1> QED  BY <1>1, TracersInvariant, PTL

\* EachEventOnce: the off-CPU profiler reports each event that its callback accepted
\* once and in order, whoever calls Collect, and whenever.
THEOREM OffcpuEventsOnce == Spec => []EachEventOnce
<1>1. Init => EachEventOnce
  BY DEF Init, EachEventOnce
<1>2. TraceInv /\ EachEventOnce /\ [Next]_vars => EachEventOnce'
  <2> SUFFICES ASSUME TraceInv, EachEventOnce, [Next]_vars, kind' = "offcpu"
               PROVE  taken' \o cache' = handled'
    BY DEF EachEventOnce
  <2>1. cache \in Seq(Entry) /\ taken \in Seq(Entry) /\ handled \in Seq(Entry)
    BY DEF TraceInv, EventTypes
  <2>2. CASE HandleEvent
    <3>1. kind = "offcpu" /\ taken' = taken
      BY <2>2 DEF HandleEvent
    <3>2. CASE UNCHANGED <<cache, handled>>
      BY <3>1, <3>2 DEF EachEventOnce
    <3>3. CASE cache' = Append(cache, Head(ring)) /\ handled' = Append(handled, Head(ring))
      <4>1. taken \o Append(cache, Head(ring)) = Append(taken \o cache, Head(ring))
        BY <2>1
      <4> QED  BY <3>1, <3>3, <4>1 DEF EachEventOnce
    <3> QED  BY <2>2, <3>1, <3>2, <3>3 DEF HandleEvent
  <2>3. CASE CollectOffcpu
    <3>1. taken' = taken \o cache /\ cache' = <<>> /\ handled' = handled /\ kind = "offcpu"
      BY <2>3 DEF CollectOffcpu
    <3>2. (taken \o cache) \o <<>> = taken \o cache
      BY <2>1
    <3> QED  BY <3>1, <3>2 DEF EachEventOnce
  <2>4. CASE UNCHANGED <<kind, cache, handled, taken>>
    BY <2>4 DEF EachEventOnce
  <2>5. CASE Kernel \/ Addition
    BY <2>4, <2>5 DEF Kernel, Wakeup, Migrate, Fork, Issue, Complete, Switch, SwitchTo, Later,
                      Addition, LoadCount, StoreCount, HitRest, events
  <2>6. CASE Starting
    BY <2>4, <2>6 DEF Starting, StartLoad, StartAttach, StartOpen, LoaderRest, events
  <2>7. CASE PollCheck \/ PollReturn
    BY <2>4, <2>7 DEF PollCheck, PollReturn
  <2>8. CASE StopBegin \/ Stopping
    BY <2>4, <2>8 DEF Stopping, StopBegin, StopFree, DetachAll, LoaderRest, events
  <2>9. ASSUME NEW c \in Collectors, Collect(c)
        PROVE  UNCHANGED <<kind, cache, handled, taken>>
    BY <2>9 DEF Collect, CollectBegin, CollectLookup, CollectDelete, CollectEnd, CollectRest, events
  <2>10. CASE UNCHANGED vars
    BY <2>4, <2>10 DEF vars, events
  <2> QED  BY <2>2, <2>3, <2>4, <2>5, <2>6, <2>7, <2>8, <2>9, <2>10 DEF Next, PollThread
<1> QED  BY <1>1, <1>2, TracersInvariant, PTL DEF Spec

-----------------------------------------------------------------------------
(* What Collect reports *)

\* One mark for each of the m[k] switches counted for a task of S.
Marks(m, S) == UNION {{k} \X (1..m[k]) : k \in S}

\* m counts the switches of the tasks of S.
Tallies(m, S) == S \subseteq Keys /\ \A k \in S : m[k] \in Nat

\* The marks of one task.
LEMMA OneTask ==
  ASSUME NEW k, NEW n \in Nat
  PROVE  IsFiniteSet({k} \X (1..n)) /\ Cardinality({k} \X (1..n)) = n
<1>1. IsFiniteSet({k}) /\ Cardinality({k}) = 1
  BY FS_Singleton
<1>2. IsFiniteSet(1..n) /\ Cardinality(1..n) = n
  BY FS_Interval
<1>3. /\ IsFiniteSet({k} \X (1..n))
      /\ Cardinality({k} \X (1..n)) = Cardinality({k}) * Cardinality(1..n)
  BY <1>1, <1>2, FS_Product
<1> QED  BY <1>1, <1>2, <1>3

\* There are finitely many tasks, and so many marks.
LEMMA MarksFinite ==
  ASSUME NEW m, NEW S, Tallies(m, S)
  PROVE  IsFiniteSet(Marks(m, S)) /\ Cardinality(Marks(m, S)) \in Nat
<1>1. IsFiniteSet(Keys)
  BY FS_Interval, TracersAssumption DEF Keys
<1>2. IsFiniteSet(S)
  BY <1>1, FS_Subset DEF Tallies
<1> DEFINE T == {{k} \X (1..m[k]) : k \in S}
           f == [k \in S |-> {k} \X (1..m[k])]
<1>3. f \in Surjection(S, T)
  BY DEF Surjection
<1>4. \A X \in T : IsFiniteSet(X)
  <2>1. \A k \in S : IsFiniteSet({k} \X (1..m[k]))
    BY OneTask, Zenon DEF Tallies
  <2> QED  BY <2>1, Zenon
<1> HIDE DEF T, f
<1>5. IsFiniteSet(T)
  BY <1>2, <1>3, FS_Surjection
<1>6. IsFiniteSet(UNION T)
  BY <1>4, <1>5, FS_UNION
<1>7. Marks(m, S) = UNION T
  BY DEF Marks, T
<1> QED  BY <1>6, <1>7, FS_CardinalityType

\* More tasks with higher counts have more marks.
LEMMA MarksGrow ==
  ASSUME NEW m, NEW S, NEW n, NEW T, Tallies(m, S), Tallies(n, T), S \subseteq T,
         \A k \in S : m[k] <= n[k]
  PROVE  Cardinality(Marks(m, S)) <= Cardinality(Marks(n, T))
<1>1. Marks(m, S) \subseteq Marks(n, T)
  <2>1. \A k \in S : m[k] \in Nat /\ n[k] \in Nat /\ m[k] <= n[k]
    BY DEF Tallies
  <2>2. \A k \in S : 1..m[k] \subseteq 1..n[k]
    BY <2>1
  <2> QED  BY <2>2 DEF Marks
<1> QED  BY <1>1, MarksFinite, FS_Subset

\* A task adds its own marks.
LEMMA MarksAdd ==
  ASSUME NEW m, NEW S, NEW k, k \notin S, Tallies(m, S \cup {k})
  PROVE  Cardinality(Marks(m, S \cup {k})) = Cardinality(Marks(m, S)) + m[k]
<1>1. m[k] \in Nat /\ Tallies(m, S)
  BY DEF Tallies
<1>2. PICK U : U = Marks(m, S)
  OBVIOUS
<1>3. IsFiniteSet(U) /\ Cardinality(U) \in Nat
  BY <1>1, <1>2, MarksFinite
<1>4. PICK X : X = {k} \X (1..m[k])
  OBVIOUS
<1>5. IsFiniteSet(X) /\ Cardinality(X) = m[k]
  BY <1>1, <1>4, OneTask
<1>6. Marks(m, S \cup {k}) = U \cup X
  BY <1>2, <1>4 DEF Marks
<1>7. U \cap X = {}
  BY <1>2, <1>4 DEF Marks
<1>8. Cardinality(U \cup X) = Cardinality(U) + Cardinality(X) - Cardinality(U \cap X)
  BY <1>3, <1>5, FS_Union, Zenon
<1>9. Cardinality(U \cap X) = 0
  BY <1>7, FS_EmptySet
<1>10. PICK u \in Nat, x \in Nat : u = Cardinality(U) /\ x = Cardinality(X)
  BY <1>1, <1>3, <1>5
<1>11. Cardinality(U \cup X) = u + x
  BY <1>8, <1>9, <1>10
<1> QED  BY <1>2, <1>5, <1>6, <1>10, <1>11

\* One count grows by at most d, and no other does.
LEMMA MarksBump ==
  ASSUME NEW m, NEW n, NEW S, NEW k, NEW d \in Nat,
         Tallies(m, S), Tallies(n, S), k \in S => n[k] <= m[k] + d,
         \A i \in S : i # k => n[i] <= m[i]
  PROVE  Cardinality(Marks(n, S)) <= Cardinality(Marks(m, S)) + d
<1>1. PICK R : R = S \ {k}
  OBVIOUS
<1>2. Tallies(m, R) /\ Tallies(n, R)
  BY <1>1 DEF Tallies
<1>3. PICK u \in Nat, v \in Nat : u = Cardinality(Marks(m, R)) /\ v = Cardinality(Marks(n, R))
  BY <1>2, MarksFinite
<1>4. v <= u
  <2>1. \A i \in R : n[i] <= m[i]
    BY <1>1
  <2> QED  BY <1>2, <1>3, <2>1, MarksGrow
<1>5. CASE k \notin S
  <2>1. R = S
    BY <1>1, <1>5
  <2> QED  BY <1>3, <1>4, <2>1
<1>6. CASE k \in S
  <2>1. S = R \cup {k} /\ k \notin R
    BY <1>1, <1>6
  <2>2. PICK a \in Nat, b \in Nat : a = m[k] /\ b = n[k]
    BY <1>6 DEF Tallies
  <2>3. Cardinality(Marks(m, S)) = u + a /\ Cardinality(Marks(n, S)) = v + b
    BY <1>3, <2>1, <2>2, MarksAdd
  <2>4. b <= a + d
    BY <1>6, <2>2
  <2> QED  BY <1>4, <2>3, <2>4
<1> QED  BY <1>5, <1>6

\* The map as Collect sees it.
Shown == [k \in DOMAIN agg |-> mem[agg[k]]]
\* How many probes have seen a switch and not yet stored the count.
Flying == Cardinality(DOMAIN hit)
\* What a caller of Collect has been told in all, and in the call under way.
Told(c) == total[c] + got[c].sw
\* The entries it may still report.
Open(c) == DOMAIN agg \ Pending(c)

\* All that a caller is told is of switches that happened, or was carried over.
Counted ==
  \A c \in Collectors : Told(c) + Cardinality(Units(Open(c))) + Flying <= switches + carried

\* The numbers are numbers.
LEMMA Numbers ==
  ASSUME TraceInv
  PROVE  /\ switches \in Nat /\ carried \in Nat /\ Flying \in Nat /\ IsFiniteSet(DOMAIN hit)
         /\ \A k \in DOMAIN agg : k \in Keys /\ mem[agg[k]] \in Nat
         /\ \A c \in Collectors : Told(c) \in Nat /\ total[c] \in Nat /\ got[c].sw \in Nat
<1>1. switches \in Nat /\ carried \in Nat
  BY Times DEF TraceInv, KernelTypes, AggTypes
<1>2. IsFiniteSet(DOMAIN hit) /\ Flying \in Nat
  <2>1. IsFiniteSet(Keys) /\ DOMAIN hit \subseteq Keys
    BY FS_Interval, TracersAssumption DEF Keys, TraceInv, AggTypes
  <2>2. IsFiniteSet(DOMAIN hit)
    BY <2>1, FS_Subset
  <2> QED  BY <2>2, FS_CardinalityType DEF Flying
<1>3. ASSUME NEW k \in DOMAIN agg PROVE k \in Keys /\ mem[agg[k]] \in Nat
  BY DEF TraceInv, AggTypes
<1>4. ASSUME NEW c \in Collectors PROVE Told(c) \in Nat /\ total[c] \in Nat /\ got[c].sw \in Nat
  <2>1. total[c] \in Nat /\ got[c] \in [key : {0} \cup Keys, sw : Nat]
    BY DEF TraceInv, PullTypes
  <2> QED  BY <2>1 DEF Told
<1> QED  BY <1>1, <1>2, <1>3, <1>4

\* What the map shows.
LEMMA MapTallies ==
  ASSUME TraceInv, NEW S \in SUBSET DOMAIN agg
  PROVE  /\ Tallies(Shown, S) /\ Units(S) = Marks(Shown, S)
         /\ Cardinality(Units(S)) \in Nat
<1>1. \A k \in S : Shown[k] = mem[agg[k]]
  BY DEF Shown
<1>2. Tallies(Shown, S)
  BY <1>1, Numbers DEF Tallies
<1>3. Units(S) = Marks(Shown, S)
  BY <1>1 DEF Units, Marks
<1> QED  BY <1>2, <1>3, MarksFinite

\* No probe or Collect touches the map: a step that counts no less than it keeps back.
LEMMA CountedKeeps ==
  ASSUME TraceInv, Counted, UNCHANGED <<agg, mem, carried>>, Flying' \in Nat, switches' \in Nat,
         Flying' + switches <= Flying + switches',
         \A c \in Collectors : Told(c)' = Told(c) /\ Pending(c)' = Pending(c)
  PROVE  Counted'
<1> SUFFICES ASSUME NEW c \in Collectors
             PROVE  (Told(c) + Cardinality(Units(Open(c))) + Flying <= switches + carried)'
  BY DEF Counted
<1>1. PICK t \in Nat, u \in Nat : t = Told(c) /\ u = Cardinality(Units(Open(c)))
  BY Numbers, MapTallies DEF Open
<1>2. t + u + Flying <= switches + carried
  BY <1>1 DEF Counted
<1>3. Told(c)' = t /\ Cardinality(Units(Open(c)))' = u /\ carried' = carried
  BY <1>1 DEF Open, Units
<1> QED  BY <1>2, <1>3, Numbers

\* A step of the kernel, of Start or of Stop that counts nothing.
LEMMA CountedRests ==
  ASSUME TraceInv, Counted, UNCHANGED <<counts, pulls>>
  PROVE  Counted'
<1>1. UNCHANGED <<agg, mem, hit, carried, switches>> /\ Flying' = Flying
  BY DEF counts, Flying
<1>2. \A c \in Collectors : Told(c)' = Told(c) /\ Pending(c)' = Pending(c)
  BY DEF pulls, Told, Pending
<1> QED  BY <1>1, <1>2, Numbers, CountedKeeps

\* A new element counts the n switches that have just happened.
LEMMA CountedInsert ==
  ASSUME TraceInv, Counted, UNCHANGED <<hit, carried, pulls>>,
         NEW k \in Keys, k \notin DOMAIN agg, NEW n \in 0..1, Insert(k, n), switches' = switches + n
  PROVE  Counted'
<1>0. Flying' = Flying /\ switches' \in Nat
  BY Numbers DEF Flying
<1>1. CASE UNCHANGED <<agg, mem>>
  <2>1. \A c \in Collectors : Told(c)' = Told(c) /\ Pending(c)' = Pending(c)
    BY DEF pulls, Told, Pending
  <2> QED  BY <1>0, <1>1, <2>1, Numbers, CountedKeeps
<1>2. CASE ~UNCHANGED <<agg, mem>>
  <2>1. PICK e \in Elems :
          /\ \A i \in DOMAIN agg : agg[i] # e /\ agg'[i] = agg[i] /\ mem'[agg[i]] = mem[agg[i]]
          /\ DOMAIN agg' = DOMAIN agg \cup {k} /\ agg'[k] = e /\ mem'[e] = n
    <3>1. n \in Nat
      OBVIOUS
    <3> QED  BY <1>2, <3>1, InsertFacts
  <2>2. PICK m : m = [i \in DOMAIN agg' |-> mem'[agg'[i]]]
    OBVIOUS
  <2>3. m[k] = n /\ \A i \in DOMAIN agg : m[i] = mem[agg[i]]
    BY <2>1, <2>2
  <2> SUFFICES ASSUME NEW c \in Collectors
               PROVE  (Told(c) + Cardinality(Units(Open(c))) + Flying <= switches + carried)'
    BY DEF Counted
  <2>4. PICK t \in Nat, S \in SUBSET DOMAIN agg : t = Told(c) /\ S = Open(c)
    BY Numbers DEF Open
  <2>5. Told(c)' = t /\ (Open(c)' = S \/ (Open(c)' = S \cup {k} /\ k \notin S))
    BY <2>1, <2>4 DEF Told, Open, Pending, pulls
  <2>6. Units(Open(c))' = Marks(m, Open(c)')
    <3>1. \A i \in Open(c)' : m[i] = mem'[agg'[i]]
      BY <2>2 DEF Open
    <3> QED  BY <3>1 DEF Units, Marks
  <2>7. PICK u \in Nat : u = Cardinality(Units(S)) /\ t + u + Flying <= switches + carried
    BY <2>4, MapTallies DEF Counted
  <2>8. Marks(m, S) = Units(S)
    BY <2>3 DEF Units, Marks
  <2>9. PICK w \in Nat : w = Cardinality(Units(Open(c)))' /\ w <= u + n
    <3>1. CASE Open(c)' = S
      <4>1. Cardinality(Units(Open(c)))' = u
        BY <2>6, <2>7, <2>8, <3>1
      <4> QED  BY <4>1
    <3>2. CASE Open(c)' = S \cup {k} /\ k \notin S
      <4>1. Tallies(m, S \cup {k})
        BY <2>3, Numbers DEF Tallies
      <4>2. Cardinality(Marks(m, S \cup {k})) = Cardinality(Marks(m, S)) + m[k]
        BY <3>2, <4>1, MarksAdd
      <4>3. Cardinality(Units(Open(c)))' = u + n
        BY <2>3, <2>6, <2>7, <2>8, <3>2, <4>2
      <4> QED  BY <4>3
    <3> QED  BY <2>5, <3>1, <3>2
  <2> QED  BY <1>0, <2>5, <2>7, <2>9, Numbers
<1> QED  BY <1>1, <1>2

\* A probe counts a switch, or gets the pointer through which it will.
LEMMA CountedSwitchTo ==
  ASSUME TraceInv, Counted, NEW k \in Keys, SwitchTo(k)
  PROVE  Counted'
<1>1. k \notin DOMAIN hit /\ UNCHANGED <<carried, pulls>> /\ kind = "aggregate" /\ k # 0
  BY DEF SwitchTo, AnalyzerSwitch, probes, Keys
<1>2. CASE UNCHANGED counts
  BY <1>1, <1>2, CountedRests
<1>3. CASE Count(k) /\ switches' = switches + 1
  <2>1. CASE k \notin DOMAIN agg
    <3>1. Insert(k, 1) /\ UNCHANGED hit
      BY <1>1, <1>3, <2>1 DEF Count
    <3> QED  BY <1>1, <1>3, <2>1, <3>1, CountedInsert
  <2>2. CASE k \in DOMAIN agg
    <3>1. UNCHANGED <<agg, mem>> /\ DOMAIN hit' = DOMAIN hit \cup {k}
      BY <1>1, <1>3, <2>2 DEF Count
    <3>2. Flying' = Flying + 1
      BY <1>1, <3>1, Numbers, FS_AddElement DEF Flying
    <3>3. \A c \in Collectors : Told(c)' = Told(c) /\ Pending(c)' = Pending(c)
      BY <1>1 DEF pulls, Told, Pending
    <3>4. /\ Flying' \in Nat /\ switches' \in Nat
          /\ Flying' + switches <= Flying + switches'
      BY <1>3, <3>2, Numbers
    <3> QED  BY <1>1, <3>1, <3>3, <3>4, CountedKeeps
  <2> QED  BY <2>1, <2>2
<1>4. UNCHANGED counts \/ (Count(k) /\ switches' = switches + 1)
  BY <1>1 DEF SwitchTo, AnalyzerSwitch, probes, counts
<1> QED  BY <1>2, <1>3, <1>4

\* The probe on migrations counts no switch.
LEMMA CountedMigrate ==
  ASSUME TraceInv, Counted, NEW k \in Keys, Migrate(k)
  PROVE  Counted'
<1>1. UNCHANGED <<hit, carried, switches, pulls>>
  BY DEF Migrate
<1>2. CASE UNCHANGED <<agg, mem>>
  BY <1>1, <1>2, CountedRests DEF counts
<1>3. CASE k \notin DOMAIN agg /\ Insert(k, 0)
  <2>1. 0 \in 0..1 /\ switches' = switches + 0
    BY <1>1, Numbers
  <2> QED  BY <1>1, <1>3, <2>1, CountedInsert
<1> QED  BY <1>2, <1>3 DEF Migrate

\* A probe loads a count: nothing is counted yet.
LEMMA CountedLoad ==
  ASSUME TraceInv, Counted, NEW k \in Keys, LoadCount(k)
  PROVE  Counted'
<1>1. UNCHANGED <<agg, mem, carried, switches, pulls>> /\ DOMAIN hit' = DOMAIN hit
  BY DEF LoadCount, HitRest
<1>2. Flying' = Flying
  BY <1>1 DEF Flying
<1>3. \A c \in Collectors : Told(c)' = Told(c) /\ Pending(c)' = Pending(c)
  BY <1>1 DEF pulls, Told, Pending
<1> QED  BY <1>1, <1>2, <1>3, Numbers, CountedKeeps

\* It stores one more than it loaded: if the element is another task's by now, and that
\* has a lower count, the difference is carried over.
LEMMA CountedStore ==
  ASSUME TraceInv, Counted, NEW k \in Keys, StoreCount(k)
  PROVE  Counted'
<1>1. PICK e \in Elems, v \in Nat : e = hit[k].elem /\ v = hit[k].val /\ k \in DOMAIN hit
  <2>1. /\ hit[k] \in [elem : Elems, val : Nat \cup {None}] /\ hit[k].val # None
        /\ k \in DOMAIN hit
    BY DEF StoreCount, TraceInv, AggTypes
  <2> QED  BY <2>1
<1>2. /\ UNCHANGED <<agg, switches, pulls>>
      /\ DOMAIN hit' = DOMAIN hit \ {k} /\ mem' = [mem EXCEPT ![e] = v + 1]
      /\ carried' = IF e \in Range(agg) /\ v > mem[e] THEN carried + (v - mem[e]) ELSE carried
  BY <1>1 DEF StoreCount, HitRest, Delete
<1>3. PICK w \in Nat : w = mem[e]
  BY DEF TraceInv, AggTypes
<1>4. mem'[e] = v + 1 /\ \A i \in Elems : i # e => mem'[i] = mem[i]
  BY <1>2 DEF TraceInv, AggTypes
<1>5. Flying = Flying' + 1 /\ Flying' \in Nat
  <2>1. IsFiniteSet(DOMAIN hit') /\ Cardinality(DOMAIN hit') = Cardinality(DOMAIN hit) - 1
    BY <1>1, <1>2, Numbers, FS_RemoveElement
  <2>2. Cardinality(DOMAIN hit') \in Nat
    BY <2>1, FS_CardinalityType
  <2> QED  BY <2>1, <2>2, Numbers DEF Flying
<1>6. PICK m : m = [i \in DOMAIN agg |-> mem'[agg[i]]]
  OBVIOUS
<1>7. PICK d \in Nat : /\ carried' + 1 = carried + d /\ d >= 1
                       /\ \A i, j \in DOMAIN agg : m[i] > Shown[i] /\ m[j] > Shown[j] => i = j
                       /\ \A i \in DOMAIN agg : m[i] \in Nat /\ m[i] <= Shown[i] + d
  <2>1. \A i \in DOMAIN agg : /\ Shown[i] = mem[agg[i]] /\ m[i] = mem'[agg[i]]
                              /\ agg[i] \in Elems /\ Shown[i] \in Nat
    BY <1>6, Numbers DEF Shown, TraceInv, AggTypes
  <2>2. \A i \in DOMAIN agg : /\ agg[i] # e => m[i] = Shown[i]
                              /\ agg[i] = e => m[i] = v + 1 /\ Shown[i] = w
    BY <1>3, <1>4, <2>1
  <2>3. \A i, j \in DOMAIN agg : m[i] > Shown[i] /\ m[j] > Shown[j] => i = j
    <3>1. \A i \in DOMAIN agg : m[i] > Shown[i] => agg[i] = e
      BY <2>1, <2>2
    <3> QED  BY <3>1 DEF TraceInv, AggTypes
  <2>4. CASE e \in Range(agg) /\ v > w
    <3>1. PICK d \in Nat : d = v + 1 - w
      BY <2>4
    <3>2. carried' + 1 = carried + d /\ d >= 1 /\ v + 1 <= w + d
      BY <1>2, <1>3, <2>4, <3>1, Numbers
    <3>3. \A i \in DOMAIN agg : m[i] \in Nat /\ m[i] <= Shown[i] + d
      BY <2>1, <2>2, <3>2
    <3> QED  BY <2>3, <3>2, <3>3
  <2>5. CASE ~(e \in Range(agg) /\ v > w)
    <3>1. carried' + 1 = carried + 1
      BY <1>2, <1>3, <2>5, Numbers
    <3>2. \A i \in DOMAIN agg : agg[i] = e => v <= w
      BY <2>5 DEF Range
    <3>3. \A i \in DOMAIN agg : m[i] \in Nat /\ m[i] <= Shown[i] + 1
      BY <2>1, <2>2, <3>2
    <3>4. 1 \in Nat
      OBVIOUS
    <3> QED  BY <2>3, <3>1, <3>3, <3>4
  <2> QED  BY <2>4, <2>5
<1> SUFFICES ASSUME NEW c \in Collectors
             PROVE  (Told(c) + Cardinality(Units(Open(c))) + Flying <= switches + carried)'
  BY DEF Counted
<1>8. PICK t \in Nat, S \in SUBSET DOMAIN agg : t = Told(c) /\ S = Open(c)
  BY Numbers DEF Open
<1>9. Told(c)' = t /\ Open(c)' = S
  BY <1>2, <1>8 DEF Told, Open, Pending, pulls
<1>10. Units(Open(c))' = Marks(m, S)
  <2>1. \A i \in S : m[i] = mem'[agg'[i]]
    BY <1>2, <1>6
  <2> QED  BY <1>9, <2>1 DEF Units, Marks
<1>11. Tallies(Shown, S) /\ Tallies(m, S)
  BY <1>7, MapTallies DEF Tallies
<1>12. PICK u \in Nat, x \in Nat : u = Cardinality(Marks(Shown, S)) /\ x = Cardinality(Marks(m, S))
  BY <1>11, MarksFinite
<1>13. x <= u + d
  <2>1. PICK j : \A i \in S : i # j => m[i] <= Shown[i]
    <3>1. CASE \E j \in DOMAIN agg : m[j] > Shown[j]
      <4>1. PICK j \in DOMAIN agg : m[j] > Shown[j]
        BY <3>1
      <4>2. \A i \in S : i # j => m[i] <= Shown[i]
        BY <1>7, <1>11, <4>1 DEF Tallies
      <4> QED  BY <4>2
    <3>2. CASE ~ \E j \in DOMAIN agg : m[j] > Shown[j]
      BY <1>11, <3>2 DEF Tallies
    <3> QED  BY <3>1, <3>2
  <2>2. j \in S => m[j] <= Shown[j] + d
    BY <1>7
  <2>3. Cardinality(Marks(m, S)) <= Cardinality(Marks(Shown, S)) + d
    BY <1>11, <2>1, <2>2, MarksBump
  <2> QED  BY <1>12, <2>3
<1>14. t + u + Flying <= switches + carried
  BY <1>8, <1>12, MapTallies DEF Counted
<1>15. Cardinality(Units(Open(c)))' = x
  BY <1>10, <1>12
<1>16. carried' \in Nat
  BY <1>2, <1>3, Numbers
<1> QED  BY <1>2, <1>5, <1>7, <1>9, <1>13, <1>14, <1>15, <1>16, Numbers

\* A Collect moves the counts of one task from the map to its answer ...
LEMMA CountedLookup ==
  ASSUME TraceInv, Counted, NEW c \in Collectors, NEW k \in Keys, CollectLookup(c, k)
  PROVE  Counted'
<1>1. UNCHANGED <<agg, mem, hit, carried, switches, total>> /\ cpc[c] = "lookup"
  BY DEF CollectLookup, CollectRest
<1>2. Flying' = Flying
  BY <1>1 DEF Flying
<1> SUFFICES ASSUME NEW d \in Collectors
             PROVE  (Told(d) + Cardinality(Units(Open(d))) + Flying <= switches + carried)'
  BY DEF Counted
<1>3. CASE got'[d] = got[d] /\ cpc'[d] = cpc[d]
  <2>1. Told(d)' = Told(d) /\ Open(d)' = Open(d)
    BY <1>1, <1>3 DEF Told, Open, Pending
  <2>2. Units(Open(d))' = Units(Open(d))
    BY <1>1, <2>1 DEF Units
  <2> QED  BY <1>1, <1>2, <2>1, <2>2 DEF Counted
<1>4. CASE k \in DOMAIN agg /\ d = c
  <2>1. PICK n : n = IF AllowPid(k) THEN mem[agg[k]] ELSE 0
    BY Zenon
  <2>2. PICK a \in Nat : a = mem[agg[k]] /\ n \in Nat /\ n <= a
    BY <1>4, <2>1, Numbers
  <2>3. got' = [got EXCEPT ![c].key = k, ![c].sw = @ + n] /\ cpc' = [cpc EXCEPT ![c] = "delete"]
    BY <1>4, <2>1 DEF CollectLookup
  <2>4. got[c] \in [key : {0} \cup Keys, sw : Nat] /\ c \in DOMAIN got /\ c \in DOMAIN cpc
    BY DEF TraceInv, PullTypes
  <2>5. got'[c].key = k /\ got'[c].sw = got[c].sw + n /\ cpc'[c] = "delete"
    BY <2>2, <2>3, <2>4
  <2>6. PICK R \in SUBSET DOMAIN agg : R = DOMAIN agg \ {k}
    OBVIOUS
  <2>7. Open(c) = R \cup {k} /\ Open(c)' = R /\ k \notin R /\ R \cup {k} \in SUBSET DOMAIN agg
    BY <1>1, <1>4, <2>5, <2>6 DEF Open, Pending
  <2>8. PICK u \in Nat, t \in Nat, s \in Nat :
          u = Cardinality(Units(R)) /\ t = total[c] /\ s = got[c].sw
    BY MapTallies, Numbers
  <2>9. Cardinality(Units(R \cup {k})) = u + a
    <3>1. Tallies(Shown, R \cup {k}) /\ Units(R \cup {k}) = Marks(Shown, R \cup {k})
          /\ Units(R) = Marks(Shown, R)
      BY <2>7, MapTallies
    <3>2. Shown[k] = a
      BY <1>4, <2>2 DEF Shown
    <3> QED  BY <2>7, <2>8, <3>1, <3>2, MarksAdd
  <2>10. Told(c) = t + s /\ Told(c)' = t + (s + n)
    BY <1>1, <2>5, <2>8 DEF Told
  <2>11. Units(Open(c))' = Units(R)
    BY <1>1, <2>7 DEF Units
  <2>12. (t + s) + (u + a) + Flying <= switches + carried
    BY <2>7, <2>9, <2>10 DEF Counted
  <2> QED  BY <1>1, <1>2, <1>4, <2>2, <2>8, <2>10, <2>11, <2>12, Numbers
<1>5. (got'[d] = got[d] /\ cpc'[d] = cpc[d]) \/ (k \in DOMAIN agg /\ d = c)
  BY DEF CollectLookup, TraceInv, PullTypes
<1> QED  BY <1>3, <1>4, <1>5

\* ... and deletes the entry, whatever it counts by now.
LEMMA CountedDelete ==
  ASSUME TraceInv, Counted, NEW c \in Collectors, CollectDelete(c)
  PROVE  Counted'
<1>1. /\ UNCHANGED <<mem, hit, carried, switches, total, got>> /\ cpc[c] = "delete"
      /\ cpc' = [cpc EXCEPT ![c] = "lookup"] /\ agg' = Delete(agg, got[c].key)
  BY DEF CollectDelete, CollectRest
<1>2. /\ DOMAIN agg' = DOMAIN agg \ {got[c].key}
      /\ \A k \in DOMAIN agg' : agg'[k] = agg[k]
  BY <1>1 DEF Delete
<1>3. Flying' = Flying
  BY <1>1 DEF Flying
<1> SUFFICES ASSUME NEW d \in Collectors
             PROVE  (Told(d) + Cardinality(Units(Open(d))) + Flying <= switches + carried)'
  BY DEF Counted
<1>4. PICK t \in Nat, S \in SUBSET DOMAIN agg : t = Told(d) /\ S = Open(d)
  BY Numbers DEF Open
<1>5. Told(d)' = t
  BY <1>1, <1>4 DEF Told
<1>6. PICK T : T = Open(d)'
  OBVIOUS
<1>7. T \subseteq S
  <2>1. CASE d = c
    BY <1>1, <1>2, <1>4, <1>6, <2>1 DEF Open, Pending
  <2>2. CASE d # c
    <3>1. cpc'[d] = cpc[d]
      BY <1>1, <2>2 DEF TraceInv, PullTypes
    <3> QED  BY <1>1, <1>2, <1>4, <1>6, <3>1 DEF Open, Pending
  <2> QED  BY <2>1, <2>2
<1>8. Units(Open(d))' = Units(T)
  <2>1. \A k \in T : mem'[agg'[k]] = mem[agg[k]]
    BY <1>1, <1>2, <1>6 DEF Open
  <2> QED  BY <1>6, <2>1 DEF Units
<1>9. PICK u \in Nat, v \in Nat : u = Cardinality(Units(S)) /\ v = Cardinality(Units(T))
  BY <1>7, MapTallies
<1>10. v <= u
  <2>1. /\ Tallies(Shown, S) /\ Units(S) = Marks(Shown, S)
        /\ Tallies(Shown, T) /\ Units(T) = Marks(Shown, T)
    BY <1>7, MapTallies
  <2>2. \A k \in T : Shown[k] <= Shown[k]
    BY <2>1 DEF Tallies
  <2>3. Cardinality(Marks(Shown, T)) <= Cardinality(Marks(Shown, S))
    BY <1>7, <2>1, <2>2, MarksGrow
  <2> QED  BY <1>9, <2>1, <2>3
<1>11. t + u + Flying <= switches + carried
  BY <1>4, <1>9 DEF Counted
<1> QED  BY <1>1, <1>3, <1>5, <1>8, <1>9, <1>10, <1>11, Numbers

\* A call begins or ends.
LEMMA CountedCalls ==
  ASSUME TraceInv, Counted, NEW c \in Collectors, CollectBegin(c) \/ CollectEnd(c)
  PROVE  Counted'
<1>1. UNCHANGED <<agg, mem, hit, carried, switches>> /\ Flying' = Flying
  BY DEF CollectBegin, CollectEnd, probes, Flying
<1>2. ASSUME NEW d \in Collectors
      PROVE  Told(d)' = Told(d) /\ Pending(d)' = Pending(d)
  <2>1. CASE CollectBegin(c)
    BY <2>1 DEF CollectBegin, Told, Pending, TraceInv, PullTypes
  <2>2. CASE CollectEnd(c) /\ d # c
    BY <2>2 DEF CollectEnd, Told, Pending, TraceInv, PullTypes
  <2>3. CASE CollectEnd(c) /\ d = c
    <3>1. total'[c] = total[c] + got[c].sw /\ got'[c].sw = 0
      BY <2>3 DEF CollectEnd, TraceInv, PullTypes
    <3>2. cpc[c] = "lookup" /\ cpc'[c] = "idle"
      BY <2>3 DEF CollectEnd, TraceInv, PullTypes
    <3> QED  BY <2>3, <3>1, <3>2, Numbers DEF Told, Pending
  <2> QED  BY <2>1, <2>2, <2>3
<1> QED  BY <1>1, <1>2, Numbers, CountedKeeps

\* NeverInflated: what one caller of sched_analyzer's Collect is told in all its calls,
\* together with what it may still find in the map, is never more than the switches that
\* happened and the counts that probes have carried over into other tasks' elements,
\* however probes and other callers interleave with its look-ups and deletes.
THEOREM CountsNeverInflated == Spec => []NeverInflated
<1>1. Init => Counted
  <2> SUFFICES ASSUME Init, NEW c \in Collectors
               PROVE  Told(c) + Cardinality(Units(Open(c))) + Flying <= switches + carried
    BY DEF Counted
  <2>1. DOMAIN agg = {} /\ DOMAIN hit = {} /\ switches = 0 /\ carried = 0
    BY DEF Init
  <2>2. Told(c) = 0
    BY DEF Init, Told
  <2>3. Units(Open(c)) = {}
    BY <2>1 DEF Open, Units
  <2>4. Cardinality(Units(Open(c))) = 0 /\ Flying = 0
    BY <2>1, <2>3, FS_EmptySet DEF Flying
  <2> QED  BY <2>1, <2>2, <2>4
<1>2. TraceInv /\ Counted /\ [Next]_vars => Counted'
  <2> SUFFICES ASSUME TraceInv, Counted, [Next]_vars PROVE Counted'
    OBVIOUS
  <2>1. CASE UNCHANGED <<counts, pulls>>
    BY <2>1, CountedRests
  <2>2. ASSUME NEW k \in Keys, Wakeup(k) \/ Fork(k) \/ Issue(k) \/ Complete(k)
        PROVE  Counted'
    BY <2>1, <2>2 DEF Wakeup, Fork, Issue, Complete, probes, counts
  <2>3. ASSUME NEW k \in Keys, Migrate(k) \/ SwitchTo(k)
        PROVE  Counted'
    BY <2>3, CountedMigrate, CountedSwitchTo
  <2>4. ASSUME NEW k \in {0} \cup Keys, NEW b \in {"sleep", "ready", "dead"}, Switch(k, b)
        PROVE  Counted'
    <3>1. UNCHANGED pulls /\ kind # "aggregate"
      BY <2>4 DEF Switch
    <3>2. CASE kind = "detailed" /\ AnalyzerSwitch(cpu, k)
      BY <2>1, <3>1, <3>2 DEF AnalyzerSwitch, Count, counts
    <3>3. CASE UNCHANGED counts
      BY <2>1, <3>1, <3>3
    <3> QED  BY <2>4, <3>2, <3>3 DEF Switch, TracerSwitch, OffcpuSwitch, probes, counts
  <2>5. CASE Addition
    BY <2>5, CountedLoad, CountedStore DEF Addition
  <2>6. CASE Starting
    BY <2>1, <2>6 DEF Starting, StartLoad, StartAttach, StartOpen, LoaderRest, probes, counts
  <2>7. CASE PollThread
    BY <2>1, <2>7 DEF PollThread, PollCheck, HandleEvent, PollReturn, probes, counts
  <2>8. CASE StopBegin \/ Stopping
    BY <2>1, <2>8 DEF Stopping, StopBegin, StopFree, DetachAll, LoaderRest, probes, counts
  <2>9. CASE CollectOffcpu
    BY <2>1, <2>9 DEF CollectOffcpu, probes, counts
  <2>10. ASSUME NEW c \in Collectors, Collect(c)
         PROVE  Counted'
    BY <2>10, CountedCalls, CountedLookup, CountedDelete DEF Collect
  <2>11. CASE UNCHANGED vars
    BY <2>1, <2>11 DEF vars, probes, counts
  <2>12. CASE Later
    BY <2>1, <2>12 DEF Later
  <2>13. CASE Kernel
    BY <2>2, <2>3, <2>4, <2>12, <2>13 DEF Kernel
  <2> QED  BY <2>5, <2>6, <2>7, <2>8, <2>9, <2>10, <2>11, <2>13 DEF Next
<1>3. TraceInv /\ Counted => NeverInflated
  <2> SUFFICES ASSUME TraceInv, Counted, NEW c \in Collectors
               PROVE  total[c] + got[c].sw + InMap(c) <= switches + carried
    BY DEF NeverInflated
  <2>1. PICK t \in Nat, u \in Nat : t = Told(c) /\ u = Cardinality(Units(Open(c)))
    BY MapTallies, Numbers DEF Open
  <2>2. t + u + Flying <= switches + carried
    BY <2>1 DEF Counted
  <2>3. t + u <= switches + carried
    BY <2>2, Numbers
  <2>4. total[c] + got[c].sw = t /\ InMap(c) = u
    BY <2>1 DEF Told, InMap, Open
  <2> QED  BY <2>3, <2>4
<1> QED  BY <1>1, <1>2, <1>3, TracersInvariant, PTL DEF Spec

-----------------------------------------------------------------------------
(* The answers of GetRecentEvents *)

\* A set of numbers has a least one.
LEMMA LeastNumber ==
  ASSUME NEW T \in SUBSET Nat, T # {}
  PROVE  \E x \in T : \A y \in T : x <= y
<1>1. PICK R : R = OpToRel(<, Nat)
  OBVIOUS
<1>2. IsWellFoundedOn(R, Nat)
  BY <1>1, NatLessThanWellFounded, Zenon
<1>3. \A x \in Nat, y \in Nat : x < y => <<x, y>> \in R
  BY <1>1 DEF OpToRel
<1>4. PICK x \in T : \A y \in T : ~(<<y, x>> \in R)
  BY <1>2, WFMin
<1>5. \A y \in T : ~(y < x)
  BY <1>3, <1>4
<1> QED  BY <1>5

\* Where the newest n elements stand in the sequence.
LEMMA NewestAt ==
  ASSUME NEW S, NEW s \in Seq(S), NEW n \in Nat
  PROVE  /\ Newest(s, n) \in Seq(S)
         /\ Len(Newest(s, n)) = IF Len(s) < n THEN Len(s) ELSE n
         /\ \A i \in 1..Len(Newest(s, n)) : Newest(s, n)[i] = s[Len(s) - Len(Newest(s, n)) + i]
<1>1. PICK d \in Nat : d = IF Len(s) < n THEN Len(s) ELSE n
  OBVIOUS
<1>2. d <= n /\ d <= Len(s)
  BY <1>1
<1>3. Newest(s, n) = SubSeq(s, Len(s) - d + 1, Len(s))
  BY <1>1, Zenon DEF Newest
<1>4. PICK a \in Nat : a = Len(s) - d + 1
  BY <1>2
<1>5. a >= 1 /\ Len(s) + 1 - a = d
  BY <1>2, <1>4
<1>6. /\ SubSeq(s, a, Len(s)) \in Seq(S) /\ Len(SubSeq(s, a, Len(s))) = d
      /\ \A i \in 1..d : SubSeq(s, a, Len(s))[i] = s[a + i - 1]
  BY <1>2, <1>5
<1>7. \A i \in 1..d : a + i - 1 = Len(s) - d + i
  BY <1>2, <1>4
<1>8. Newest(s, n) = SubSeq(s, a, Len(s))
  BY <1>3, <1>4, Zenon
<1>9. \A i \in 1..d : Newest(s, n)[i] = s[Len(s) - d + i]
  BY <1>6, <1>7, <1>8
<1> QED  BY <1>1, <1>6, <1>8, <1>9

\* Two sequences with the same elements are the same.
LEMMA SameSequence ==
  ASSUME NEW S, NEW s \in Seq(S), NEW t \in Seq(S), Len(s) = Len(t),
         \A i \in 1..Len(s) : s[i] = t[i]
  PROVE  s = t
OBVIOUS

\* Elements that are not among the newest may be dropped early.
LEMMA NewestTwice ==
  ASSUME NEW S, NEW s \in Seq(S), NEW n \in Nat
  PROVE  Newest(Newest(s, n + 1), n) = Newest(s, n)
<1>1. PICK t \in Seq(S) : t = Newest(s, n + 1)
  BY NewestAt
<1>2. PICK u \in Seq(S) : u = Newest(t, n)
  BY NewestAt
<1>3. PICK v \in Seq(S) : v = Newest(s, n)
  BY NewestAt
<1>4. /\ Len(t) = IF Len(s) < n + 1 THEN Len(s) ELSE n + 1
      /\ \A i \in 1..Len(t) : t[i] = s[Len(s) - Len(t) + i]
  BY <1>1, NewestAt
<1>5. /\ Len(u) = IF Len(t) < n THEN Len(t) ELSE n
      /\ \A i \in 1..Len(u) : u[i] = t[Len(t) - Len(u) + i]
  BY <1>2, NewestAt
<1>6. /\ Len(v) = IF Len(s) < n THEN Len(s) ELSE n
      /\ \A i \in 1..Len(v) : v[i] = s[Len(s) - Len(v) + i]
  BY <1>3, NewestAt
<1>7. Len(u) = Len(v) /\ Len(u) <= Len(t) /\ Len(t) <= Len(s)
  BY <1>4, <1>5, <1>6
<1>8. ASSUME NEW i \in 1..Len(u) PROVE u[i] = v[i]
  <2>0. Len(t) \in Nat /\ Len(u) \in Nat /\ Len(s) \in Nat
    OBVIOUS
  <2>1. PICK j \in 1..Len(t) : j = Len(t) - Len(u) + i
    <3>1. Len(t) - Len(u) + i \in 1..Len(t)
      BY <1>7, <2>0
    <3> QED  BY <3>1, Zenon
  <2>2. u[i] = t[j] /\ t[j] = s[Len(s) - Len(t) + j]
    BY <1>4, <1>5, <2>1
  <2>3. Len(s) - Len(t) + j = Len(s) - Len(v) + i
    BY <1>7, <2>1
  <2>4. v[i] = s[Len(s) - Len(v) + i]
    BY <1>6, <1>7
  <2> QED  BY <2>2, <2>3, <2>4
<1> QED  BY <1>1, <1>2, <1>3, <1>7, <1>8, SameSequence

LEMMA NewestAppended ==
  ASSUME NEW S, NEW s \in Seq(S), NEW e \in S, NEW n \in Nat
  PROVE  Newest(Append(Newest(s, n), e), n) = Newest(Append(s, e), n)
<1>1. PICK t \in Seq(S) : t = Newest(s, n)
  BY NewestAt
<1>2. PICK p \in Seq(S), q \in Seq(S) : p = Append(t, e) /\ q = Append(s, e)
  <2>1. Append(t, e) \in Seq(S) /\ Append(s, e) \in Seq(S)
    OBVIOUS
  <2> QED  BY <2>1, Zenon
<1>3. PICK u \in Seq(S) : u = Newest(p, n)
  BY NewestAt
<1>4. PICK v \in Seq(S) : v = Newest(q, n)
  BY NewestAt
<1>5. /\ Len(t) = IF Len(s) < n THEN Len(s) ELSE n
      /\ \A i \in 1..Len(t) : t[i] = s[Len(s) - Len(t) + i]
  BY <1>1, NewestAt
<1>6. /\ Len(p) = Len(t) + 1 /\ p[Len(t) + 1] = e /\ \A i \in 1..Len(t) : p[i] = t[i]
      /\ Len(q) = Len(s) + 1 /\ q[Len(s) + 1] = e /\ \A i \in 1..Len(s) : q[i] = s[i]
  BY <1>2
<1>7. /\ Len(u) = IF Len(p) < n THEN Len(p) ELSE n
      /\ \A i \in 1..Len(u) : u[i] = p[Len(p) - Len(u) + i]
  BY <1>3, NewestAt
<1>8. /\ Len(v) = IF Len(q) < n THEN Len(q) ELSE n
      /\ \A i \in 1..Len(v) : v[i] = q[Len(q) - Len(v) + i]
  BY <1>4, NewestAt
<1>9. Len(u) = Len(v) /\ Len(u) <= Len(p) /\ Len(p) <= Len(q) /\ Len(t) <= Len(s)
  BY <1>5, <1>6, <1>7, <1>8
<1>10. ASSUME NEW i \in 1..Len(u) PROVE u[i] = v[i]
  <2>0. /\ Len(t) \in Nat /\ Len(u) \in Nat /\ Len(s) \in Nat
        /\ Len(p) \in Nat /\ Len(q) \in Nat /\ Len(v) \in Nat
    OBVIOUS
  <2>1. PICK j \in 1..Len(p) : j = Len(p) - Len(u) + i
    <3>1. Len(p) - Len(u) + i \in 1..Len(p)
      BY <1>9, <2>0
    <3> QED  BY <3>1, Zenon
  <2>2. PICK k \in 1..Len(q) : k = Len(q) - Len(v) + i
    <3>1. Len(q) - Len(v) + i \in 1..Len(q)
      BY <1>9, <2>0
    <3> QED  BY <3>1, Zenon
  <2>3. u[i] = p[j] /\ v[i] = q[k] /\ k = Len(s) - Len(t) + j
    <3>1. u[i] = p[j] /\ v[i] = q[k]
      BY <1>7, <1>8, <1>9, <2>1, <2>2
    <3>2. Len(p) = Len(t) + 1 /\ Len(q) = Len(s) + 1
      BY <1>6
    <3> QED  BY <3>1, <3>2, <1>9, <2>0, <2>1, <2>2
  <2>4. CASE j = Len(t) + 1
    BY <2>3, <2>4, <1>6, <1>9
  <2>5. CASE j # Len(t) + 1
    <3>1. Len(p) = Len(t) + 1 /\ Len(q) = Len(s) + 1
      BY <1>6
    <3>2. j \in 1..Len(t) /\ k \in 1..Len(s)
      BY <2>0, <2>3, <2>5, <3>1, <1>9
    <3> QED  BY <2>3, <3>2, <1>5, <1>6
  <2> QED  BY <2>4, <2>5
<1> QED  BY <1>1, <1>2, <1>3, <1>4, <1>9, <1>10, SameSequence

\* One turn of the loop of GetRecentEvents, and its results after 0, ..., d turns.
ScanStep(out, e, k, n) == IF Len(out) < n /\ Matches(k, e) THEN Append(out, e) ELSE out

\* After i turns over r: the loop has collected, newest first, the matching events among
\* the last i, or the newest n of them; g says where they stand in r.
Collected(g, out, r, i, k, n) ==
  /\ g \in [1..Len(out) -> (Len(r) - i + 1)..Len(r)]
  /\ \A a, b \in 1..Len(out) : a < b => g[b] < g[a]
  /\ \A a \in 1..Len(out) : out[a] = r[g[a]] /\ Matches(k, r[g[a]])
  /\ \A m \in (Len(r) - i + 1)..Len(r) :
       Matches(k, r[m]) => \/ \E a \in 1..Len(out) : g[a] = m
                           \/ Len(out) = n /\ \A a \in 1..Len(out) : m < g[a]
Scanned(out, r, i, k, n) == Len(out) <= n /\ \E g : Collected(g, out, r, i, k, n)

Scan(f, r, k, n, d) ==
  /\ f \in [0..d -> Seq(Entry)] /\ f[0] = <<>>
  /\ \A i \in 1..d : f[i] = ScanStep(f[i - 1], r[Len(r) - i + 1], k, n)
  /\ \A i \in 0..d : Scanned(f[i], r, i, k, n)

\* No turn yet.
LEMMA ScannedNone ==
  ASSUME NEW r \in Seq(Entry), NEW k, NEW n \in Nat
  PROVE  Scanned(<<>>, r, 0, k, n)
<1> DEFINE g == [a \in 1..0 |-> Len(r)]
<1>1. Len(<<>>) = 0 /\ Len(r) \in Nat
  OBVIOUS
<1>2. Collected(g, <<>>, r, 0, k, n)
  BY <1>1 DEF Collected
<1> QED  BY <1>1, <1>2 DEF Scanned

\* One more turn.
LEMMA ScannedMore ==
  ASSUME NEW r \in Seq(Entry), NEW k, NEW n \in Nat, NEW i \in 1..Len(r),
         NEW out \in Seq(Entry), Scanned(out, r, i - 1, k, n)
  PROVE  /\ ScanStep(out, r[Len(r) - i + 1], k, n) \in Seq(Entry)
         /\ Scanned(ScanStep(out, r[Len(r) - i + 1], k, n), r, i, k, n)
<1>1. PICK N \in Nat, l \in Nat : N = Len(r) /\ l = Len(out)
  OBVIOUS
<1>2. PICK c \in 1..N : c = N - i + 1
  <2>1. N - i + 1 \in 1..N
    BY <1>1
  <2> QED  BY <2>1, Zenon
<1>3. N - (i - 1) + 1 = c + 1 /\ Len(r) - i + 1 = c
  BY <1>1, <1>2
<1>4. PICK e \in Entry : e = r[c]
  BY <1>1, <1>2
<1>5. PICK g : /\ g \in [1..l -> (c + 1)..N]
               /\ \A a, b \in 1..l : a < b => g[b] < g[a]
               /\ \A a \in 1..l : out[a] = r[g[a]] /\ Matches(k, r[g[a]])
               /\ \A m \in (c + 1)..N :
                    Matches(k, r[m]) => \/ \E a \in 1..l : g[a] = m
                                        \/ l = n /\ \A a \in 1..l : m < g[a]
  BY <1>1, <1>3 DEF Scanned, Collected
<1>6. l <= n
  BY <1>1 DEF Scanned
<1>7. CASE l < n /\ Matches(k, e)
  <2>1. PICK new \in Seq(Entry) : new = Append(out, e)
    <3>1. Append(out, e) \in Seq(Entry)
      BY <1>4
    <3> QED  BY <3>1, Zenon
  <2>2. /\ ScanStep(out, r[Len(r) - i + 1], k, n) = new
        /\ Len(new) = l + 1 /\ new[l + 1] = e /\ \A a \in 1..l : new[a] = out[a]
    <3>1. ScanStep(out, e, k, n) = new
      BY <1>1, <1>7, <2>1, Zenon DEF ScanStep
    <3>2. r[Len(r) - i + 1] = e
      BY <1>3, <1>4
    <3>3. Len(new) = l + 1 /\ new[l + 1] = e /\ \A a \in 1..l : new[a] = out[a]
      BY <1>1, <2>1
    <3> QED  BY <3>1, <3>2, <3>3, Zenon
  <2> DEFINE h == [a \in 1..(l + 1) |-> IF a = l + 1 THEN c ELSE g[a]]
  <2>3. h[l + 1] = c /\ \A a \in 1..l : h[a] = g[a] /\ h[a] \in (c + 1)..N
    BY <1>5
  <2>4. h \in [1..(l + 1) -> c..N]
    BY <1>2, <1>5
  <2> HIDE DEF h
  <2>5. ASSUME NEW a \in 1..(l + 1), NEW b \in 1..(l + 1), a < b PROVE h[b] < h[a]
    <3>1. a \in 1..l
      BY <2>5
    <3>2. CASE b = l + 1
      BY <3>1, <3>2, <2>3, <1>2
    <3>3. CASE b # l + 1
      <4>1. b \in 1..l
        BY <3>3
      <4> QED  BY <3>1, <4>1, <2>3, <2>5, <1>5
    <3> QED  BY <3>2, <3>3
  <2>6. ASSUME NEW a \in 1..(l + 1) PROVE new[a] = r[h[a]] /\ Matches(k, r[h[a]])
    <3>1. CASE a = l + 1
      BY <3>1, <1>4, <1>7, <2>2, <2>3
    <3>2. CASE a # l + 1
      <4>1. a \in 1..l
        BY <3>2
      <4> QED  BY <4>1, <1>5, <2>2, <2>3
    <3> QED  BY <3>1, <3>2
  <2>7. ASSUME NEW m \in c..N, Matches(k, r[m]) PROVE \E a \in 1..(l + 1) : h[a] = m
    <3>1. CASE m = c
      BY <3>1, <2>3
    <3>2. CASE m # c
      <4>1. m \in (c + 1)..N
        BY <3>2, <1>2
      <4>2. PICK a \in 1..l : g[a] = m
        BY <4>1, <1>5, <1>7, <2>7
      <4>3. a \in 1..(l + 1)
        OBVIOUS
      <4> QED  BY <4>2, <4>3, <2>3
    <3> QED  BY <3>1, <3>2
  <2>8. Collected(h, new, r, i, k, n)
    BY <1>1, <1>3, <2>2, <2>4, <2>5, <2>6, <2>7 DEF Collected
  <2>9. Len(new) <= n
    BY <1>1, <1>7, <2>2
  <2> QED  BY <2>1, <2>2, <2>8, <2>9 DEF Scanned
<1>8. CASE ~(l < n /\ Matches(k, e))
  <2>1. ScanStep(out, r[Len(r) - i + 1], k, n) = out
    BY <1>1, <1>3, <1>4, <1>8 DEF ScanStep
  <2>2. g \in [1..l -> c..N]
    BY <1>5, <1>2
  <2>3. ASSUME NEW m \in c..N, Matches(k, r[m])
        PROVE  \/ \E a \in 1..l : g[a] = m
               \/ l = n /\ \A a \in 1..l : m < g[a]
    <3>1. CASE m = c
      <4>1. ~(l < n)
        BY <3>1, <2>3, <1>4, <1>8
      <4>2. l = n
        BY <4>1, <1>6
      <4>3. \A a \in 1..l : m < g[a]
        BY <3>1, <1>5, <1>2
      <4> QED  BY <4>2, <4>3
    <3>2. CASE m # c
      <4>1. m \in (c + 1)..N
        BY <3>2, <1>2
      <4> QED  BY <4>1, <2>3, <1>5
    <3> QED  BY <3>1, <3>2
  <2>4. Collected(g, out, r, i, k, n)
    BY <1>1, <1>3, <1>5, <2>2, <2>3 DEF Collected
  <2> QED  BY <2>1, <2>4, <1>1, <1>6 DEF Scanned
<1> QED  BY <1>7, <1>8

\* The loop has a result after every number of turns.
LEMMA ScansExist ==
  ASSUME NEW r \in Seq(Entry), NEW k, NEW n \in Nat
  PROVE  \E f : Scan(f, r, k, n, Len(r))
<1> DEFINE T == {d \in 0..Len(r) : ~ \E f : Scan(f, r, k, n, d)}
<1> SUFFICES ASSUME ~ \E f : Scan(f, r, k, n, Len(r)) PROVE FALSE
  OBVIOUS
<1>1. Len(r) \in T /\ T \in SUBSET Nat
  OBVIOUS
<1>2. PICK d \in T : \A y \in T : d <= y
  BY <1>1, LeastNumber
<1>3. CASE d = 0
  <2> DEFINE f == [i \in 0..0 |-> <<>>]
  <2>1. f \in [0..0 -> Seq(Entry)] /\ f[0] = <<>> /\ \A i \in 0..0 : f[i] = <<>> /\ i = 0
    OBVIOUS
  <2>2. Scan(f, r, k, n, 0)
    BY <2>1, ScannedNone DEF Scan
  <2> QED  BY <2>2, <1>2, <1>3
<1>4. CASE d # 0
  <2>1. d - 1 \in 0..Len(r) /\ d \in 1..Len(r) /\ d \in Nat
    BY <1>2, <1>4
  <2>2. d - 1 \notin T
    BY <2>1, <1>2
  <2>3. PICK f : Scan(f, r, k, n, d - 1)
    BY <2>1, <2>2
  <2>4. f[d - 1] \in Seq(Entry) /\ Scanned(f[d - 1], r, d - 1, k, n)
    BY <2>1, <2>3 DEF Scan
  <2>5. PICK z \in Seq(Entry) : /\ z = ScanStep(f[d - 1], r[Len(r) - d + 1], k, n)
                                /\ Scanned(z, r, d, k, n)
    BY <2>1, <2>4, ScannedMore
  <2> DEFINE h == [i \in 0..d |-> IF i = d THEN z ELSE f[i]]
  <2>6. h[d] = z /\ \A i \in 0..(d - 1) : h[i] = f[i]
    BY <2>1
  <2>7. h \in [0..d -> Seq(Entry)]
    BY <2>1, <2>3 DEF Scan
  <2> HIDE DEF h
  <2>8. h[0] = <<>>
    BY <2>1, <2>3, <2>6 DEF Scan
  <2>9. ASSUME NEW i \in 1..d PROVE h[i] = ScanStep(h[i - 1], r[Len(r) - i + 1], k, n)
    <3>1. CASE i = d
      <4>1. h[i - 1] = f[d - 1] /\ h[i] = z
        BY <3>1, <2>1, <2>6
      <4> QED  BY <4>1, <3>1, <2>5
    <3>2. CASE i # d
      <4>1. i \in 1..(d - 1) /\ i \in 0..(d - 1) /\ i - 1 \in 0..(d - 1)
        BY <3>2, <2>1
      <4>2. f[i] = ScanStep(f[i - 1], r[Len(r) - i + 1], k, n)
        BY <4>1, <2>3 DEF Scan
      <4> QED  BY <4>1, <4>2, <2>6
    <3> QED  BY <3>1, <3>2
  <2>10. ASSUME NEW i \in 0..d PROVE Scanned(h[i], r, i, k, n)
    <3>1. CASE i = d
      BY <3>1, <2>5, <2>6
    <3>2. CASE i # d
      <4>1. i \in 0..(d - 1)
        BY <3>2, <2>1
      <4> QED  BY <4>1, <2>3, <2>6 DEF Scan
    <3> QED  BY <3>1, <3>2
  <2>11. Scan(h, r, k, n, d)
    BY <2>7, <2>8, <2>9, <2>10 DEF Scan
  <2> QED  BY <2>11, <1>2
<1> QED  BY <1>3, <1>4

\* GetRecentEvents reverses its last value.
LEMMA ScanResult ==
  ASSUME NEW k, NEW n \in Nat, recent \in Seq(Entry)
  PROVE  \E f : Scan(f, recent, k, n, Len(recent))
                /\ GetRecentEvents(k, n) = Reverse(f[Len(recent)])
<1> DEFINE P(f) == f = [i \in 0..Len(recent) |->
                          IF i = 0 THEN <<>>
                          ELSE ScanStep(f[i - 1], recent[Len(recent) - i + 1], k, n)]
<1>1. PICK f : Scan(f, recent, k, n, Len(recent))
  BY ScansExist
<1>2. P(f)
  BY <1>1 DEF Scan
<1>3. PICK g : g = CHOOSE h : P(h)
  OBVIOUS
<1>4. P(g)
  <2> HIDE DEF P
  <2> QED  BY <1>2, <1>3, Zenon
<1>5. GetRecentEvents(k, n) = Reverse(g[Len(recent)])
  BY <1>3, Zenon DEF GetRecentEvents, ScanStep
<1>6. g = f
  <2> DEFINE D == {i \in 0..Len(recent) : g[i] # f[i]}
  <2>1. D = {}
    <3> SUFFICES ASSUME D # {} PROVE FALSE
      OBVIOUS
    <3>1. PICK d \in D : \A y \in D : d <= y
      <4>1. D \in SUBSET Nat
        OBVIOUS
      <4> QED  BY <4>1, LeastNumber
    <3>2. CASE d = 0
      BY <3>1, <3>2, <1>2, <1>4
    <3>3. CASE d # 0
      <4>1. d - 1 \in 0..Len(recent) /\ d - 1 \notin D /\ d \in 0..Len(recent)
        BY <3>1, <3>3
      <4>2. g[d - 1] = f[d - 1]
        BY <4>1
      <4> QED  BY <4>1, <4>2, <3>1, <3>3, <1>2, <1>4
    <3> QED  BY <3>2, <3>3
  <2>2. \A i \in 0..Len(recent) : g[i] = f[i]
    BY <2>1
  <2> QED  BY <2>2, <1>2, <1>4
<1> QED  BY <1>1, <1>5, <1>6

\* What it answers are the newest matching events of the deque, oldest first.
LEMMA AnswerFromRecent ==
  ASSUME NEW k, NEW n \in Nat, recent \in Seq(Entry)
  PROVE  NewestMatching(GetRecentEvents(k, n), k, n, recent)
<1>1. PICK N \in Nat : N = Len(recent)
  OBVIOUS
<1>2. PICK f : Scan(f, recent, k, n, N) /\ GetRecentEvents(k, n) = Reverse(f[N])
  BY <1>1, ScanResult
<1>3. PICK out \in Seq(Entry) : out = f[N] /\ Scanned(out, recent, N, k, n)
  BY <1>2 DEF Scan
<1>4. PICK l \in Nat : l = Len(out)
  OBVIOUS
<1>5. N - N + 1 = 1 /\ l <= n
  BY <1>3, <1>4 DEF Scanned
<1>6. PICK g : /\ g \in [1..l -> 1..N]
               /\ \A a, b \in 1..l : a < b => g[b] < g[a]
               /\ \A a \in 1..l : out[a] = recent[g[a]] /\ Matches(k, recent[g[a]])
               /\ \A m \in 1..N :
                    Matches(k, recent[m]) => \/ \E a \in 1..l : g[a] = m
                                             \/ l = n /\ \A a \in 1..l : m < g[a]
  BY <1>1, <1>3, <1>4, <1>5 DEF Scanned, Collected
<1>7. PICK ans : ans = GetRecentEvents(k, n)
  OBVIOUS
<1>8. ans = [a \in 1..l |-> out[(l - a) + 1]]
  BY <1>2, <1>3, <1>4, <1>7, Zenon DEF Reverse
<1>9. Len(ans) = l /\ DOMAIN ans = 1..l /\ DOMAIN recent = 1..N
  BY <1>1, <1>8
<1> DEFINE at == [a \in 1..l |-> g[(l - a) + 1]]
<1>10. \A a \in 1..l : (l - a) + 1 \in 1..l
  OBVIOUS
<1>11. \A a \in 1..l : at[a] = g[(l - a) + 1]
  OBVIOUS
<1>12. at \in [1..l -> Matching(k, recent)]
  BY <1>6, <1>9, <1>10 DEF Matching
<1>13. DOMAIN at = 1..l
  OBVIOUS
<1> HIDE DEF at
<1>14. ASSUME NEW a \in 1..l, NEW b \in 1..l, a < b PROVE at[a] < at[b]
  <2>1. (l - b) + 1 < (l - a) + 1
    BY <1>14
  <2> QED  BY <2>1, <1>6, <1>10, <1>11
<1>15. \A a \in 1..l : ans[a] = recent[at[a]]
  BY <1>6, <1>8, <1>10, <1>11
<1>16. ASSUME NEW m \in Matching(k, recent) \ Range(at)
       PROVE  l = n /\ \A a \in 1..l : m < at[a]
  <2>1. m \in 1..N /\ Matches(k, recent[m])
    BY <1>9 DEF Matching
  <2>2. ASSUME NEW a \in 1..l, g[a] = m PROVE FALSE
    <3>1. PICK b \in 1..l : b = (l - a) + 1
      BY <1>10
    <3>2. at[b] = m
      <4>1. (l - b) + 1 = a
        BY <3>1
      <4> QED  BY <4>1, <2>2, <1>11
    <3>3. m \in Range(at)
      BY <3>2, <1>13 DEF Range
    <3> QED  BY <3>3
  <2>3. l = n /\ \A a \in 1..l : m < g[a]
    BY <2>1, <2>2, <1>6
  <2> QED  BY <2>3, <1>10, <1>11
<1>17. NewestMatching(ans, k, n, recent)
  BY <1>5, <1>9, <1>12, <1>14, <1>15, <1>16 DEF NewestMatching
<1> QED  BY <1>7, <1>17

\* The deque holds the last events handed to the callback.
RecentIsNewest == kind = "detailed" => recent = Newest(handled, MaxRecent)

\* AnswersNewest: a query for the recent scheduler events of a task, or of all, is
\* answered with the newest matching ones of the last kMaxEvents that the callback was
\* handed, oldest first, and none of them twice.
THEOREM QueriesAnswerNewest == Spec => []AnswersNewest
<1>1. Init => RecentIsNewest
  BY TracersAssumption DEF Init, RecentIsNewest, Newest
<1>2. TraceInv /\ RecentIsNewest /\ [Next]_vars => RecentIsNewest'
  <2> SUFFICES ASSUME TraceInv, RecentIsNewest, [Next]_vars, kind' = "detailed"
               PROVE  recent' = Newest(handled', MaxRecent)
    BY DEF RecentIsNewest
  <2>1. CASE HandleEvent
    <3>1. kind = "detailed" /\ recent = Newest(handled, MaxRecent)
      BY <2>1 DEF HandleEvent, RecentIsNewest
    <3>2. CASE UNCHANGED <<handled, recent>>
      BY <3>1, <3>2
    <3>3. CASE /\ handled' = Newest(Append(handled, Head(ring)), MaxRecent + 1)
               /\ recent' = Newest(Append(recent, Head(ring)), MaxRecent)
      <4>1. PICK e \in Entry : e = Head(ring)
        <5>1. ring \in Seq(Entry) /\ ring # <<>>
          BY <2>1 DEF HandleEvent, TraceInv, RingTypes
        <5>2. Head(ring) \in Entry
          BY <5>1
        <5> QED  BY <5>2, Zenon
      <4>2. handled \in Seq(Entry) /\ MaxRecent \in Nat
        BY TracersAssumption DEF TraceInv, EventTypes
      <4>3. PICK s \in Seq(Entry) : s = Append(handled, e)
        <5>1. Append(handled, e) \in Seq(Entry)
          BY <4>2
        <5> QED  BY <5>1, Zenon
      <4>4. recent' = Newest(s, MaxRecent)
        BY <3>1, <3>3, <4>1, <4>2, <4>3, NewestAppended
      <4>5. Newest(handled', MaxRecent) = Newest(s, MaxRecent)
        BY <3>3, <4>1, <4>2, <4>3, NewestTwice
      <4> QED  BY <4>4, <4>5
    <3> QED  BY <2>1, <3>1, <3>2, <3>3 DEF HandleEvent
  <2>2. CASE UNCHANGED <<kind, handled, recent>>
    BY <2>2 DEF RecentIsNewest
  <2>3. CASE Kernel \/ Addition
    BY <2>2, <2>3 DEF Kernel, Wakeup, Migrate, Fork, Issue, Complete, Switch, SwitchTo, Later,
                      Addition, LoadCount, StoreCount, HitRest, events
  <2>4. CASE Starting
    BY <2>2, <2>4 DEF Starting, StartLoad, StartAttach, StartOpen, LoaderRest, events
  <2>5. CASE PollCheck \/ PollReturn
    BY <2>2, <2>5 DEF PollCheck, PollReturn
  <2>6. CASE StopBegin \/ Stopping
    BY <2>2, <2>6 DEF Stopping, StopBegin, StopFree, DetachAll, LoaderRest, events
  <2>7. CASE CollectOffcpu
    BY <2>2, <2>7 DEF CollectOffcpu
  <2>8. ASSUME NEW c \in Collectors, Collect(c)
        PROVE  UNCHANGED <<kind, handled, recent>>
    BY <2>8 DEF Collect, CollectBegin, CollectLookup, CollectDelete, CollectEnd, CollectRest, events
  <2>9. CASE UNCHANGED vars
    BY <2>2, <2>9 DEF vars, events
  <2> QED  BY <2>1, <2>2, <2>3, <2>4, <2>5, <2>6, <2>7, <2>8, <2>9 DEF Next, PollThread
<1>3. TraceInv /\ RecentIsNewest => AnswersNewest
  <2> SUFFICES ASSUME TraceInv, RecentIsNewest, kind = "detailed",
                      NEW k \in {0} \union Keys, NEW n \in 0..MaxRecent
               PROVE  NewestMatching(GetRecentEvents(k, n), k, n, Newest(handled, MaxRecent))
    BY DEF AnswersNewest
  <2>1. recent \in Seq(Entry) /\ n \in Nat /\ recent = Newest(handled, MaxRecent)
    BY TracersAssumption DEF TraceInv, EventTypes, RecentIsNewest
  <2>2. NewestMatching(GetRecentEvents(k, n), k, n, recent)
    BY <2>1, AnswerFromRecent
  <2> QED  BY <2>1, <2>2, Zenon
<1> QED  BY <1>1, <1>2, <1>3, TracersInvariant, PTL DEF Spec

\* ReportedOnce: what the callback has accepted is in one batch, what one caller is told
\* of the counts never exceeds the switches but for what was carried over, and a query
\* is answered with the newest events.
THEOREM EachReportedOnce == Spec => []ReportedOnce
<1>1. EachEventOnce /\ NeverInflated /\ AnswersNewest => ReportedOnce
  BY DEF ReportedOnce
<1> QED  BY <1>1, OffcpuEventsOnce, CountsNeverInflated, QueriesAnswerNewest, PTL
=============================================================================
