-------------------------- MODULE Pipeline_proofs --------------------------
(***************************************************************************)
(* Proofs about Pipeline for every number of pipelines, sinks, collectors  *)
(* and writers, every capacity and limit, push or pull sources, with or    *)
(* without aggregators and plugins that fail to start.                     *)
(*                                                                         *)
(* PipeInv ties the controller's position to what every thread may be      *)
(* doing; the order of StartAll and StopAll is what it rests on.  From it  *)
(* follow the plugins' life cycle, the drained channels and the bound of   *)
(* the SinkPool, with OnceInv the account of every batch, and that the two *)
(* pools are used as TaskFifo asks.                                        *)
(***************************************************************************)
EXTENDS Pipeline, SequenceTheorems, FiniteSetTheorems, TLAPS

-----------------------------------------------------------------------------
(* The inductive invariant *)

\* StopAll has stopped the timers and the CollectPool.
Closing == cpc \in {"stop", "stop_source", "join", "stop_plugins", "destroy",
                    "done"}

\* StartAll has not come to the process thread of p.
Unspawned(p) == \/ cpc \in {"start", "spawn"} /\ cp <= p
                \/ cpc = "callback" /\ cp < p

\* StopAll is between running_.exchange(false) of p and its last plugin ...
Stopping(p) == p = cp /\ cpc \in {"stop_source", "join", "stop_plugins"}

\* ... or has passed p.
StopDone(p) == (Closing /\ p < cp) \/ cpc \in {"destroy", "done"}

\* The process thread is inside HandleData, HandleFlush or SubmitToSinks.
Handling(p) == ppc[p] \in {"data", "flush", "submit", "push"}

\* The process thread has left the loop; it is in or past its last Flush.
Leaving(p) == ppc[p] \in {"drain", "exited"} \/ (Handling(p) /\ back[p] # "loop")
Last(p) == ppc[p] = "exited" \/ (Handling(p) /\ back[p] = "exited")

Starts ==
    /\ cpc \in {"spawn", "callback"} => stage = Source
    /\ cpc = "start" => \A i \in Stages :
           i < stage /\ Present(cp, i) => life[cp][i] = "started"
    /\ cpc = "spawn" => \A i \in Stages : Present(cp, i) => life[cp][i] = "started"
    /\ timer => cpc \in {"up", "stop_timer"}

Runs ==
    \A p \in Pipelines :
        /\ Unspawned(p) => ppc[p] = "off"
        /\ running[p] => ppc[p] # "off" /\ life[p][Source] = "started"
        /\ ~running[p] /\ ppc[p] # "off" => Stopping(p) \/ StopDone(p)
        /\ Stopping(p) => ~running[p]
        /\ StopDone(p) => ppc[p] \in {"off", "exited"}
        /\ cpc = "stop_plugins" /\ p = cp => ppc[p] = "exited"

\* A pipeline that a collector may work for.
Fed(p) == life[p][Source] = "started" /\ ppc[p] # "off"

Collects ==
    /\ Closing => collectq = <<>> /\ \A c \in Collectors : hand[c] = Idle
    /\ \A k \in 1..Len(collectq) : Fed(collectq[k])
    /\ \A c \in Collectors : /\ hand[c].p # 0 => Fed(hand[c].p)
                             /\ hand[c].b # 0 => hand[c].p # 0

\* The locals of the process thread.
Locals ==
    \A p \in Pipelines :
        /\ item[p] # 0 <=> ppc[p] = "data"
        /\ outbox[p] # <<>> => ppc[p] \in {"submit", "push"}
        /\ ppc[p] = "push" => outbox[p] # <<>>
        /\ ppc[p] # "push" => todo[p] = 1
        /\ ppc[p] = "data" => back[p] # "exited"
        /\ p \notin Agg => agg[p] = {}

PluginsUp ==
    \A p \in Pipelines : ppc[p] \notin {"off", "exited"} =>
        \A i \in {Processor, Aggregator} : Present(p, i) => life[p][i] = "started"

Drains ==
    \A p \in Pipelines :
        /\ Leaving(p) => Closing
        /\ p \notin Push /\ (Last(p) \/ ppc[p] = "off") => chan[p] = <<>>
        /\ Last(p) /\ ppc[p] # "flush" => agg[p] = {}
        /\ ppc[p] = "off" => agg[p] = {}

\* The submissions that a pipeline which has passed the test of SubmitToSinks
\* still owes.
Owed == {x \in Pipelines \X Sinks : ppc[x[1]] = "push" /\ todo[x[1]] <= x[2]}

\* A writer works on a task that was submitted.
Tasks ==
    \A w \in Writers : busy[w] # NoTask =>
        busy[w].p \in Pipelines /\ busy[w].s \in Sinks

Room == Len(pool) + Cardinality(Owed) <= MaxPending + N * NumSinks

PipeInv ==
    /\ TypeOK
    /\ Starts
    /\ Runs
    /\ Collects
    /\ Locals
    /\ PluginsUp
    /\ Drains
    /\ Tasks
    /\ Room

\* Batches are numbered in the order the source makes them.
Numbered ==
    \A p \in Pipelines, b \in Batches : made[p] < b => fate[p][b] = "unmade"

OnceInv == Numbered /\ EachBatchOnce

-----------------------------------------------------------------------------
(* Type correctness, one part of the state at a time *)

PPC == {"off", "loop", "wait", "drain", "data", "flush", "submit", "push", "exited"}
Fates == {"unmade", "flight", "early", "dropped", "error", "filtered", "shed"}
Task == [p : Pipelines, s : Sinks, b : SUBSET Batches]

CpcType == cpc \in {"start", "spawn", "callback", "timers", "up", "stop_timer",
                    "stop_collect", "stop", "stop_source", "join",
                    "stop_plugins", "destroy", "done"}
PlaceType == cp \in Pipelines /\ stage \in Stages
LifeType == life \in [Pipelines -> [Stages -> {"idle", "started", "stopped"}]]
FlagType == /\ running \in [Pipelines -> BOOLEAN]
            /\ callback \in [Pipelines -> BOOLEAN]
            /\ timer \in BOOLEAN
CollectType == /\ collectq \in Seq(Pipelines)
               /\ hand \in [Collectors -> [p : 0..N, b : 0..MaxBatches]]
ChanType == /\ chan \in [Pipelines -> Seq(0..MaxBatches)]
            /\ \A p \in Pipelines : Len(chan[p]) <= Capacity
PcType == ppc \in [Pipelines -> PPC] /\ back \in [Pipelines -> {"loop", "drain", "exited"}]
LocalType == /\ item \in [Pipelines -> 0..MaxBatches]
             /\ agg \in [Pipelines -> SUBSET Batches]
             /\ outbox \in [Pipelines -> Seq(SUBSET Batches)]
             /\ todo \in [Pipelines -> Sinks]
PoolType == /\ pool \in Seq(Task)
            /\ busy \in [Writers -> [p : 0..N, s : 0..NumSinks, b : SUBSET Batches]]
SinkType == /\ written \in [Pipelines -> [Sinks -> SUBSET Batches]]
            /\ late \in [Pipelines -> [Sinks -> SUBSET Batches]]
BatchType == /\ made \in [Pipelines -> 0..MaxBatches]
             /\ fate \in [Pipelines -> [Batches -> Fates]]

\* The parts are the whole, before and after a step.
LEMMA TypeParts ==
    /\ TypeOK <=> /\ CpcType /\ PlaceType /\ LifeType /\ FlagType /\ CollectType
                  /\ ChanType /\ PcType /\ LocalType /\ PoolType /\ SinkType
                  /\ BatchType
    /\ TypeOK' <=> /\ CpcType' /\ PlaceType' /\ LifeType' /\ FlagType'
                   /\ CollectType' /\ ChanType' /\ PcType' /\ LocalType'
                   /\ PoolType' /\ SinkType' /\ BatchType'
  BY Zenon DEF TypeOK, CpcType, PlaceType, LifeType, FlagType, CollectType,
               ChanType, PcType, LocalType, PoolType, SinkType, BatchType, PPC,
               Fates, Task

\* A part whose variables do not change keeps its type.
LEMMA TypeFrame ==
    ASSUME TypeOK
    PROVE  /\ UNCHANGED cpc => CpcType'
           /\ UNCHANGED <<cp, stage>> => PlaceType'
           /\ UNCHANGED life => LifeType'
           /\ UNCHANGED <<running, callback, timer>> => FlagType'
           /\ UNCHANGED <<collectq, hand>> => CollectType'
           /\ UNCHANGED chan => ChanType'
           /\ UNCHANGED <<ppc, back>> => PcType'
           /\ UNCHANGED <<item, agg, outbox, todo>> => LocalType'
           /\ UNCHANGED <<pool, busy>> => PoolType'
           /\ UNCHANGED <<written, late>> => SinkType'
           /\ UNCHANGED <<made, fate>> => BatchType'
<1>. USE TypeParts
<1>1. UNCHANGED cpc => CpcType'
  BY DEF CpcType
<1>2. UNCHANGED <<cp, stage>> => PlaceType'
  BY DEF PlaceType
<1>3. UNCHANGED life => LifeType'
  BY DEF LifeType
<1>4. UNCHANGED <<running, callback, timer>> => FlagType'
  BY DEF FlagType
<1>5. UNCHANGED <<collectq, hand>> => CollectType'
  BY DEF CollectType
<1>6. UNCHANGED chan => ChanType'
  BY DEF ChanType
<1>7. UNCHANGED <<ppc, back>> => PcType'
  BY DEF PcType
<1>8. UNCHANGED <<item, agg, outbox, todo>> => LocalType'
  BY DEF LocalType
<1>9. UNCHANGED <<pool, busy>> => PoolType'
  BY DEF PoolType
<1>10. UNCHANGED <<written, late>> => SinkType'
  BY DEF SinkType
<1>11. UNCHANGED <<made, fate>> => BatchType'
  BY DEF BatchType
<1>. QED  BY <1>1, <1>2, <1>3, <1>4, <1>5, <1>6, <1>7, <1>8, <1>9, <1>10, <1>11

\* Offering an item leaves the channel a sequence within its capacity.
LEMMA OfferedType ==
    ASSUME ChanType, NEW p \in Pipelines, NEW x \in 0..MaxBatches, NEW evict \in BOOLEAN
    PROVE  /\ Offered(p, x, evict) \in Seq(0..MaxBatches)
           /\ Len(Offered(p, x, evict)) <= Capacity
<1>1. /\ chan[p] \in Seq(0..MaxBatches) /\ Len(chan[p]) <= Capacity
      /\ Capacity \in Nat \ {0} /\ Len(chan[p]) \in Nat
  BY PipelineAssumption DEF ChanType
<1>2. CASE Len(chan[p]) < Capacity
  BY <1>1, <1>2 DEF Offered
<1>3. CASE ~(Len(chan[p]) < Capacity)
  <2>1. chan[p] # <<>> /\ Len(chan[p]) = Capacity
    BY <1>1, <1>3
  <2>2. Tail(chan[p]) \in Seq(0..MaxBatches) /\ Len(Tail(chan[p])) = Capacity - 1
    BY <1>1, <2>1, HeadTailProperties
  <2>3. /\ Append(Tail(chan[p]), x) \in Seq(0..MaxBatches)
        /\ Len(Append(Tail(chan[p]), x)) = Capacity
    BY <1>1, <2>2
  <2>4. CASE evict
    BY <1>3, <2>3, <2>4, <1>1 DEF Offered
  <2>5. CASE ~evict
    BY <1>3, <2>5, <1>1 DEF Offered
  <2>. QED  BY <2>4, <2>5
<1>. QED  BY <1>2, <1>3

\* The channel and the fates after an offer to pipeline p.
LEMMA OfferType ==
    ASSUME ChanType, BatchType, NEW p \in Pipelines, NEW x \in 0..MaxBatches,
           NEW evict \in BOOLEAN, NEW f \in [Batches -> Fates],
           chan' = [chan EXCEPT ![p] = Offered(p, x, evict)],
           fate' = [fate EXCEPT ![p] = FatesAfterOffer(p, x, evict, f)]
    PROVE  /\ ChanType'
           /\ fate' \in [Pipelines -> [Batches -> Fates]]
<1>1. /\ Offered(p, x, evict) \in Seq(0..MaxBatches)
      /\ Len(Offered(p, x, evict)) <= Capacity
  BY OfferedType
<1>2. FatesAfterOffer(p, x, evict, f) \in [Batches -> Fates]
  BY DEF FatesAfterOffer, Fates
<1>3. ChanType'
  BY <1>1 DEF ChanType
<1>. QED  BY <1>2, <1>3 DEF BatchType

\* The constructor's state is of the type.
LEMMA TypeInit == Init => TypeOK
<1>. SUFFICES ASSUME Init PROVE TypeOK
  OBVIOUS
<1>. USE PipelineAssumption
<1>1. CpcType /\ PlaceType /\ LifeType
  BY DEF Init, CpcType, PlaceType, LifeType, Pipelines, Stages, Source
<1>2. FlagType
  <2>1. timer \in BOOLEAN
    BY Zenon DEF Init
  <2>. QED  BY <2>1 DEF Init, FlagType
<1>3. CollectType /\ ChanType
  BY DEF Init, CollectType, ChanType, Idle
<1>4. PcType
  BY DEF Init, PcType, PPC
<1>5. LocalType
  BY DEF Init, LocalType, Sinks
<1>6. PoolType
  BY DEF Init, PoolType, NoTask
<1>7. SinkType
  BY DEF Init, SinkType
<1>8. BatchType
  BY DEF Init, BatchType, Fates
<1>. QED  BY <1>1, <1>2, <1>3, <1>4, <1>5, <1>6, <1>7, <1>8, TypeParts

\* StartAll, StopAll and the destructor keep the types.
LEMMA TypeController ==
    ASSUME TypeOK, Controller \/ Shutdown
    PROVE  TypeOK'
<1>. USE PipelineAssumption
<1>0. /\ UNCHANGED <<collectq, hand, chan, back, item, agg, outbox, todo, pool,
                     busy, written, late, made, fate>>
      /\ UNCHANGED ppc \/ ppc' = [ppc EXCEPT ![cp] = "loop"]
  BY Zenon DEF Controller, StartPlugin, StartPluginFails, StartThread, StartCallback,
         StartTimers, Shutdown, StopTimer, StopCollectPool, StopExchange,
         StopSource, StopJoin, StopPlugin, Destroy, processVars, collectVars,
         sinkVars, batchVars
<1>1. /\ CollectType' /\ ChanType' /\ LocalType' /\ PoolType' /\ SinkType'
      /\ BatchType'
  BY <1>0, TypeFrame
<1>2. PcType'
  <2>1. PcType
    BY TypeParts
  <2>. QED  BY <1>0, <2>1 DEF PcType, PPC
<1>3. CpcType'
  <2>1. CpcType
    BY TypeParts
  <2>. QED
    BY <2>1 DEF CpcType, Controller, StartPlugin, StartPluginFails, StartThread,
         StartCallback, StartTimers, Shutdown, StopTimer, StopCollectPool,
         StopExchange, StopNext, StopSource, StopJoin, StopPlugin, Destroy
<1>4. PlaceType'
  <2>1. PlaceType
    BY TypeParts
  <2>2. \/ cp' = cp \/ cp' = 1 \/ (cp < N /\ cp' = cp + 1)
    BY DEF Controller, StartPlugin, StartPluginFails, StartThread,
           StartCallback, StartTimers, Shutdown, StopTimer, StopCollectPool,
           StopExchange, StopNext, StopSource, StopJoin, StopPlugin, Destroy
  <2>3. \/ stage' = stage \/ stage' = 1 \/ stage' = 2
        \/ (stage < 3 + NumSinks /\ stage' = stage + 1)
    BY DEF Controller, StartPlugin, StartPluginFails, StartThread,
           StartCallback, StartTimers, Shutdown, StopTimer, StopCollectPool,
           StopExchange, StopSource, StopJoin, StopPlugin, Destroy,
           Source, Processor
  <2>4. cp' \in Pipelines
    BY <2>1, <2>2 DEF PlaceType, Pipelines
  <2>5. stage' \in Stages
    BY <2>1, <2>3 DEF PlaceType, Stages
  <2>. QED  BY <2>4, <2>5 DEF PlaceType
<1>5. LifeType'
  <2>1. \/ UNCHANGED life
        \/ life' = [life EXCEPT ![cp][Source] = "stopped"]
        \/ life' = [life EXCEPT ![cp][stage] =
                       IF Present(cp, stage) THEN "started" ELSE @]
        \/ life' = [life EXCEPT ![cp][stage] =
                       IF Present(cp, stage) THEN "stopped" ELSE @]
    BY Zenon DEF Controller, StartPlugin, StartPluginFails, StartThread,
           StartCallback, StartTimers, Shutdown, StopTimer, StopCollectPool,
           StopExchange, StopSource, StopJoin, StopPlugin, Destroy
  <2>2. LifeType
    BY TypeParts
  <2>. QED  BY <2>1, <2>2 DEF LifeType
<1>6. FlagType'
  <2>1. /\ UNCHANGED running \/ \E v \in BOOLEAN : running' = [running EXCEPT ![cp] = v]
        /\ UNCHANGED callback \/ callback' = [callback EXCEPT ![cp] = cp \in Push]
        /\ timer' = timer \/ timer' = TRUE \/ timer' = FALSE
    BY Zenon DEF Controller, StartPlugin, StartPluginFails, StartThread,
           StartCallback, StartTimers, Shutdown, StopTimer, StopCollectPool,
           StopExchange, StopSource, StopJoin, StopPlugin, Destroy
  <2>2. FlagType
    BY TypeParts
  <2>3. running' \in [Pipelines -> BOOLEAN]
    BY <2>1, <2>2 DEF FlagType
  <2>4. callback' \in [Pipelines -> BOOLEAN]
    <3>1. (cp \in Push) = TRUE \/ (cp \in Push) = FALSE
      OBVIOUS
    <3>2. \/ UNCHANGED callback
          \/ callback' = [callback EXCEPT ![cp] = TRUE]
          \/ callback' = [callback EXCEPT ![cp] = FALSE]
      BY <2>1, <3>1, Zenon
    <3>. QED  BY <2>2, <3>2 DEF FlagType
  <2>5. timer' \in BOOLEAN
    BY <2>1, <2>2, Zenon DEF FlagType
  <2>. QED  BY <2>3, <2>4, <2>5 DEF FlagType
<1>. QED  BY <1>1, <1>2, <1>3, <1>4, <1>5, <1>6, TypeParts

\* The sources, the timers and the collectors keep the types.
LEMMA TypeSources ==
    ASSUME TypeOK, Collects,
           \/ \E p \in Pipelines : SourceEvent(p) \/ CollectTick(p) \/ InjectFlush(p)
           \/ \E c \in Collectors : Collector(c)
    PROVE  TypeOK'
<1>. USE PipelineAssumption
<1>0. /\ CollectType /\ ChanType /\ BatchType
      /\ \A p \in Pipelines : fate[p] \in [Batches -> Fates]
  BY TypeParts DEF BatchType
<1>1. UNCHANGED <<cpc, cp, stage, life, running, callback, timer, ppc, back, item,
                  agg, outbox, todo, pool, busy, written, late>>
  BY Zenon DEF SourceEvent, CollectTick, InjectFlush, Collector, CollectTake,
         CollectMake, CollectNothing, CollectEnqueue, controlVars, processVars,
         sinkVars
<1>2. /\ CpcType' /\ PlaceType' /\ LifeType' /\ FlagType' /\ PcType' /\ LocalType'
      /\ PoolType' /\ SinkType'
  BY <1>1, TypeFrame
<1>3. ASSUME NEW p \in Pipelines, SourceEvent(p)
      PROVE  CollectType' /\ ChanType' /\ BatchType'
  <2>1. PICK b \in 1..MaxBatches : b = made[p] + 1
    BY <1>0, <1>3 DEF SourceEvent, BatchType
  <2>2. /\ UNCHANGED <<collectq, hand>>
        /\ made' = [made EXCEPT ![p] = b]
    BY <1>3, <2>1 DEF SourceEvent, collectVars
  <2>3. CollectType' /\ made' \in [Pipelines -> 0..MaxBatches]
    BY <1>0, <2>2, TypeFrame DEF BatchType
  <2>4. CASE callback[p]
    <3>1. /\ chan' = [chan EXCEPT ![p] = Offered(p, b, DropOldest)]
          /\ fate' = [fate EXCEPT ![p] = FatesAfterOffer(p, b, DropOldest,
                         [fate[p] EXCEPT ![b] = "flight"])]
      BY <1>3, <2>1, <2>4 DEF SourceEvent, Enqueue
    <3>2. [fate[p] EXCEPT ![b] = "flight"] \in [Batches -> Fates]
      BY <1>0 DEF Fates
    <3>3. b \in 0..MaxBatches
      OBVIOUS
    <3>4. ChanType' /\ fate' \in [Pipelines -> [Batches -> Fates]]
      BY <1>0, <3>1, <3>2, <3>3, OfferType
    <3>. QED  BY <2>3, <3>4 DEF BatchType
  <2>5. CASE ~callback[p]
    <3>1. fate' = [fate EXCEPT ![p][b] = "early"] /\ UNCHANGED chan
      BY <1>3, <2>1, <2>5 DEF SourceEvent
    <3>2. fate' \in [Pipelines -> [Batches -> Fates]]
      BY <1>0, <3>1 DEF BatchType, Fates
    <3>. QED  BY <2>3, <3>1, <3>2, TypeFrame DEF BatchType
  <2>. QED  BY <2>4, <2>5
<1>4. ASSUME NEW p \in Pipelines, CollectTick(p)
      PROVE  CollectType' /\ ChanType' /\ BatchType'
  <2>1. collectq' = Append(collectq, p) /\ UNCHANGED <<hand, chan, made, fate>>
    BY <1>4 DEF CollectTick, batchVars
  <2>2. CollectType'
    BY <1>0, <2>1 DEF CollectType
  <2>. QED  BY <2>1, <2>2, TypeFrame
<1>5. ASSUME NEW p \in Pipelines, InjectFlush(p)
      PROVE  CollectType' /\ ChanType' /\ BatchType'
  <2>1. /\ chan' = [chan EXCEPT ![p] = Offered(p, Flush, TRUE)]
        /\ fate' = [fate EXCEPT ![p] = FatesAfterOffer(p, Flush, TRUE, fate[p])]
        /\ UNCHANGED <<collectq, hand, made>>
    BY <1>5 DEF InjectFlush, collectVars
  <2>2. Flush \in 0..MaxBatches /\ TRUE \in BOOLEAN
    BY DEF Flush
  <2>3. ChanType' /\ fate' \in [Pipelines -> [Batches -> Fates]]
    BY <1>0, <2>1, <2>2, OfferType
  <2>. QED  BY <1>0, <2>1, <2>3, TypeFrame DEF BatchType
<1>6. ASSUME NEW c \in Collectors, CollectTake(c)
      PROVE  CollectType' /\ ChanType' /\ BatchType'
  <2>1. /\ collectq # <<>> /\ collectq' = Tail(collectq)
        /\ hand' = [hand EXCEPT ![c] = [p |-> Head(collectq), b |-> 0]]
        /\ UNCHANGED <<chan, made, fate>>
    BY <1>6 DEF CollectTake, batchVars
  <2>2. Head(collectq) \in Pipelines /\ Tail(collectq) \in Seq(Pipelines)
    BY <1>0, <2>1, HeadTailProperties DEF CollectType
  <2>3. [p |-> Head(collectq), b |-> 0] \in [p : 0..N, b : 0..MaxBatches]
    BY <2>2 DEF Pipelines
  <2>4. CollectType'
    BY <1>0, <2>1, <2>2, <2>3 DEF CollectType
  <2>. QED  BY <2>1, <2>4, TypeFrame
<1>7. ASSUME NEW c \in Collectors, CollectMake(c)
      PROVE  CollectType' /\ ChanType' /\ BatchType'
  <2>1. PICK p \in Pipelines : p = hand[c].p
    <3>1. hand[c].p \in 0..N /\ hand[c].p # 0
      BY <1>0, <1>7 DEF CollectMake, CollectType
    <3>. QED  BY <3>1 DEF Pipelines
  <2>2. PICK b \in 1..MaxBatches : b = made[p] + 1
    BY <1>0, <1>7, <2>1 DEF CollectMake, BatchType
  <2>3. /\ made' = [made EXCEPT ![p] = b]
        /\ fate' = [fate EXCEPT ![p][b] = "flight"]
        /\ hand' = [hand EXCEPT ![c].b = b]
        /\ UNCHANGED <<collectq, chan>>
    BY <1>7, <2>1, <2>2 DEF CollectMake
  <2>4. CollectType'
    <3>1. hand[c] \in [p : 0..N, b : 0..MaxBatches] /\ b \in 0..MaxBatches
      BY <1>0 DEF CollectType
    <3>2. [hand[c] EXCEPT !.b = b] \in [p : 0..N, b : 0..MaxBatches]
      BY <3>1
    <3>. QED  BY <1>0, <2>3, <3>2 DEF CollectType
  <2>5. BatchType'
    <3>1. [fate[p] EXCEPT ![b] = "flight"] \in [Batches -> Fates]
      BY <1>0 DEF Fates
    <3>2. fate' \in [Pipelines -> [Batches -> Fates]]
      BY <1>0, <2>3, <3>1 DEF BatchType
    <3>3. made' \in [Pipelines -> 0..MaxBatches]
      BY <1>0, <2>3 DEF BatchType
    <3>. QED  BY <3>2, <3>3 DEF BatchType
  <2>. QED  BY <2>3, <2>4, <2>5, TypeFrame
<1>8. ASSUME NEW c \in Collectors, CollectNothing(c)
      PROVE  CollectType' /\ ChanType' /\ BatchType'
  <2>1. hand' = [hand EXCEPT ![c] = Idle] /\ UNCHANGED <<collectq, chan, made, fate>>
    BY <1>8 DEF CollectNothing, batchVars
  <2>2. CollectType'
    BY <1>0, <2>1 DEF CollectType, Idle
  <2>. QED  BY <2>1, <2>2, TypeFrame
<1>9. ASSUME NEW c \in Collectors, CollectEnqueue(c)
      PROVE  CollectType' /\ ChanType' /\ BatchType'
  <2>1. PICK p \in Pipelines : p = hand[c].p
    <3>1. hand[c].p \in 0..N /\ hand[c].p # 0
      BY <1>0, <1>9 DEF CollectEnqueue, CollectType, Collects
    <3>. QED  BY <3>1 DEF Pipelines
  <2>2. PICK b \in 0..MaxBatches : b = hand[c].b
    BY <1>0 DEF CollectType
  <2>3. /\ chan' = [chan EXCEPT ![p] = Offered(p, b, DropOldest)]
        /\ fate' = [fate EXCEPT ![p] = FatesAfterOffer(p, b, DropOldest, fate[p])]
        /\ hand' = [hand EXCEPT ![c] = Idle]
        /\ UNCHANGED <<collectq, made>>
    BY <1>9, <2>1, <2>2 DEF CollectEnqueue, Enqueue
  <2>4. CollectType'
    BY <1>0, <2>3 DEF CollectType, Idle
  <2>5. ChanType' /\ fate' \in [Pipelines -> [Batches -> Fates]]
    BY <1>0, <2>3, OfferType
  <2>. QED  BY <1>0, <2>3, <2>4, <2>5 DEF BatchType
<1>10. CollectType' /\ ChanType' /\ BatchType'
  BY <1>3, <1>4, <1>5, <1>6, <1>7, <1>8, <1>9 DEF Collector
<1>. QED  BY <1>2, <1>10, TypeParts

\* The process threads keep the types.
LEMMA TypeProcess ==
    ASSUME TypeOK, Locals, NEW p \in Pipelines, Process(p)
    PROVE  TypeOK'
<1>. USE PipelineAssumption
<1>0. /\ ChanType /\ PcType /\ LocalType /\ PoolType /\ BatchType
      /\ fate[p] \in [Batches -> Fates] /\ back[p] \in {"loop", "drain", "exited"}
      /\ agg[p] \in SUBSET Batches /\ outbox[p] \in Seq(SUBSET Batches)
      /\ item[p] \in 0..MaxBatches /\ todo[p] \in Sinks /\ chan[p] \in Seq(0..MaxBatches)
  BY TypeParts DEF BatchType, PcType, LocalType, ChanType
<1>1. UNCHANGED <<cpc, cp, stage, life, running, callback, timer, collectq, hand,
                  busy, written, late, made>>
  BY Zenon DEF Process, ProcessCheck, ProcessDequeue, ProcessTimeout,
         ProcessDrained, HandleDataEnds, HandleData, HandleFlush, SubmitCheck,
         SubmitSink, SubmitDone, controlVars, collectVars, sinkVars, batchVars
<1>2. CpcType' /\ PlaceType' /\ LifeType' /\ FlagType' /\ CollectType' /\ SinkType'
  BY <1>1, TypeFrame
<1>3. CASE ProcessCheck(p) \/ ProcessTimeout(p) \/ ProcessDrained(p) \/ SubmitDone(p)
  <2>1. /\ UNCHANGED <<chan, item, agg, outbox, todo, pool, fate>>
        /\ \E l \in PPC : ppc' = [ppc EXCEPT ![p] = l]
        /\ back' = back \/ back' = [back EXCEPT ![p] = "exited"]
    BY <1>0, <1>3 DEF ProcessCheck, ProcessTimeout, ProcessDrained, SubmitDone,
           sinkVars, batchVars, PPC
  <2>2. PcType'
    BY <1>0, <2>1 DEF PcType
  <2>. QED  BY <1>1, <1>2, <2>1, <2>2, TypeFrame, TypeParts
<1>4. CASE ProcessDequeue(p)
  <2>1. /\ chan[p] # <<>> /\ chan' = [chan EXCEPT ![p] = Tail(chan[p])]
        /\ \E l \in {"loop", "drain"} : back' = [back EXCEPT ![p] = l]
        /\ \E l \in {"flush", "data"} : ppc' = [ppc EXCEPT ![p] = l]
        /\ item' = item \/ item' = [item EXCEPT ![p] = Head(chan[p])]
        /\ UNCHANGED <<agg, outbox, todo, pool, fate>>
    BY <1>4 DEF ProcessDequeue, sinkVars, batchVars
  <2>2. /\ Head(chan[p]) \in 0..MaxBatches /\ Tail(chan[p]) \in Seq(0..MaxBatches)
        /\ Len(Tail(chan[p])) = Len(chan[p]) - 1
    BY <1>0, <2>1, HeadTailProperties
  <2>7. Len(chan[p]) \in Nat
    BY <1>0
  <2>3. Len(Tail(chan[p])) <= Capacity
    BY <1>0, <2>2, <2>7 DEF ChanType
  <2>4. ChanType'
    BY <1>0, <2>1, <2>2, <2>3 DEF ChanType
  <2>5. PcType'
    BY <1>0, <2>1 DEF PcType, PPC
  <2>6. LocalType'
    BY <1>0, <2>1, <2>2 DEF LocalType
  <2>. QED  BY <1>1, <1>2, <2>1, <2>4, <2>5, <2>6, TypeFrame, TypeParts
<1>5. CASE HandleDataEnds(p)
  <2>1. /\ item' = [item EXCEPT ![p] = 0] /\ ppc' = [ppc EXCEPT ![p] = back[p]]
        /\ \E f \in {"error", "filtered"} : fate' = [fate EXCEPT ![p][item[p]] = f]
        /\ UNCHANGED <<chan, back, agg, outbox, todo, pool>>
    BY <1>5 DEF HandleDataEnds, sinkVars
  <2>2. PcType'
    BY <1>0, <2>1 DEF PcType, PPC
  <2>3. LocalType'
    BY <1>0, <2>1 DEF LocalType
  <2>4. BatchType'
    <3>1. PICK f \in {"error", "filtered"} : fate' = [fate EXCEPT ![p][item[p]] = f]
      BY <2>1
    <3>2. [fate[p] EXCEPT ![item[p]] = f] \in [Batches -> Fates]
      BY <1>0 DEF Fates
    <3>. QED  BY <1>0, <1>1, <3>1, <3>2 DEF BatchType
  <2>. QED  BY <1>1, <1>2, <2>1, <2>2, <2>3, <2>4, TypeFrame, TypeParts
<1>6. CASE HandleData(p)
  <2>1. /\ item' = [item EXCEPT ![p] = 0]
        /\ \/ /\ agg' = [agg EXCEPT ![p] = agg[p] \cup {item[p]}] /\ outbox' = outbox
              /\ ppc' = [ppc EXCEPT ![p] = back[p]]
           \/ /\ outbox' = [outbox EXCEPT ![p] = <<{item[p]}>>] /\ agg' = agg
              /\ ppc' = [ppc EXCEPT ![p] = "submit"]
        /\ UNCHANGED <<chan, back, todo, pool, fate>>
    BY <1>6 DEF HandleData, sinkVars, batchVars
  <2>2. {item[p]} \in SUBSET Batches
    <3>1. item[p] # 0
      BY <1>6 DEF HandleData, Locals
    <3>. QED  BY <1>0, <3>1 DEF Batches
  <2>3. PcType'
    BY <1>0, <2>1 DEF PcType, PPC
  <2>4. <<{item[p]}>> \in Seq(SUBSET Batches) /\ agg[p] \cup {item[p]} \in SUBSET Batches
    BY <1>0, <2>2
  <2>5. LocalType'
    <3>1. agg' \in [Pipelines -> SUBSET Batches]
      BY <1>0, <2>1, <2>4 DEF LocalType
    <3>2. outbox' \in [Pipelines -> Seq(SUBSET Batches)]
      BY <1>0, <2>1, <2>4 DEF LocalType
    <3>3. item' \in [Pipelines -> 0..MaxBatches] /\ todo' \in [Pipelines -> Sinks]
      BY <1>0, <2>1 DEF LocalType
    <3>. QED  BY <3>1, <3>2, <3>3 DEF LocalType
  <2>. QED  BY <1>1, <1>2, <2>1, <2>3, <2>5, TypeFrame, TypeParts
<1>7. CASE HandleFlush(p)
  <2>1. PICK rec \in SUBSET agg[p] :
          outbox' = [outbox EXCEPT ![p] = Batched(rec) \o Batched(agg[p] \ rec)]
    BY <1>7 DEF HandleFlush
  <2>2. /\ agg' = [agg EXCEPT ![p] = {}] /\ ppc' = [ppc EXCEPT ![p] = "submit"]
        /\ UNCHANGED <<chan, back, item, todo, pool, fate>>
    BY <1>7 DEF HandleFlush, sinkVars, batchVars
  <2>3. ASSUME NEW x \in SUBSET Batches PROVE Batched(x) \in Seq(SUBSET Batches)
    <3>1. <<>> \in Seq(SUBSET Batches) /\ <<x>> \in Seq(SUBSET Batches)
      OBVIOUS
    <3>. QED  BY <3>1 DEF Batched
  <2>4. rec \in SUBSET Batches /\ agg[p] \ rec \in SUBSET Batches
    BY <1>0
  <2>5. Batched(rec) \o Batched(agg[p] \ rec) \in Seq(SUBSET Batches)
    BY <2>3, <2>4, ConcatProperties
  <2>6. PcType'
    BY <1>0, <2>2 DEF PcType, PPC
  <2>7. LocalType'
    BY <1>0, <2>1, <2>2, <2>5 DEF LocalType
  <2>. QED  BY <1>1, <1>2, <2>2, <2>6, <2>7, TypeFrame, TypeParts
<1>8. CASE SubmitCheck(p)
  <2>1. /\ outbox[p] # <<>>
        /\ \/ /\ fate' = [fate EXCEPT ![p] = [b \in Batches |->
                     IF b \in Head(outbox[p]) THEN "shed" ELSE fate[p][b]]]
              /\ outbox' = [outbox EXCEPT ![p] = Tail(outbox[p])] /\ ppc' = ppc
           \/ ppc' = [ppc EXCEPT ![p] = "push"] /\ fate' = fate /\ outbox' = outbox
        /\ UNCHANGED <<chan, back, item, agg, todo, pool>>
    BY <1>8 DEF SubmitCheck, sinkVars
  <2>2. Tail(outbox[p]) \in Seq(SUBSET Batches)
    BY <1>0, <2>1, HeadTailProperties
  <2>3. PcType'
    BY <1>0, <2>1 DEF PcType, PPC
  <2>4. LocalType'
    BY <1>0, <2>1, <2>2 DEF LocalType
  <2>5. BatchType'
    <3>1. [b \in Batches |-> IF b \in Head(outbox[p]) THEN "shed" ELSE fate[p][b]]
            \in [Batches -> Fates]
      BY <1>0 DEF Fates
    <3>. QED  BY <1>0, <1>1, <2>1, <3>1 DEF BatchType
  <2>. QED  BY <1>1, <1>2, <2>1, <2>3, <2>4, <2>5, TypeFrame, TypeParts
<1>9. CASE SubmitSink(p)
  <2>1. /\ outbox[p] # <<>>
        /\ pool' = Append(pool, [p |-> p, s |-> todo[p], b |-> Head(outbox[p])])
        /\ \/ /\ todo[p] < NumSinks /\ todo' = [todo EXCEPT ![p] = todo[p] + 1]
              /\ outbox' = outbox /\ ppc' = ppc
           \/ /\ todo' = [todo EXCEPT ![p] = 1]
              /\ outbox' = [outbox EXCEPT ![p] = Tail(outbox[p])]
              /\ ppc' = [ppc EXCEPT ![p] = "submit"]
        /\ UNCHANGED <<chan, back, item, agg, fate>>
    BY <1>9 DEF SubmitSink, batchVars, Locals
  <2>2. Head(outbox[p]) \in SUBSET Batches /\ Tail(outbox[p]) \in Seq(SUBSET Batches)
    BY <1>0, <2>1, HeadTailProperties
  <2>3. PcType'
    BY <1>0, <2>1 DEF PcType, PPC
  <2>4. 1 \in Sinks /\ (todo[p] < NumSinks => todo[p] + 1 \in Sinks)
    BY <1>0 DEF Sinks
  <2>5. LocalType'
    BY <1>0, <2>1, <2>2, <2>4 DEF LocalType
  <2>6. [p |-> p, s |-> todo[p], b |-> Head(outbox[p])] \in Task
    BY <1>0, <2>2 DEF Task
  <2>7. PoolType'
    BY <1>0, <1>1, <2>1, <2>6 DEF PoolType
  <2>. QED  BY <1>1, <1>2, <2>1, <2>3, <2>5, <2>7, TypeFrame, TypeParts
<1>. QED  BY <1>3, <1>4, <1>5, <1>6, <1>7, <1>8, <1>9 DEF Process

\* The writers keep the types.
LEMMA TypeWriter ==
    ASSUME TypeOK, Tasks, NEW w \in Writers, Writer(w)
    PROVE  TypeOK'
<1>. USE PipelineAssumption
<1>0. PoolType /\ SinkType
  BY TypeParts
<1>1. UNCHANGED <<cpc, cp, stage, life, running, callback, timer, collectq, hand,
                  chan, ppc, back, item, agg, outbox, todo, made, fate>>
  BY Zenon DEF Writer, WriterTake, WriterWrite, controlVars, collectVars,
               processVars, batchVars
<1>2. /\ CpcType' /\ PlaceType' /\ LifeType' /\ FlagType' /\ CollectType'
      /\ ChanType' /\ PcType' /\ LocalType' /\ BatchType'
  BY <1>1, TypeFrame
<1>3. CASE WriterTake(w)
  <2>1. /\ pool # <<>> /\ busy' = [busy EXCEPT ![w] = Head(pool)]
        /\ pool' = Tail(pool) /\ UNCHANGED <<written, late>>
    BY <1>3 DEF WriterTake
  <2>2. Head(pool) \in Task /\ Tail(pool) \in Seq(Task)
    BY <1>0, <2>1, HeadTailProperties DEF PoolType
  <2>3. Head(pool) \in [p : 0..N, s : 0..NumSinks, b : SUBSET Batches]
    BY <2>2 DEF Task, Pipelines, Sinks
  <2>4. PoolType'
    BY <1>0, <2>1, <2>2, <2>3 DEF PoolType
  <2>. QED  BY <1>2, <2>1, <2>4, TypeFrame, TypeParts
<1>4. CASE WriterWrite(w)
  <2>0. PICK p \in Pipelines, s \in Sinks, b \in SUBSET Batches :
              p = busy[w].p /\ s = busy[w].s /\ b = busy[w].b
    BY <1>0, <1>4 DEF WriterWrite, Tasks, PoolType
  <2>1. /\ busy' = [busy EXCEPT ![w] = NoTask] /\ pool' = pool
        /\ \/ /\ written' = [written EXCEPT ![p][s] = @ \cup b]
              /\ late' = late
           \/ /\ late' = [late EXCEPT ![p][s] = @ \cup b]
              /\ written' = written
    BY <1>4, <2>0 DEF WriterWrite
  <2>2. PoolType'
    BY <1>0, <2>1 DEF PoolType, NoTask
  <2>3. SinkType'
    <3>1. /\ written[p][s] \cup b \in SUBSET Batches
          /\ late[p][s] \cup b \in SUBSET Batches
      BY <1>0 DEF SinkType
    <3>2. /\ [written[p] EXCEPT ![s] = written[p][s] \cup b] \in [Sinks -> SUBSET Batches]
          /\ [late[p] EXCEPT ![s] = late[p][s] \cup b] \in [Sinks -> SUBSET Batches]
      BY <1>0, <3>1 DEF SinkType
    <3>3. /\ \/ written' = [written EXCEPT ![p] = [written[p] EXCEPT ![s] = written[p][s] \cup b]]
             \/ written' = written
          /\ \/ late' = [late EXCEPT ![p] = [late[p] EXCEPT ![s] = late[p][s] \cup b]]
             \/ late' = late
      BY <2>1
    <3>4. written' \in [Pipelines -> [Sinks -> SUBSET Batches]]
      BY <1>0, <3>2, <3>3 DEF SinkType
    <3>5. late' \in [Pipelines -> [Sinks -> SUBSET Batches]]
      BY <1>0, <3>2, <3>3 DEF SinkType
    <3>. QED  BY <3>4, <3>5 DEF SinkType
  <2>. QED  BY <1>2, <2>1, <2>2, <2>3, TypeParts
<1>. QED  BY <1>3, <1>4 DEF Writer

-----------------------------------------------------------------------------
(* The controller's steps *)

\* What the constructor establishes.
LEMMA PipeInit == Init => PipeInv
<1>. SUFFICES ASSUME Init PROVE PipeInv
  OBVIOUS
<1>1. TypeOK
  BY TypeInit
<1>2. /\ cpc = "start" /\ cp = 1 /\ stage = Source /\ timer = FALSE
      /\ collectq = <<>> /\ pool = <<>>
      /\ \A p \in Pipelines : /\ ppc[p] = "off" /\ ~running[p] /\ item[p] = 0
                              /\ outbox[p] = <<>> /\ todo[p] = 1 /\ agg[p] = {}
                              /\ chan[p] = <<>>
      /\ \A c \in Collectors : hand[c] = Idle
      /\ \A w \in Writers : busy[w] = NoTask
  BY DEF Init
<1>3. Starts
  BY <1>2 DEF Starts, Stages, Source
<1>4. Runs
  BY <1>2 DEF Runs, Stopping, StopDone, Closing
<1>5. Collects
  BY <1>2 DEF Collects, Closing, Idle
<1>6. Locals
  BY <1>2 DEF Locals
<1>7. PluginsUp
  BY <1>2 DEF PluginsUp
<1>8. Drains
  BY <1>2 DEF Drains, Leaving, Last, Handling
<1>9. Room
  <2>1. Owed = {}
    BY <1>2 DEF Owed
  <2>2. Cardinality(Owed) = 0
    BY <2>1, FS_EmptySet
  <2>3. N * NumSinks \in Nat /\ MaxPending \in Nat
    BY PipelineAssumption
  <2>. QED  BY <1>2, <2>2, <2>3 DEF Room
<1>10. Tasks
  BY <1>2 DEF Tasks
<1>. QED  BY <1>1, <1>3, <1>4, <1>5, <1>6, <1>7, <1>8, <1>9, <1>10 DEF PipeInv

\* A step of the controller other than StartThread leaves the locals of the
\* process threads, the tasks and the channels alone.
LEMMA ControlFrame ==
    ASSUME PipeInv, UNCHANGED <<collectq, hand, chan, back, item, agg, outbox, todo,
                                pool, busy, ppc>>
    PROVE  /\ Locals' /\ Tasks' /\ Room'
           /\ (Closing => Closing') => Drains'
<1>1. Locals'
  BY DEF PipeInv, Locals
<1>2. Tasks'
  BY DEF PipeInv, Tasks
<1>3. Room'
  BY DEF PipeInv, Room, Owed
<1>4. ASSUME Closing => Closing' PROVE Drains'
  BY <1>4 DEF PipeInv, Drains, Leaving, Last, Handling
<1>. QED  BY <1>1, <1>2, <1>3, <1>4

\* StartAll keeps the invariant.
LEMMA StartKeeps ==
    ASSUME PipeInv, TypeOK',
           \/ StartPlugin \/ StartPluginFails \/ StartThread \/ StartCallback
           \/ StartTimers \/ Shutdown
    PROVE  PipeInv'
<1>. USE PipelineAssumption
<1>0. /\ TypeOK /\ CpcType /\ PlaceType /\ LifeType /\ PcType /\ CollectType
      /\ Starts /\ Runs /\ Collects /\ Locals /\ PluginsUp /\ Drains
  BY TypeParts DEF PipeInv
<1>1. CASE StartPlugin
  <2>1. /\ cpc = "start" /\ cp' = cp
        /\ life' = [life EXCEPT ![cp][stage] =
                              IF Present(cp, stage) THEN "started" ELSE @]
        /\ \/ stage < 3 + NumSinks /\ stage' = stage + 1 /\ cpc' = "start"
           \/ ~(stage < 3 + NumSinks) /\ stage' = Source /\ cpc' = "spawn"
        /\ UNCHANGED <<running, timer, collectq, hand, chan, ppc, back, item, agg,
                       outbox, todo, pool, busy>>
    BY <1>1 DEF StartPlugin, collectVars, processVars, sinkVars
  <2>2. \A q \in Pipelines, i \in Stages :
           /\ life[q][i] = "started" => life'[q][i] = "started"
           /\ q = cp /\ i = stage /\ Present(cp, stage) => life'[q][i] = "started"
    BY <1>0, <2>1 DEF LifeType, PlaceType
  <2>3. Starts'
    <3>1. cpc' = "start" => \A i \in Stages :
                i < stage' /\ Present(cp, i) => life'[cp][i] = "started"
      BY <1>0, <2>1, <2>2 DEF Starts, PlaceType, Stages
    <3>2. cpc' = "spawn" => \A i \in Stages : Present(cp, i) => life'[cp][i] = "started"
      BY <1>0, <2>1, <2>2 DEF Starts, PlaceType, Stages
    <3>3. ~timer
      BY <1>0, <2>1 DEF Starts
    <3>. QED  BY <2>1, <3>1, <3>2, <3>3 DEF Starts, Present
  <2>4. 1 \in Stages /\ 2 \in Stages /\ 3 \in Stages
    BY DEF Stages
  <2>5. Runs'
    BY <1>0, <2>1, <2>2, <2>4 DEF Runs, Unspawned, Stopping, StopDone, Closing, Source
  <2>6. Collects'
    <3>1. \A k \in 1..Len(collectq) : collectq[k] \in Pipelines
      BY <1>0 DEF CollectType
    <3>2. \A c \in Collectors : hand[c].p # 0 => hand[c].p \in Pipelines
      BY <1>0 DEF CollectType, Pipelines
    <3>. QED
      BY <1>0, <2>1, <2>2, <2>4, <3>1, <3>2 DEF Collects, Fed, Closing, Source
  <2>7. PluginsUp'
    BY <1>0, <2>1, <2>2, <2>4 DEF PluginsUp, Processor, Aggregator, Present
  <2>8. Locals' /\ Tasks' /\ Room' /\ Drains'
    BY <2>1, ControlFrame DEF Closing
  <2>. QED  BY <2>3, <2>5, <2>6, <2>7, <2>8 DEF PipeInv
<1>2. CASE StartPluginFails \/ Shutdown \/ StartTimers \/ StartCallback
  <2>1. /\ UNCHANGED <<stage, life, running, collectq, hand, chan, ppc, back, item,
                       agg, outbox, todo, pool, busy>>
        /\ \/ /\ cpc \in {"start", "up"} /\ cpc' = "stop_timer" /\ cp' = cp
              /\ timer' = timer
           \/ cpc = "timers" /\ cpc' = "up" /\ timer' = TRUE /\ cp' = cp
           \/ /\ cpc = "callback" /\ timer' = timer
              /\ \/ cp < N /\ cp' = cp + 1 /\ cpc' = "start"
                 \/ ~(cp < N) /\ cp' = 1 /\ cpc' = "timers"
    BY <1>2 DEF StartPluginFails, Shutdown, StartTimers, StartCallback,
                collectVars, processVars, sinkVars
  <2>2. Starts'
    BY <1>0, <2>1 DEF Starts, Stages, Source
  <2>3. Runs'
    BY <1>0, <2>1 DEF Runs, Unspawned, Stopping, StopDone, Closing, Pipelines,
                      PlaceType
  <2>4. Collects'
    BY <1>0, <2>1 DEF Collects, Fed, Closing
  <2>5. PluginsUp'
    BY <1>0, <2>1 DEF PluginsUp
  <2>6. Locals' /\ Tasks' /\ Room' /\ Drains'
    BY <2>1, ControlFrame DEF Closing
  <2>. QED  BY <2>2, <2>3, <2>4, <2>5, <2>6 DEF PipeInv
<1>3. CASE StartThread
  <2>1. /\ cpc = "spawn" /\ cpc' = "callback" /\ cp' = cp /\ stage' = stage
        /\ running' = [running EXCEPT ![cp] = TRUE]
        /\ ppc' = [ppc EXCEPT ![cp] = "loop"]
        /\ UNCHANGED <<life, timer, collectq, hand, chan, back, item, agg, outbox,
                       todo, pool, busy>>
        /\ cp \in Pipelines /\ ppc[cp] = "off" /\ running \in [Pipelines -> BOOLEAN]
    BY <1>0, <1>3 DEF StartThread, collectVars, sinkVars, PlaceType, Runs, Unspawned,
                      TypeOK, Pipelines
  <2>2. \A i \in Stages : Present(cp, i) => life[cp][i] = "started"
    BY <1>0, <2>1 DEF Starts
  <2>3. 1 \in Stages /\ 2 \in Stages /\ 3 \in Stages /\ Present(cp, 1)
    BY DEF Stages, Present, Aggregator
  <2>4. /\ ppc'[cp] = "loop" /\ running'[cp] = TRUE
        /\ \A q \in Pipelines \ {cp} : ppc'[q] = ppc[q] /\ running'[q] = running[q]
    BY <1>0, <2>1 DEF PcType
  <2>5. Starts'
    BY <1>0, <2>1 DEF Starts
  <2>6. Runs'
    BY <1>0, <2>1, <2>2, <2>3, <2>4 DEF Runs, Unspawned, Stopping, StopDone, Closing,
                                        Pipelines, Source
  <2>7. Collects'
    <3>1. \A k \in 1..Len(collectq) : collectq[k] \in Pipelines
      BY <1>0 DEF CollectType
    <3>2. \A c \in Collectors : hand[c].p # 0 => hand[c].p \in Pipelines
      BY <1>0 DEF CollectType, Pipelines
    <3>. QED  BY <1>0, <2>1, <2>4, <3>1, <3>2 DEF Collects, Fed, Closing
  <2>8. PluginsUp'
    BY <1>0, <2>1, <2>2, <2>3, <2>4 DEF PluginsUp, Processor, Aggregator
  <2>9. Locals'
    BY <1>0, <2>1, <2>4 DEF Locals
  <2>10. Drains'
    BY <1>0, <2>1, <2>4 DEF Drains, Leaving, Last, Handling, Closing
  <2>11. Tasks'
    BY <2>1 DEF PipeInv, Tasks
  <2>12. Room'
    <3>1. Owed' = Owed
      <4>1. \A x \in Pipelines \X Sinks : x[1] \in Pipelines
        OBVIOUS
      <4>. QED  BY <2>1, <2>4, <4>1 DEF Owed
    <3>. QED  BY <2>1, <3>1 DEF PipeInv, Room
  <2>. QED
    BY <2>5, <2>6, <2>7, <2>8, <2>9, <2>10, <2>11, <2>12 DEF PipeInv
<1>. QED  BY <1>1, <1>2, <1>3

\* StopAll and the destructor keep the invariant.
LEMMA StopKeeps ==
    ASSUME PipeInv, TypeOK',
           \/ StopTimer \/ StopCollectPool \/ StopExchange \/ StopSource
           \/ StopJoin \/ StopPlugin \/ Destroy
    PROVE  PipeInv'
<1>. USE PipelineAssumption
<1>0. /\ TypeOK /\ CpcType /\ PlaceType /\ LifeType /\ PcType /\ CollectType
      /\ FlagType
      /\ Starts /\ Runs /\ Collects /\ Locals /\ PluginsUp /\ Drains
  BY TypeParts DEF PipeInv
<1>1. CASE StopTimer
  <2>1. /\ cpc = "stop_timer" /\ cpc' = "stop_collect" /\ timer' = FALSE
        /\ UNCHANGED <<cp, stage, life, running, collectq, hand, chan, ppc, back,
                       item, agg, outbox, todo, pool, busy>>
    BY <1>1 DEF StopTimer, collectVars, processVars, sinkVars
  <2>2. Starts'
    BY <1>0, <2>1 DEF Starts
  <2>3. Runs'
    BY <1>0, <2>1 DEF Runs, Unspawned, Stopping, StopDone, Closing
  <2>4. Collects'
    BY <1>0, <2>1 DEF Collects, Fed, Closing
  <2>5. PluginsUp'
    BY <1>0, <2>1 DEF PluginsUp
  <2>6. Locals' /\ Tasks' /\ Room' /\ Drains'
    BY <2>1, ControlFrame DEF Closing
  <2>. QED  BY <2>2, <2>3, <2>4, <2>5, <2>6 DEF PipeInv
<1>2. CASE StopCollectPool
  <2>1. /\ cpc = "stop_collect" /\ cpc' = "stop" /\ cp' = 1
        /\ collectq = <<>> /\ \A c \in Collectors : hand[c] = Idle
        /\ UNCHANGED <<stage, life, running, timer, collectq, hand, chan, ppc, back,
                       item, agg, outbox, todo, pool, busy>>
    BY <1>2 DEF StopCollectPool, collectVars, processVars, sinkVars
  <2>2. Starts'
    BY <1>0, <2>1 DEF Starts
  <2>3. Runs'
    BY <1>0, <2>1 DEF Runs, Unspawned, Stopping, StopDone, Closing, Pipelines
  <2>4. Collects'
    BY <1>0, <2>1 DEF Collects, Fed, Closing
  <2>5. PluginsUp'
    BY <1>0, <2>1 DEF PluginsUp
  <2>6. Locals' /\ Tasks' /\ Room' /\ Drains'
    BY <2>1, ControlFrame DEF Closing
  <2>. QED  BY <2>2, <2>3, <2>4, <2>5, <2>6 DEF PipeInv
<1>3. CASE StopExchange
  <2>1. /\ cpc = "stop" /\ running' = [running EXCEPT ![cp] = FALSE]
        /\ \/ running[cp] /\ cpc' = "stop_source" /\ cp' = cp
           \/ ~running[cp] /\ cp < N /\ cp' = cp + 1 /\ cpc' = "stop"
           \/ ~running[cp] /\ ~(cp < N) /\ cp' = cp /\ cpc' = "destroy"
        /\ UNCHANGED <<stage, life, timer, collectq, hand, chan, ppc, back,
                       item, agg, outbox, todo, pool, busy>>
    BY <1>3 DEF StopExchange, StopNext, collectVars, processVars, sinkVars
  <2>2. /\ running'[cp] = FALSE
        /\ \A q \in Pipelines \ {cp} : running'[q] = running[q]
    BY <1>0, <2>1 DEF FlagType, PlaceType
  <2>3. Closing /\ Closing'
    BY <2>1 DEF Closing
  <2>4. Starts'
    BY <1>0, <2>1 DEF Starts
  <2>5. Runs'
    BY <1>0, <2>1, <2>2, <2>3 DEF Runs, Unspawned, Stopping, StopDone, Pipelines,
                                  PlaceType
  <2>6. Collects'
    BY <1>0, <2>1, <2>3 DEF Collects, Fed
  <2>7. PluginsUp'
    BY <1>0, <2>1 DEF PluginsUp
  <2>8. Locals' /\ Tasks' /\ Room' /\ Drains'
    BY <2>1, <2>3, ControlFrame
  <2>. QED  BY <2>4, <2>5, <2>6, <2>7, <2>8 DEF PipeInv
<1>4. CASE StopSource
  <2>1. /\ cpc = "stop_source" /\ cpc' = "join"
        /\ life' = [life EXCEPT ![cp][Source] = "stopped"]
        /\ UNCHANGED <<cp, stage, running, timer, collectq, hand, chan, ppc, back,
                       item, agg, outbox, todo, pool, busy>>
    BY <1>4 DEF StopSource, collectVars, processVars, sinkVars
  <2>2. \A q \in Pipelines, i \in Stages : q # cp \/ i # Source => life'[q][i] = life[q][i]
    BY <1>0, <2>1 DEF LifeType, PlaceType
  <2>3. Closing /\ Closing' /\ 1 \in Stages /\ 2 \in Stages /\ 3 \in Stages
    BY <2>1 DEF Closing, Stages
  <2>4. Starts'
    BY <1>0, <2>1 DEF Starts
  <2>5. Runs'
    BY <1>0, <2>1, <2>2, <2>3 DEF Runs, Unspawned, Stopping, StopDone, Source
  <2>6. Collects'
    BY <1>0, <2>1, <2>3 DEF Collects, Idle
  <2>7. PluginsUp'
    BY <1>0, <2>1, <2>2, <2>3 DEF PluginsUp, Source, Processor, Aggregator
  <2>8. Locals' /\ Tasks' /\ Room' /\ Drains'
    BY <2>1, <2>3, ControlFrame
  <2>. QED  BY <2>4, <2>5, <2>6, <2>7, <2>8 DEF PipeInv
<1>5. CASE StopJoin \/ Destroy
  <2>1. /\ \/ cpc = "join" /\ ppc[cp] = "exited" /\ cpc' = "stop_plugins"
           \/ cpc = "destroy" /\ cpc' = "done"
        /\ UNCHANGED <<cp, life, running, timer, collectq, hand, chan, ppc, back,
                       item, agg, outbox, todo, pool, busy>>
    BY <1>5 DEF StopJoin, Destroy, collectVars, processVars, sinkVars
  <2>2. Closing /\ Closing'
    BY <2>1 DEF Closing
  <2>3. Starts'
    BY <1>0, <2>1 DEF Starts
  <2>4. Runs'
    BY <1>0, <2>1, <2>2 DEF Runs, Unspawned, Stopping, StopDone
  <2>5. Collects'
    BY <1>0, <2>1, <2>2 DEF Collects, Fed
  <2>6. PluginsUp'
    BY <1>0, <2>1 DEF PluginsUp
  <2>7. Locals' /\ Tasks' /\ Room' /\ Drains'
    BY <2>1, <2>2, ControlFrame
  <2>. QED  BY <2>3, <2>4, <2>5, <2>6, <2>7 DEF PipeInv
<1>6. CASE StopPlugin
  <2>1. /\ cpc = "stop_plugins"
        /\ life' = [life EXCEPT ![cp][stage] =
                              IF Present(cp, stage) THEN "stopped" ELSE @]
        /\ \/ cpc' = "stop_plugins" /\ cp' = cp
           \/ cp < N /\ cp' = cp + 1 /\ cpc' = "stop"
           \/ ~(cp < N) /\ cp' = cp /\ cpc' = "destroy"
        /\ UNCHANGED <<running, timer, collectq, hand, chan, ppc, back,
                       item, agg, outbox, todo, pool, busy>>
    BY <1>6 DEF StopPlugin, StopNext, collectVars, processVars, sinkVars
  <2>2. ppc[cp] = "exited" /\ ~running[cp]
    BY <1>0, <2>1 DEF Runs, PlaceType, Stopping
  <2>3. \A q \in Pipelines, i \in Stages : q # cp => life'[q][i] = life[q][i]
    BY <1>0, <2>1 DEF LifeType, PlaceType
  <2>4. Closing /\ Closing' /\ 1 \in Stages /\ 2 \in Stages /\ 3 \in Stages
    BY <2>1 DEF Closing, Stages
  <2>5. Starts'
    BY <1>0, <2>1 DEF Starts
  <2>6. Runs'
    BY <1>0, <2>1, <2>2, <2>3, <2>4 DEF Runs, Unspawned, Stopping, StopDone,
                                        Source, Pipelines, PlaceType
  <2>7. Collects'
    BY <1>0, <2>1, <2>4 DEF Collects, Idle
  <2>8. PluginsUp'
    BY <1>0, <2>1, <2>2, <2>3, <2>4 DEF PluginsUp, Processor, Aggregator
  <2>9. Locals' /\ Tasks' /\ Room' /\ Drains'
    BY <2>1, <2>4, ControlFrame
  <2>. QED  BY <2>5, <2>6, <2>7, <2>8, <2>9 DEF PipeInv
<1>. QED  BY <1>1, <1>2, <1>3, <1>4, <1>5, <1>6

-----------------------------------------------------------------------------
(* The sources, the timers and the collectors *)

\* Last is a part of Leaving, and a pipeline that leaves has no feeders left.
LEMMA LastIsClosing ==
    ASSUME PipeInv, NEW p \in Pipelines, Last(p)
    PROVE  /\ Closing /\ ~timer /\ collectq = <<>>
           /\ \A c \in Collectors : hand[c].p = 0 /\ hand[c].b = 0
<1>1. Closing
  BY DEF PipeInv, Drains, Leaving, Last
<1>. QED  BY <1>1 DEF PipeInv, Collects, Starts, Closing, Idle

\* They leave the controller and the process threads alone.
LEMMA SourceFrame ==
    ASSUME PipeInv,
           UNCHANGED <<cpc, cp, stage, life, running, timer, ppc, back, item, agg,
                       outbox, todo, pool, busy>>
    PROVE  /\ Starts' /\ Runs' /\ Locals' /\ PluginsUp' /\ Tasks' /\ Room'
           /\ (\A p \in Pipelines \ Push : Last(p) \/ ppc[p] = "off" => chan'[p] = <<>>)
                 => Drains'
<1>1. Starts'
  BY DEF PipeInv, Starts
<1>2. Runs'
  BY DEF PipeInv, Runs, Unspawned, Stopping, StopDone, Closing
<1>3. Locals'
  BY DEF PipeInv, Locals
<1>4. PluginsUp'
  BY DEF PipeInv, PluginsUp
<1>5. Tasks'
  BY DEF PipeInv, Tasks
<1>6. Room'
  BY DEF PipeInv, Room, Owed
<1>7. ASSUME \A p \in Pipelines \ Push : Last(p) \/ ppc[p] = "off" => chan'[p] = <<>>
      PROVE  Drains'
  BY <1>7 DEF PipeInv, Drains, Leaving, Last, Handling, Closing
<1>. QED  BY <1>1, <1>2, <1>3, <1>4, <1>5, <1>6, <1>7

\* They keep the invariant.
LEMMA SourcesKeep ==
    ASSUME PipeInv, TypeOK',
           \/ \E p \in Pipelines : SourceEvent(p) \/ CollectTick(p) \/ InjectFlush(p)
           \/ \E c \in Collectors : Collector(c)
    PROVE  PipeInv'
<1>. USE PipelineAssumption
<1>0. /\ TypeOK /\ CollectType /\ ChanType /\ Starts /\ Runs /\ Collects /\ Drains
      /\ \A k \in 1..Len(collectq) : collectq[k] \in Pipelines
      /\ \A c \in Collectors : /\ hand[c] \in [p : 0..N, b : 0..MaxBatches]
                               /\ hand[c].p # 0 => hand[c].p \in Pipelines
  BY TypeParts DEF PipeInv, CollectType, Pipelines
<1>1. UNCHANGED <<cpc, cp, stage, life, running, timer, ppc, back, item,
                  agg, outbox, todo, pool, busy>>
  BY Zenon DEF SourceEvent, CollectTick, InjectFlush, Collector, CollectTake,
         CollectMake, CollectNothing, CollectEnqueue, controlVars, processVars,
         sinkVars
<1>2. /\ Starts' /\ Runs' /\ Locals' /\ PluginsUp' /\ Tasks' /\ Room'
  BY <1>1, SourceFrame
<1>3. Drains'
  <2>. SUFFICES ASSUME NEW p \in Pipelines \ Push, Last(p) \/ ppc[p] = "off"
                PROVE  chan'[p] = <<>>
    BY <1>1, SourceFrame
  <2>1. chan[p] = <<>>
    BY <1>0 DEF Drains
  <2>2. SUFFICES ASSUME chan' # chan PROVE chan'[p] = <<>>
    BY <2>1
  <2>3. \/ \E q \in Push : \E v : chan' = [chan EXCEPT ![q] = v]
        \/ \E q \in Pipelines : timer /\ running[q] /\ \E v : chan' = [chan EXCEPT ![q] = v]
        \/ \E c \in Collectors : hand[c].b # 0 /\ \E v : chan' = [chan EXCEPT ![hand[c].p] = v]
    BY <2>2, Zenon DEF SourceEvent, CollectTick, InjectFlush, Collector, CollectTake,
           CollectMake, CollectNothing, CollectEnqueue, Enqueue
  <2>4. CASE \E q \in Push : \E v : chan' = [chan EXCEPT ![q] = v]
    BY <1>0, <2>1, <2>4 DEF ChanType
  <2>5. CASE \E q \in Pipelines : timer /\ running[q] /\ \E v : chan' = [chan EXCEPT ![q] = v]
    <3>1. PICK q \in Pipelines : timer /\ running[q] /\ \E v : chan' = [chan EXCEPT ![q] = v]
      BY <2>5
    <3>2. ppc[p] = "off"
      BY <3>1, LastIsClosing
    <3>3. p # q
      BY <1>0, <3>1, <3>2 DEF Runs
    <3>. QED  BY <1>0, <2>1, <3>1, <3>3 DEF ChanType
  <2>6. CASE \E c \in Collectors : hand[c].b # 0 /\ \E v : chan' = [chan EXCEPT ![hand[c].p] = v]
    <3>1. PICK c \in Collectors : hand[c].b # 0 /\ \E v : chan' = [chan EXCEPT ![hand[c].p] = v]
      BY <2>6
    <3>2. ppc[p] = "off"
      BY <3>1, LastIsClosing
    <3>3. p # hand[c].p
      BY <1>0, <3>1, <3>2 DEF Collects, Fed
    <3>. QED  BY <1>0, <2>1, <3>1, <3>3 DEF ChanType
  <2>. QED  BY <2>3, <2>4, <2>5, <2>6
<1>4. Collects'
  <2>0. (Closing' <=> Closing) /\ life' = life /\ ppc' = ppc
    BY <1>1 DEF Closing
  <2>1. CASE UNCHANGED <<collectq, hand>>
    BY <1>0, <2>0, <2>1 DEF Collects, Fed
  <2>2. ASSUME NEW p \in Pipelines, CollectTick(p) PROVE Collects'
    <3>1. /\ collectq' = Append(collectq, p) /\ hand' = hand /\ timer /\ running[p]
      BY <2>2 DEF CollectTick
    <3>2. ~Closing /\ Fed(p)
      BY <1>0, <3>1 DEF Starts, Runs, Closing, Fed
    <3>3. /\ collectq \in Seq(Pipelines) /\ Len(collectq') = Len(collectq) + 1
          /\ \A k \in 1..Len(collectq') : \/ k \in 1..Len(collectq) /\ collectq'[k] = collectq[k]
                                          \/ collectq'[k] = p
      BY <1>0, <3>1 DEF CollectType
    <3>. QED  BY <1>0, <2>0, <3>1, <3>2, <3>3 DEF Collects, Fed
  <2>3. ASSUME NEW c \in Collectors, CollectTake(c) PROVE Collects'
    <3>1. /\ collectq # <<>> /\ collectq' = Tail(collectq)
          /\ hand' = [hand EXCEPT ![c] = [p |-> Head(collectq), b |-> 0]]
      BY <2>3 DEF CollectTake
    <3>2. /\ Head(collectq) = collectq[1] /\ 1 \in 1..Len(collectq)
          /\ \A k \in 1..Len(collectq') : k + 1 \in 1..Len(collectq)
                                          /\ collectq'[k] = collectq[k + 1]
      BY <1>0, <3>1 DEF CollectType
    <3>3. ~Closing
      BY <1>0, <3>1 DEF Collects
    <3>4. /\ hand'[c].p = collectq[1] /\ hand'[c].b = 0
          /\ \A d \in Collectors \ {c} : hand'[d] = hand[d]
      BY <1>0, <3>1, <3>2 DEF CollectType
    <3>5. \A k \in 1..Len(collectq) :
             life[collectq[k]][Source] = "started" /\ ppc[collectq[k]] # "off"
      BY <1>0 DEF Collects, Fed
    <3>6. \A k \in 1..Len(collectq') :
             life'[collectq'[k]][Source] = "started" /\ ppc'[collectq'[k]] # "off"
      BY <2>0, <3>2, <3>5
    <3>7. \A d \in Collectors :
             /\ hand'[d].p # 0 => /\ life'[hand'[d].p][Source] = "started"
                                  /\ ppc'[hand'[d].p] # "off"
             /\ hand'[d].b # 0 => hand'[d].p # 0
      BY <1>0, <2>0, <3>2, <3>4, <3>5 DEF Collects, Fed
    <3>. QED  BY <2>0, <3>3, <3>6, <3>7 DEF Collects, Fed
  <2>4. ASSUME NEW c \in Collectors, CollectMake(c) PROVE Collects'
    <3>1. /\ hand[c].p # 0 /\ collectq' = collectq
          /\ hand' = [hand EXCEPT ![c].b = made[hand[c].p] + 1]
      BY <2>4 DEF CollectMake
    <3>2. ~Closing
      BY <1>0, <3>1 DEF Collects, Idle
    <3>3. hand'[c].p = hand[c].p /\ \A d \in Collectors \ {c} : hand'[d] = hand[d]
      BY <1>0, <3>1 DEF CollectType
    <3>. QED  BY <1>0, <2>0, <3>1, <3>2, <3>3 DEF Collects, Fed
  <2>5. ASSUME NEW c \in Collectors, CollectNothing(c) \/ CollectEnqueue(c) PROVE Collects'
    <3>1. collectq' = collectq /\ hand' = [hand EXCEPT ![c] = Idle]
      BY <2>5 DEF CollectNothing, CollectEnqueue
    <3>2. hand'[c] = Idle /\ \A d \in Collectors \ {c} : hand'[d] = hand[d]
      BY <1>0, <3>1 DEF CollectType
    <3>. QED  BY <1>0, <2>0, <3>1, <3>2 DEF Collects, Fed, Idle
  <2>6. ASSUME NEW p \in Pipelines, SourceEvent(p) \/ InjectFlush(p) PROVE Collects'
    <3>1. UNCHANGED <<collectq, hand>>
      BY <2>6 DEF SourceEvent, InjectFlush, collectVars
    <3>. QED  BY <2>1, <3>1
  <2>. QED  BY <2>2, <2>3, <2>4, <2>5, <2>6 DEF Collector
<1>. QED  BY <1>2, <1>3, <1>4 DEF PipeInv

-----------------------------------------------------------------------------
(* The process threads and the writers *)

\* They leave the controller and the collectors alone; a thread that has started
\* stays started, and one that has not stays off.
LEMMA ProcessFrame ==
    ASSUME PipeInv, NEW p \in Pipelines,
           UNCHANGED <<cpc, cp, stage, life, running, timer, collectq, hand, busy>>,
           ppc[p] \notin {"off", "exited"}, ppc'[p] # "off",
           \A q \in Pipelines \ {p} : ppc'[q] = ppc[q]
    PROVE  Starts' /\ Runs' /\ Collects' /\ Tasks' /\ PluginsUp'
<1>0. /\ TypeOK /\ CollectType /\ Runs /\ Collects /\ PluginsUp
      /\ \A k \in 1..Len(collectq) : collectq[k] \in Pipelines
      /\ \A c \in Collectors : hand[c].p # 0 => hand[c].p \in Pipelines
  BY PipelineAssumption, TypeParts DEF PipeInv, CollectType, Pipelines
<1>1. Starts'
  BY DEF PipeInv, Starts
<1>2. Runs'
  BY <1>0 DEF Runs, Unspawned, Stopping, StopDone, Closing
<1>3. Collects'
  BY <1>0 DEF Collects, Fed, Closing
<1>4. Tasks'
  BY DEF PipeInv, Tasks
<1>5. PluginsUp'
  BY <1>0 DEF PluginsUp
<1>. QED  BY <1>1, <1>2, <1>3, <1>4, <1>5

\* A pool and the debts to it that do not grow keep the bound.
LEMMA RoomKept ==
    ASSUME PipeInv, TypeOK', Len(pool') <= Len(pool), Owed' \subseteq Owed
    PROVE  Room'
<1>1. Len(pool) \in Nat /\ Len(pool') \in Nat
  <2>1. PoolType /\ PoolType'
    BY TypeParts DEF PipeInv
  <2>. QED  BY <2>1 DEF PoolType
<1>2. IsFiniteSet(Owed)
  <2>1. IsFiniteSet(Pipelines) /\ IsFiniteSet(Sinks)
    BY PipelineAssumption, FS_Interval DEF Pipelines, Sinks
  <2>2. IsFiniteSet(Pipelines \X Sinks)
    BY <2>1, FS_Product
  <2>. QED  BY <2>2, FS_Subset DEF Owed
<1>3. Cardinality(Owed') <= Cardinality(Owed) /\ IsFiniteSet(Owed')
  BY <1>2, FS_Subset
<1>4. Cardinality(Owed) \in Nat /\ Cardinality(Owed') \in Nat
  BY <1>2, <1>3, FS_CardinalityType
<1>5. PICK B \in Nat : B = MaxPending + N * NumSinks
  BY PipelineAssumption
<1>6. Len(pool) + Cardinality(Owed) <= B
  BY <1>5 DEF PipeInv, Room
<1>7. Len(pool') + Cardinality(Owed') <= B
  BY <1>1, <1>3, <1>4, <1>6
<1>. QED  BY <1>5, <1>7 DEF Room

\* The limit is exceeded by at most one batch of every pipeline.
LEMMA RoomAfterTest ==
    ASSUME TypeOK', Len(pool') <= MaxPending
    PROVE  Room'
<1>1. IsFiniteSet(Pipelines) /\ IsFiniteSet(Sinks)
      /\ Cardinality(Pipelines) = N /\ Cardinality(Sinks) = NumSinks
  BY PipelineAssumption, FS_Interval DEF Pipelines, Sinks
<1>2. /\ IsFiniteSet(Pipelines \X Sinks)
      /\ Cardinality(Pipelines \X Sinks) = N * NumSinks
  BY <1>1, FS_Product
<1>3. Owed' \in SUBSET (Pipelines \X Sinks)
  BY DEF Owed
<1>4. Cardinality(Owed') <= N * NumSinks /\ IsFiniteSet(Owed')
  BY <1>2, <1>3, FS_Subset
<1>5. Cardinality(Owed') \in Nat /\ Len(pool') \in Nat
  BY <1>4, FS_CardinalityType DEF TypeOK
<1>6. PICK B \in Nat : B = N * NumSinks
  BY PipelineAssumption
<1>7. Len(pool') + Cardinality(Owed') <= MaxPending + B
  BY <1>4, <1>5, <1>6, PipelineAssumption
<1>. QED  BY <1>6, <1>7 DEF Room

\* A submission turns a debt into a task.
LEMMA RoomAfterSubmit ==
    ASSUME PipeInv, TypeOK', NEW x \in Owed, Owed' \subseteq Owed \ {x},
           Len(pool') = Len(pool) + 1
    PROVE  Room'
<1>1. Len(pool) \in Nat
  BY DEF PipeInv, TypeOK
<1>2. IsFiniteSet(Owed)
  <2>1. IsFiniteSet(Pipelines) /\ IsFiniteSet(Sinks)
    BY PipelineAssumption, FS_Interval DEF Pipelines, Sinks
  <2>2. IsFiniteSet(Pipelines \X Sinks)
    BY <2>1, FS_Product
  <2>. QED  BY <2>2, FS_Subset DEF Owed
<1>3. IsFiniteSet(Owed \ {x}) /\ Cardinality(Owed \ {x}) = Cardinality(Owed) - 1
  BY <1>2, FS_RemoveElement
<1>4. Cardinality(Owed') <= Cardinality(Owed \ {x}) /\ IsFiniteSet(Owed')
  BY <1>3, FS_Subset
<1>5. Cardinality(Owed) \in Nat /\ Cardinality(Owed') \in Nat
  BY <1>2, <1>4, FS_CardinalityType
<1>6. PICK B \in Nat : B = MaxPending + N * NumSinks
  BY PipelineAssumption
<1>7. Len(pool) + Cardinality(Owed) <= B
  BY <1>6 DEF PipeInv, Room
<1>8. Len(pool') + Cardinality(Owed') <= B
  BY <1>1, <1>3, <1>4, <1>5, <1>7
<1>. QED  BY <1>6, <1>8 DEF Room

\* The process threads keep the invariant.
LEMMA ProcessKeeps ==
    ASSUME PipeInv, TypeOK', NEW p \in Pipelines, Process(p)
    PROVE  PipeInv'
<1>. USE PipelineAssumption
<1>0. /\ TypeOK /\ ChanType /\ PcType /\ LocalType /\ PoolType
      /\ Runs /\ Locals /\ Drains
      /\ back[p] \in {"loop", "drain", "exited"}
      /\ ppc \in [Pipelines -> PPC] /\ back \in [Pipelines -> {"loop", "drain", "exited"}]
      /\ item \in [Pipelines -> 0..MaxBatches] /\ todo \in [Pipelines -> Sinks]
      /\ agg \in [Pipelines -> SUBSET Batches]
      /\ outbox \in [Pipelines -> Seq(SUBSET Batches)]
      /\ chan \in [Pipelines -> Seq(0..MaxBatches)]
  BY TypeParts DEF PipeInv, PcType, LocalType, ChanType
<1>1. UNCHANGED <<cpc, cp, stage, life, running, timer, collectq, hand, busy>>
  BY Zenon DEF Process, ProcessCheck, ProcessDequeue, ProcessTimeout,
         ProcessDrained, HandleDataEnds, HandleData, HandleFlush, SubmitCheck,
         SubmitSink, SubmitDone, controlVars, collectVars, sinkVars
<1>2. Closing' <=> Closing
  BY <1>1 DEF Closing
<1>3. /\ ppc[p] \notin {"off", "exited"} /\ ppc'[p] # "off"
      /\ \A q \in Pipelines \ {p} :
            /\ ppc'[q] = ppc[q] /\ back'[q] = back[q] /\ item'[q] = item[q]
            /\ todo'[q] = todo[q] /\ agg'[q] = agg[q] /\ outbox'[q] = outbox[q]
            /\ chan'[q] = chan[q]
  <2>1. ppc[p] \notin {"off", "exited"}
    BY DEF Process, ProcessCheck, ProcessDequeue, ProcessTimeout,
           ProcessDrained, HandleDataEnds, HandleData, HandleFlush, SubmitCheck,
           SubmitSink, SubmitDone
  <2>2. \/ ppc' = ppc
        \/ \E v \in PPC \ {"off"} : ppc' = [ppc EXCEPT ![p] = v]
    BY <1>0 DEF Process, ProcessCheck, ProcessDequeue, ProcessTimeout,
           ProcessDrained, HandleDataEnds, HandleData, HandleFlush, SubmitCheck,
           SubmitSink, SubmitDone, PPC
  <2>3. back' = back \/ \E v : back' = [back EXCEPT ![p] = v]
    BY Zenon DEF Process, ProcessCheck, ProcessDequeue, ProcessTimeout,
           ProcessDrained, HandleDataEnds, HandleData, HandleFlush, SubmitCheck,
           SubmitSink, SubmitDone
  <2>4. item' = item \/ \E v : item' = [item EXCEPT ![p] = v]
    BY Zenon DEF Process, ProcessCheck, ProcessDequeue, ProcessTimeout,
           ProcessDrained, HandleDataEnds, HandleData, HandleFlush, SubmitCheck,
           SubmitSink, SubmitDone
  <2>5. todo' = todo \/ \E v : todo' = [todo EXCEPT ![p] = v]
    BY Zenon DEF Process, ProcessCheck, ProcessDequeue, ProcessTimeout,
           ProcessDrained, HandleDataEnds, HandleData, HandleFlush, SubmitCheck,
           SubmitSink, SubmitDone
  <2>6. agg' = agg \/ \E v : agg' = [agg EXCEPT ![p] = v]
    BY Zenon DEF Process, ProcessCheck, ProcessDequeue, ProcessTimeout,
           ProcessDrained, HandleDataEnds, HandleData, HandleFlush, SubmitCheck,
           SubmitSink, SubmitDone
  <2>7. outbox' = outbox \/ \E v : outbox' = [outbox EXCEPT ![p] = v]
    BY Zenon DEF Process, ProcessCheck, ProcessDequeue, ProcessTimeout,
           ProcessDrained, HandleDataEnds, HandleData, HandleFlush, SubmitCheck,
           SubmitSink, SubmitDone
  <2>8. chan' = chan \/ \E v : chan' = [chan EXCEPT ![p] = v]
    BY Zenon DEF Process, ProcessCheck, ProcessDequeue, ProcessTimeout,
           ProcessDrained, HandleDataEnds, HandleData, HandleFlush, SubmitCheck,
           SubmitSink, SubmitDone
  <2>9. ppc'[p] # "off"
    BY <1>0, <2>1, <2>2
  <2>10. \A q \in Pipelines \ {p} :
            ppc'[q] = ppc[q] /\ back'[q] = back[q] /\ item'[q] = item[q]
    BY <1>0, <2>2, <2>3, <2>4
  <2>11. \A q \in Pipelines \ {p} :
            /\ todo'[q] = todo[q] /\ agg'[q] = agg[q] /\ outbox'[q] = outbox[q]
            /\ chan'[q] = chan[q]
    BY <1>0, <2>5, <2>6, <2>7, <2>8
  <2>. QED  BY <2>1, <2>9, <2>10, <2>11
<1>4. Starts' /\ Runs' /\ Collects' /\ Tasks' /\ PluginsUp'
  BY <1>1, <1>3, ProcessFrame
\* What is to be shown of p itself.
<1>. DEFINE LocalsP == /\ item'[p] # 0 <=> ppc'[p] = "data"
                       /\ outbox'[p] # <<>> => ppc'[p] \in {"submit", "push"}
                       /\ ppc'[p] = "push" => outbox'[p] # <<>>
                       /\ ppc'[p] # "push" => todo'[p] = 1
                       /\ ppc'[p] = "data" => back'[p] # "exited"
                       /\ p \notin Agg => agg'[p] = {}
            DrainsP == /\ Leaving(p)' => Closing
                       /\ p \notin Push /\ Last(p)' => chan'[p] = <<>>
                       /\ Last(p)' /\ ppc'[p] # "flush" => agg'[p] = {}
<1>5. ASSUME LocalsP PROVE Locals'
  <2>. SUFFICES ASSUME NEW q \in Pipelines
                PROVE  /\ item'[q] # 0 <=> ppc'[q] = "data"
                       /\ outbox'[q] # <<>> => ppc'[q] \in {"submit", "push"}
                       /\ ppc'[q] = "push" => outbox'[q] # <<>>
                       /\ ppc'[q] # "push" => todo'[q] = 1
                       /\ ppc'[q] = "data" => back'[q] # "exited"
                       /\ q \notin Agg => agg'[q] = {}
    BY Zenon DEF Locals
  <2>1. CASE q = p
    BY Zenon, <1>5, <2>1
  <2>2. CASE q # p
    BY <1>0, <1>3, <2>2 DEF Locals
  <2>. QED  BY <2>1, <2>2
<1>6. ASSUME DrainsP PROVE Drains'
  <2>. SUFFICES ASSUME NEW q \in Pipelines
                PROVE  /\ Leaving(q)' => Closing'
                       /\ q \notin Push /\ (Last(q)' \/ ppc'[q] = "off")
                            => chan'[q] = <<>>
                       /\ Last(q)' /\ ppc'[q] # "flush" => agg'[q] = {}
                       /\ ppc'[q] = "off" => agg'[q] = {}
    BY Zenon DEF Drains
  <2>1. CASE q = p
    BY Zenon, <1>2, <1>3, <1>6, <2>1
  <2>2. CASE q # p
    BY <1>0, <1>2, <1>3, <2>2 DEF Drains, Leaving, Last, Handling
  <2>. QED  BY <2>1, <2>2
<1>. HIDE DEF LocalsP, DrainsP
<1>7. ASSUME UNCHANGED pool, ppc[p] # "push", ppc'[p] # "push" PROVE Room'
  <2>1. Owed' \subseteq Owed
    BY <1>0, <1>3, <1>7 DEF Owed
  <2>. QED  BY <1>7, <2>1, RoomKept, <1>0 DEF PoolType
<1>8. CASE ProcessCheck(p)
  <2>1. /\ ppc[p] = "loop" /\ ppc'[p] = IF running[p] THEN "wait" ELSE "drain"
        /\ UNCHANGED <<back, item, todo, agg, outbox, chan, pool>>
    BY <1>0, <1>8 DEF ProcessCheck, sinkVars
  <2>2. LocalsP
    BY <1>0, <2>1 DEF LocalsP, Locals
  <2>3. ~running[p] => Closing
    BY <1>0, <2>1 DEF Runs, Stopping, StopDone, Closing
  <2>4. DrainsP
    BY <1>0, <2>1, <2>3 DEF DrainsP, Leaving, Last, Handling
  <2>. QED  BY <1>4, <1>5, <1>6, <1>7, <2>1, <2>2, <2>4 DEF PipeInv
<1>9. CASE ProcessDequeue(p)
  <2>1. /\ ppc[p] \in {"wait", "drain"} /\ chan[p] # <<>>
        /\ back'[p] = IF ppc[p] = "wait" THEN "loop" ELSE "drain"
        /\ \/ ppc'[p] = "flush" /\ item'[p] = item[p]
           \/ ppc'[p] = "data" /\ item'[p] = Head(chan[p]) /\ Head(chan[p]) # 0
        /\ UNCHANGED <<todo, agg, outbox, pool>>
    BY <1>0, <1>9 DEF ProcessDequeue, sinkVars, Flush
  <2>2. LocalsP
    BY <1>0, <2>1 DEF LocalsP, Locals
  <2>3. DrainsP
    BY <1>0, <2>1 DEF DrainsP, Drains, Leaving, Last, Handling
  <2>. QED  BY <1>4, <1>5, <1>6, <1>7, <2>1, <2>2, <2>3 DEF PipeInv
<1>10. CASE ProcessTimeout(p)
  <2>1. /\ ppc[p] = "wait" /\ ppc'[p] = "loop"
        /\ UNCHANGED <<back, item, todo, agg, outbox, chan, pool>>
    BY <1>0, <1>10 DEF ProcessTimeout, sinkVars
  <2>2. LocalsP
    BY <1>0, <2>1 DEF LocalsP, Locals
  <2>3. DrainsP
    BY <1>0, <2>1 DEF DrainsP, Leaving, Last, Handling
  <2>. QED  BY <1>4, <1>5, <1>6, <1>7, <2>1, <2>2, <2>3 DEF PipeInv
<1>11. CASE ProcessDrained(p)
  <2>1. /\ ppc[p] = "drain" /\ chan[p] = <<>> /\ back'[p] = "exited"
        /\ ppc'[p] = IF p \in Agg THEN "flush" ELSE "exited"
        /\ UNCHANGED <<item, todo, agg, outbox, chan, pool>>
    BY <1>0, <1>11 DEF ProcessDrained, sinkVars
  <2>2. LocalsP
    BY <1>0, <2>1 DEF LocalsP, Locals
  <2>3. DrainsP
    BY <1>0, <2>1 DEF DrainsP, Locals, Drains, Leaving, Last, Handling
  <2>. QED  BY <1>4, <1>5, <1>6, <1>7, <2>1, <2>2, <2>3 DEF PipeInv
<1>12. CASE HandleDataEnds(p)
  <2>1. /\ ppc[p] = "data" /\ ppc'[p] = back[p] /\ item'[p] = 0
        /\ UNCHANGED <<back, todo, agg, outbox, chan, pool>>
    BY <1>0, <1>12 DEF HandleDataEnds, sinkVars
  <2>2. LocalsP
    BY <1>0, <2>1 DEF LocalsP, Locals
  <2>3. DrainsP
    BY <1>0, <2>1 DEF DrainsP, Locals, Drains, Leaving, Last, Handling
  <2>. QED  BY <1>0, <1>4, <1>5, <1>6, <1>7, <2>1, <2>2, <2>3 DEF PipeInv
<1>13. CASE HandleData(p)
  <2>1. /\ ppc[p] = "data" /\ item'[p] = 0
        /\ \/ p \in Agg /\ ppc'[p] = back[p] /\ outbox'[p] = outbox[p]
           \/ /\ p \notin Agg /\ ppc'[p] = "submit" /\ agg'[p] = agg[p]
              /\ outbox'[p] # <<>>
        /\ UNCHANGED <<back, todo, chan, pool>>
    <3>1. CASE p \in Agg
      BY <1>0, <1>13, <3>1 DEF HandleData, sinkVars
    <3>2. CASE p \notin Agg
      <4>1. /\ outbox' = [outbox EXCEPT ![p] = <<{item[p]}>>]
            /\ ppc' = [ppc EXCEPT ![p] = "submit"] /\ agg' = agg
            /\ item' = [item EXCEPT ![p] = 0] /\ ppc[p] = "data"
            /\ UNCHANGED <<back, todo, chan, pool>>
        BY Zenon, <1>13, <3>2 DEF HandleData, sinkVars
      <4>2. outbox'[p] # <<>> /\ item'[p] = 0 /\ ppc'[p] = "submit"
        BY <1>0, <4>1
      <4>. QED  BY <3>2, <4>1, <4>2
    <3>. QED  BY <3>1, <3>2
  <2>2. LocalsP
    BY <1>0, <2>1 DEF LocalsP, Locals
  <2>3. DrainsP
    BY <1>0, <2>1 DEF DrainsP, Locals, Drains, Leaving, Last, Handling
  <2>. QED  BY <1>0, <1>4, <1>5, <1>6, <1>7, <2>1, <2>2, <2>3 DEF PipeInv
<1>14. CASE HandleFlush(p)
  <2>1. /\ ppc[p] = "flush" /\ ppc'[p] = "submit" /\ agg'[p] = {}
        /\ UNCHANGED <<back, item, todo, chan, pool>>
    BY <1>0, <1>14 DEF HandleFlush, sinkVars
  <2>2. LocalsP
    BY <1>0, <2>1 DEF LocalsP, Locals
  <2>3. DrainsP
    BY <1>0, <2>1 DEF DrainsP, Drains, Leaving, Last, Handling
  <2>. QED  BY <1>4, <1>5, <1>6, <1>7, <2>1, <2>2, <2>3 DEF PipeInv
<1>15. CASE SubmitCheck(p)
  <2>1. /\ ppc[p] = "submit" /\ outbox[p] # <<>>
        /\ \/ ppc'[p] = "submit"
           \/ ppc'[p] = "push" /\ outbox' = outbox /\ ~(Len(pool) > MaxPending)
        /\ UNCHANGED <<back, item, todo, agg, chan, pool>>
    BY <1>0, <1>15 DEF SubmitCheck, sinkVars
  <2>2. LocalsP
    BY <1>0, <2>1 DEF LocalsP, Locals
  <2>3. DrainsP
    BY <1>0, <2>1 DEF DrainsP, Drains, Leaving, Last, Handling
  <2>4. CASE ppc'[p] = "submit"
    BY <1>4, <1>5, <1>6, <1>7, <2>1, <2>2, <2>3, <2>4 DEF PipeInv
  <2>5. CASE ~(Len(pool) > MaxPending)
    <3>1. Len(pool') <= MaxPending
      BY <1>0, <2>1, <2>5 DEF PoolType
    <3>2. Room'
      BY <3>1, RoomAfterTest
    <3>. QED  BY <1>4, <1>5, <1>6, <2>2, <2>3, <3>2 DEF PipeInv
  <2>. QED  BY <2>1, <2>4, <2>5
<1>16. CASE SubmitSink(p)
  <2>1. /\ ppc[p] = "push"
        /\ pool' = Append(pool, [p |-> p, s |-> todo[p], b |-> Head(outbox[p])])
        /\ \/ todo[p] < NumSinks /\ todo'[p] = todo[p] + 1 /\ ppc'[p] = "push"
              /\ outbox' = outbox
           \/ ~(todo[p] < NumSinks) /\ todo'[p] = 1 /\ ppc'[p] = "submit"
        /\ UNCHANGED <<back, item, agg, chan>>
    BY <1>0, <1>16 DEF SubmitSink
  <2>2. LocalsP
    BY <1>0, <2>1 DEF LocalsP, Locals
  <2>3. DrainsP
    BY <1>0, <2>1 DEF DrainsP, Drains, Leaving, Last, Handling
  <2>4. Room'
    <3>. DEFINE x == <<p, todo[p]>>
    <3>1. x \in Owed
      BY <1>0, <2>1 DEF Owed, Sinks
    <3>2. Owed' \subseteq Owed \ {x}
      <4>. SUFFICES ASSUME NEW y \in Pipelines \X Sinks,
                           ppc'[y[1]] = "push", todo'[y[1]] <= y[2]
                    PROVE  y \in Owed /\ y # x
        BY DEF Owed
      <4>0. y[1] \in Pipelines /\ y[2] \in Sinks /\ y = <<y[1], y[2]>>
        OBVIOUS
      <4>1. CASE y[1] = p
        <5>1. todo[p] < y[2] /\ ppc[p] = "push"
          BY <1>0, <2>1, <4>0, <4>1 DEF Sinks
        <5>2. y[2] \in Nat /\ todo[p] \in Nat
          BY <1>0, <4>0 DEF Sinks
        <5>. QED  BY <4>0, <4>1, <5>1, <5>2 DEF Owed
      <4>2. CASE y[1] # p
        BY <1>3, <4>0, <4>2 DEF Owed
      <4>. QED  BY <4>1, <4>2
    <3>3. Len(pool') = Len(pool) + 1
      BY <1>0, <2>1 DEF PoolType
    <3>. QED  BY <3>1, <3>2, <3>3, RoomAfterSubmit
  <2>. QED  BY <1>4, <1>5, <1>6, <2>2, <2>3, <2>4 DEF PipeInv
<1>17. CASE SubmitDone(p)
  <2>1. /\ ppc[p] = "submit" /\ outbox[p] = <<>> /\ ppc'[p] = back[p]
        /\ UNCHANGED <<back, item, todo, agg, outbox, chan, pool>>
    BY <1>0, <1>17 DEF SubmitDone, sinkVars
  <2>2. LocalsP
    BY <1>0, <2>1 DEF LocalsP, Locals
  <2>3. DrainsP
    BY <1>0, <2>1 DEF DrainsP, Drains, Leaving, Last, Handling
  <2>. QED  BY <1>0, <1>4, <1>5, <1>6, <1>7, <2>1, <2>2, <2>3 DEF PipeInv
<1>. QED
  BY <1>8, <1>9, <1>10, <1>11, <1>12, <1>13, <1>14, <1>15, <1>16, <1>17 DEF Process

\* The writers keep the invariant.
LEMMA WritersKeep ==
    ASSUME PipeInv, TypeOK', NEW w \in Writers, Writer(w)
    PROVE  PipeInv'
<1>0. PoolType /\ Tasks
  BY TypeParts DEF PipeInv
<1>1. UNCHANGED <<cpc, cp, stage, life, running, timer, collectq, hand,
                  chan, ppc, back, item, agg, outbox, todo>>
  BY Zenon DEF Writer, WriterTake, WriterWrite, controlVars, collectVars,
               processVars
<1>2. Starts' /\ Runs' /\ Collects' /\ Locals' /\ PluginsUp' /\ Drains'
  BY <1>1 DEF PipeInv, Starts, Runs, Unspawned, Stopping, StopDone, Closing,
              Collects, Fed, Locals, PluginsUp, Drains, Leaving, Last, Handling
<1>3. Owed' = Owed
  BY <1>1 DEF Owed
<1>4. CASE WriterTake(w)
  <2>1. /\ pool # <<>> /\ busy' = [busy EXCEPT ![w] = Head(pool)] /\ pool' = Tail(pool)
    BY <1>4 DEF WriterTake
  <2>2. Head(pool) \in Task /\ Len(pool') = Len(pool) - 1
    BY <1>0, <2>1, HeadTailProperties DEF PoolType
  <2>3. Len(pool) \in Nat
    BY <1>0 DEF PoolType
  <2>4. Room'
    BY <1>3, <2>2, <2>3, RoomKept
  <2>5. Tasks'
    BY <1>0, <2>1, <2>2 DEF Tasks, Task, PoolType
  <2>. QED  BY <1>2, <2>4, <2>5 DEF PipeInv
<1>5. CASE WriterWrite(w)
  <2>1. busy' = [busy EXCEPT ![w] = NoTask] /\ pool' = pool
    BY <1>5 DEF WriterWrite
  <2>2. Room'
    BY <1>0, <1>3, <2>1, RoomKept DEF PoolType
  <2>3. Tasks'
    BY <1>0, <2>1 DEF Tasks, PoolType
  <2>. QED  BY <1>2, <2>2, <2>3 DEF PipeInv
<1>. QED  BY <1>4, <1>5 DEF Writer

\* Every step keeps the invariant.
LEMMA PipeStep ==
    ASSUME PipeInv, [Next]_vars
    PROVE  PipeInv'
<1>1. CASE UNCHANGED vars
  <2>1. UNCHANGED <<cpc, cp, stage, life, running, timer, collectq, hand,
                    chan, ppc, back, item, agg, outbox, todo, pool, busy>>
    BY <1>1 DEF vars, controlVars, collectVars, processVars, sinkVars
  <2>2. Starts' /\ Runs' /\ Collects' /\ Locals' /\ PluginsUp' /\ Drains'
    BY <2>1 DEF PipeInv, Starts, Runs, Unspawned, Stopping, StopDone, Closing,
                Collects, Fed, Locals, PluginsUp, Drains, Leaving, Last, Handling
  <2>3. Tasks' /\ Room'
    BY <2>1 DEF PipeInv, Tasks, Room, Owed
  <2>4. TypeOK'
    BY <1>1 DEF PipeInv, TypeOK, vars, controlVars, collectVars, processVars,
                sinkVars, batchVars
  <2>. QED  BY <2>2, <2>3, <2>4 DEF PipeInv
<1>2. CASE Controller \/ Shutdown
  <2>1. TypeOK'
    BY <1>2, TypeController DEF PipeInv
  <2>. QED  BY <1>2, <2>1, StartKeeps, StopKeeps DEF Controller
<1>3. CASE \/ \E p \in Pipelines : SourceEvent(p) \/ CollectTick(p) \/ InjectFlush(p)
           \/ \E c \in Collectors : Collector(c)
  <2>1. TypeOK'
    BY <1>3, TypeSources DEF PipeInv
  <2>. QED  BY <1>3, <2>1, SourcesKeep
<1>4. ASSUME NEW p \in Pipelines, Process(p) PROVE PipeInv'
  <2>1. TypeOK'
    BY <1>4, TypeProcess DEF PipeInv
  <2>. QED  BY <1>4, <2>1, ProcessKeeps
<1>5. ASSUME NEW w \in Writers, Writer(w) PROVE PipeInv'
  <2>1. TypeOK'
    BY <1>5, TypeWriter DEF PipeInv
  <2>. QED  BY <1>5, <2>1, WritersKeep
<1>6. CASE Terminated
  BY <1>1, <1>6 DEF Terminated
<1>. QED  BY <1>1, <1>2, <1>3, <1>4, <1>5, <1>6 DEF Next

\* The inductive invariant of the pipelines holds in every reachable state.
THEOREM PipeInvariant == Spec => []PipeInv
<1>1. Init => PipeInv
  BY PipeInit
<1>2. PipeInv /\ [Next]_vars => PipeInv'
  BY PipeStep
<1>. QED  BY <1>1, <1>2, PTL DEF Spec

\* Sources, processors and aggregators are used only between Start and Stop, for
\* any number of pipelines, collectors and failures of Start (plugin_api.h).
THEOREM PluginsUsedWhileStarted == Spec => []UsedWhileStarted
<1>1. PipeInv => UsedWhileStarted
  BY DEF PipeInv, UsedWhileStarted, Collects, Fed, PluginsUp
<1>. QED  BY <1>1, PipeInvariant, PTL

\* The queue of the SinkPool exceeds kMaxPendingTasks by at most one batch per
\* pipeline, however the process threads interleave between test and submission.
THEOREM PoolIsBounded == Spec => []PoolBounded
<1>1. PipeInv => PoolBounded
  <2>. SUFFICES ASSUME PipeInv PROVE PoolBounded
    OBVIOUS
  <2>1. IsFiniteSet(Owed)
    <3>1. IsFiniteSet(Pipelines) /\ IsFiniteSet(Sinks)
      BY PipelineAssumption, FS_Interval DEF Pipelines, Sinks
    <3>2. IsFiniteSet(Pipelines \X Sinks)
      BY <3>1, FS_Product
    <3>. QED  BY <3>2, FS_Subset DEF Owed
  <2>2. Cardinality(Owed) \in Nat
    BY <2>1, FS_CardinalityType
  <2>3. Len(pool) \in Nat
    BY TypeParts DEF PipeInv, PoolType
  <2>4. PICK B \in Nat : B = MaxPending + N * NumSinks
    BY PipelineAssumption
  <2>5. Len(pool) + Cardinality(Owed) <= B
    BY <2>4 DEF PipeInv, Room
  <2>6. Len(pool) <= B
    BY <2>2, <2>3, <2>5
  <2>. QED  BY <2>4, <2>6 DEF PoolBounded
<1>. QED  BY <1>1, PipeInvariant, PTL

\* The order of StopAll (timers, CollectPool, pipelines) leaves nothing behind in
\* the channel or the aggregator of a pipeline that is fed by a pull source.
THEOREM PullPipelinesDrain == Spec => []PullDrained
<1>1. PipeInv => PullDrained
  BY DEF PipeInv, PullDrained, Drained, Drains, Last
<1>. QED  BY <1>1, PipeInvariant, PTL

-----------------------------------------------------------------------------
(* Counting: how often a sequence, or a function with a finite domain, takes *)
(* a value in S.                                                             *)

Hits(f, S) == Cardinality({k \in DOMAIN f : f[k] \in S})
One(x, S) == IF x \in S THEN 1 ELSE 0

\* An indicator is 0 or 1.
LEMMA OneType == \A x, S : One(x, S) \in 0..1
  BY DEF One

\* A finite domain makes the count a natural number, zero when nothing is hit.
LEMMA HitsType ==
    ASSUME NEW f, NEW S, IsFiniteSet(DOMAIN f)
    PROVE  /\ IsFiniteSet({k \in DOMAIN f : f[k] \in S})
           /\ Hits(f, S) \in Nat
           /\ Hits(f, S) = 0 <=> \A k \in DOMAIN f : f[k] \notin S
<1>. DEFINE T == {k \in DOMAIN f : f[k] \in S}
<1>1. T \in SUBSET DOMAIN f
  OBVIOUS
<1>2. IsFiniteSet(T)
  BY <1>1, FS_Subset
<1>3. Cardinality(T) \in Nat /\ (Cardinality(T) = 0 <=> T = {})
  BY <1>2, FS_CardinalityType, FS_EmptySet
<1>4. Hits(f, S) = Cardinality(T)
  BY DEF Hits
<1>. QED  BY <1>2, <1>3, <1>4

\* The domain of a sequence is finite.
LEMMA SeqFinite ==
    ASSUME NEW A, NEW q \in Seq(A)
    PROVE  IsFiniteSet(DOMAIN q) /\ DOMAIN q = 1..Len(q) /\ Len(q) \in Nat
<1>1. DOMAIN q = 1..Len(q) /\ Len(q) \in Nat
  OBVIOUS
<1>. QED  BY <1>1, FS_Interval

\* An empty sequence hits nothing.
LEMMA HitsEmpty == ASSUME NEW S PROVE Hits(<<>>, S) = 0
<1>1. {k \in DOMAIN <<>> : (<<>>)[k] \in S} = {}
  OBVIOUS
<1>. QED  BY <1>1, FS_EmptySet DEF Hits

\* Replacing one value of a function.
LEMMA HitsExcept ==
    ASSUME NEW f, NEW g, NEW D, IsFiniteSet(D), DOMAIN f = D, DOMAIN g = D,
           NEW d \in D, NEW S, \A k \in D \ {d} : g[k] = f[k]
    PROVE  Hits(g, S) + One(f[d], S) = Hits(f, S) + One(g[d], S)
<1>. DEFINE R == {k \in D \ {d} : f[k] \in S}
            F == {k \in D : f[k] \in S}
            G == {k \in D : g[k] \in S}
<1>1. IsFiniteSet(R) /\ Cardinality(R) \in Nat
  BY FS_Subset, FS_CardinalityType
<1>2. F = IF f[d] \in S THEN R \cup {d} ELSE R
  OBVIOUS
<1>3. G = IF g[d] \in S THEN R \cup {d} ELSE R
  OBVIOUS
<1>4. d \notin R
  OBVIOUS
<1>5. Hits(f, S) = Cardinality(F) /\ Hits(g, S) = Cardinality(G)
  BY DEF Hits
<1>. HIDE DEF R, F, G
<1>6. Cardinality(R \cup {d}) = Cardinality(R) + 1
  BY <1>1, <1>4, FS_AddElement
<1>7. Cardinality(F) = Cardinality(R) + One(f[d], S)
  BY <1>1, <1>2, <1>6 DEF One
<1>8. Cardinality(G) = Cardinality(R) + One(g[d], S)
  BY <1>1, <1>3, <1>6 DEF One
<1>9. PICK a \in 0..1, b \in 0..1 : a = One(f[d], S) /\ b = One(g[d], S)
  BY OneType
<1>. QED  BY <1>1, <1>5, <1>7, <1>8, <1>9

\* Append counts the new element ...
LEMMA HitsAppend ==
    ASSUME NEW A, NEW q \in Seq(A), NEW x \in A, NEW S
    PROVE  Hits(Append(q, x), S) = Hits(q, S) + One(x, S)
<1>. DEFINE n == Len(q)
            F == {k \in DOMAIN q : q[k] \in S}
            G == {k \in DOMAIN Append(q, x) : Append(q, x)[k] \in S}
<1>1. n \in Nat /\ DOMAIN q = 1..n /\ DOMAIN Append(q, x) = 1..(n + 1)
  OBVIOUS
<1>2. /\ Append(q, x)[n + 1] = x
      /\ \A k \in 1..n : Append(q, x)[k] = q[k]
  OBVIOUS
<1>3. n + 1 \notin F
  BY <1>1
<1>4. G = IF x \in S THEN F \cup {n + 1} ELSE F
  BY <1>1, <1>2
<1>5. IsFiniteSet(F) /\ Cardinality(F) \in Nat
  BY SeqFinite, HitsType, FS_CardinalityType
<1>6. Hits(q, S) = Cardinality(F) /\ Hits(Append(q, x), S) = Cardinality(G)
  BY DEF Hits
<1>. HIDE DEF F, G
<1>7. Cardinality(F \cup {n + 1}) = Cardinality(F) + 1
  BY <1>3, <1>5, FS_AddElement
<1>. QED  BY <1>4, <1>5, <1>6, <1>7 DEF One

\* ... and Tail leaves the first one out.
LEMMA HitsTail ==
    ASSUME NEW A, NEW q \in Seq(A), q # <<>>, NEW S
    PROVE  Hits(Tail(q), S) + One(Head(q), S) = Hits(q, S)
<1>. DEFINE n == Len(q)
            F == {k \in 1..n : q[k] \in S}
            R == {k \in 2..n : q[k] \in S}
            G == {k \in 1..(n - 1) : q[k + 1] \in S}
            up == [k \in G |-> k + 1]
<1>1. n \in Nat \ {0} /\ DOMAIN q = 1..n
  OBVIOUS
<1>2. /\ DOMAIN Tail(q) = 1..(n - 1) /\ Head(q) = q[1]
      /\ \A k \in 1..(n - 1) : Tail(q)[k] = q[k + 1]
  OBVIOUS
<1>3. Hits(q, S) = Cardinality(F) /\ Hits(Tail(q), S) = Cardinality(G)
  <2>1. {k \in DOMAIN Tail(q) : Tail(q)[k] \in S} = G
    BY <1>2
  <2>. QED  BY <1>1, <2>1 DEF Hits
<1>4. IsFiniteSet(G) /\ IsFiniteSet(R) /\ Cardinality(R) \in Nat
  <2>1. IsFiniteSet(1..(n - 1)) /\ IsFiniteSet(2..n)
    BY <1>1, FS_Interval
  <2>. QED  BY <2>1, FS_Subset, FS_CardinalityType
<1>5. Cardinality(R) = Cardinality(G)
  <2>1. up \in Bijection(G, R)
    <3>1. \A k \in G : up[k] = k + 1 /\ up[k] \in R
      BY <1>1
    <3>2. \A j, k \in G : up[j] = up[k] => j = k
      BY <1>1, <3>1
    <3>3. \A m \in R : \E k \in G : up[k] = m
      <4>. TAKE m \in R
      <4>1. m - 1 \in G /\ up[m - 1] = m
        BY <1>1
      <4>. QED  BY <4>1
    <3>. QED  BY <3>1, <3>2, <3>3 DEF Bijection, Injection, Surjection, IsInjective
  <2>2. ExistsBijection(G, R)
    BY <2>1 DEF ExistsBijection
  <2>. QED  BY <1>4, <2>2, FS_Bijection
<1>6. F = IF Head(q) \in S THEN R \cup {1} ELSE R
  BY <1>1, <1>2
<1>7. 1 \notin R
  OBVIOUS
<1>. HIDE DEF F, G, R
<1>8. Cardinality(R \cup {1}) = Cardinality(R) + 1
  BY <1>4, <1>7, FS_AddElement
<1>. QED  BY <1>3, <1>4, <1>5, <1>6, <1>8 DEF One

-----------------------------------------------------------------------------
(* Where the copies of a batch are: before the aggregator's output, between  *)
(* SubmitToSinks and Write, and given to the sink.                           *)

Holding(b) == {B \in SUBSET Batches : b \in B}
TasksWith(p, s, b) ==
    {t \in [p : 0..N, s : 0..NumSinks, b : SUBSET Batches] :
        t.p = p /\ t.s = s /\ b \in t.b}

\* What a process thread that submits the first batch of q to sink t next has
\* yet to submit to sink s.
Unsent(q, t, s, b) ==
    Hits(q, Holding(b)) - (IF s < t THEN One(Head(q), Holding(b)) ELSE 0)

Upstream(p, b) ==
    Hits(hand, {[p |-> p, b |-> b]}) + Hits(chan[p], {b}) + One(item[p], {b})
        + One(b, agg[p])
Downstream(p, s, b) ==
    Unsent(outbox[p], todo[p], s, b) + Hits(pool, TasksWith(p, s, b))
        + Hits(busy, TasksWith(p, s, b))
Given(p, s, b) == One(b, written[p][s]) + One(b, late[p][s])

\* All that the counts are made of are natural numbers.
Counted ==
    /\ \A p \in Pipelines, b \in Batches :
          /\ Hits(hand, {[p |-> p, b |-> b]}) \in Nat
          /\ Hits(chan[p], {b}) \in Nat
          /\ Hits(outbox[p], Holding(b)) \in Nat
          /\ Upstream(p, b) \in Nat
    /\ \A p \in Pipelines, s \in Sinks, b \in Batches :
          /\ Unsent(outbox[p], todo[p], s, b) \in Nat
          /\ Hits(pool, TasksWith(p, s, b)) \in Nat
          /\ Hits(busy, TasksWith(p, s, b)) \in Nat
          /\ Downstream(p, s, b) \in Nat
          /\ Given(p, s, b) \in Nat

\* Only a process thread inside the submissions has passed a sink.
LEMMA PushesOn ==
    ASSUME Locals, NEW p \in Pipelines, NEW s \in Sinks, s < todo[p]
    PROVE  ppc[p] = "push" /\ outbox[p] # <<>>
  BY PipelineAssumption DEF Locals, Sinks

\* All the counts are natural numbers, before a step ...
LEMMA CountsTyped == TypeOK /\ Locals => Counted
<1>. SUFFICES ASSUME TypeOK, Locals PROVE Counted
  OBVIOUS
<1>. USE PipelineAssumption
<1>0. CollectType /\ ChanType /\ LocalType /\ PoolType /\ PcType
  BY TypeParts
<1>1. ASSUME NEW p \in Pipelines, NEW b \in Batches
      PROVE  /\ Hits(hand, {[p |-> p, b |-> b]}) \in Nat
             /\ Hits(chan[p], {b}) \in Nat
             /\ Hits(outbox[p], Holding(b)) \in Nat
             /\ Upstream(p, b) \in Nat
  <2>1. PICK h \in Nat : h = Hits(hand, {[p |-> p, b |-> b]})
    <3>1. DOMAIN hand = Collectors
      BY <1>0 DEF CollectType
    <3>. QED  BY <3>1, HitsType
  <2>2. PICK c \in Nat : c = Hits(chan[p], {b})
    <3>1. chan[p] \in Seq(0..MaxBatches)
      BY <1>0 DEF ChanType
    <3>2. IsFiniteSet(DOMAIN chan[p])
      BY <3>1, SeqFinite
    <3>. QED  BY <3>2, HitsType
  <2>3. Hits(outbox[p], Holding(b)) \in Nat
    <3>1. outbox[p] \in Seq(SUBSET Batches)
      BY <1>0 DEF LocalType
    <3>2. IsFiniteSet(DOMAIN outbox[p])
      BY <3>1, SeqFinite
    <3>. QED  BY <3>2, HitsType
  <2>4. PICK i \in 0..1, a \in 0..1 : i = One(item[p], {b}) /\ a = One(b, agg[p])
    BY OneType
  <2>5. Upstream(p, b) = h + c + i + a
    BY <2>1, <2>2, <2>4 DEF Upstream
  <2>6. h + c + i + a \in Nat
    OBVIOUS
  <2>. QED  BY <2>1, <2>2, <2>3, <2>5, <2>6
<1>2. ASSUME NEW p \in Pipelines, NEW s \in Sinks, NEW b \in Batches
      PROVE  /\ Unsent(outbox[p], todo[p], s, b) \in Nat
             /\ Hits(pool, TasksWith(p, s, b)) \in Nat
             /\ Hits(busy, TasksWith(p, s, b)) \in Nat
             /\ Downstream(p, s, b) \in Nat
             /\ Given(p, s, b) \in Nat
  <2>1. PICK m \in Nat : m = Hits(pool, TasksWith(p, s, b))
    <3>1. IsFiniteSet(DOMAIN pool)
      BY <1>0, SeqFinite DEF PoolType
    <3>. QED  BY <3>1, HitsType
  <2>2. PICK y \in Nat : y = Hits(busy, TasksWith(p, s, b))
    <3>1. DOMAIN busy = Writers
      BY <1>0 DEF PoolType
    <3>. QED  BY <3>1, HitsType
  <2>3. PICK o \in Nat : o = Unsent(outbox[p], todo[p], s, b)
    <3>1. outbox[p] \in Seq(SUBSET Batches)
      BY <1>0 DEF LocalType
    <3>2. Hits(outbox[p], Holding(b)) \in Nat
      BY <1>1
    <3>3. CASE s < todo[p]
      <4>1. outbox[p] # <<>>
        BY <1>0, <3>3, PushesOn DEF LocalType
      <4>2. PICK o1 \in Nat : o1 = Hits(Tail(outbox[p]), Holding(b))
        <5>1. Tail(outbox[p]) \in Seq(SUBSET Batches)
          BY <3>1, <4>1, HeadTailProperties
        <5>2. IsFiniteSet(DOMAIN Tail(outbox[p]))
          BY <5>1, SeqFinite
        <5>. QED  BY <5>2, HitsType
      <4>3. Hits(Tail(outbox[p]), Holding(b)) + One(Head(outbox[p]), Holding(b))
                = Hits(outbox[p], Holding(b))
        BY <3>1, <4>1, HitsTail
      <4>4. PICK d \in 0..1 : d = One(Head(outbox[p]), Holding(b))
        BY OneType
      <4>5. Unsent(outbox[p], todo[p], s, b) = o1 + d - d
        BY <3>3, <4>2, <4>3, <4>4 DEF Unsent
      <4>. QED  BY <4>5
    <3>4. CASE ~(s < todo[p])
      BY <3>2, <3>4 DEF Unsent
    <3>. QED  BY <3>3, <3>4
  <2>4. Downstream(p, s, b) \in Nat
    BY <2>1, <2>2, <2>3 DEF Downstream
  <2>5. Given(p, s, b) \in Nat
    BY OneType DEF Given
  <2>. QED  BY <2>1, <2>2, <2>3, <2>4, <2>5
<1>. QED  BY <1>1, <1>2 DEF Counted

\* ... and after it.
LEMMA CountsTypedNext == TypeOK' /\ Locals' => Counted'
  BY CountsTyped, PTL

\* The copies of a batch are those upstream, downstream and given.
CopiesSplit ==
    \A p \in Pipelines, s \in Sinks, b \in Batches :
        Copies(p, s, b) = Upstream(p, b) + Downstream(p, s, b) + Given(p, s, b)

\* The copies of a batch split, before a step ...
LEMMA CopiesParts == TypeOK /\ Locals => CopiesSplit
<1>. SUFFICES ASSUME TypeOK, Locals,
                     NEW p \in Pipelines, NEW s \in Sinks, NEW b \in Batches
              PROVE  Copies(p, s, b)
                         = Upstream(p, b) + Downstream(p, s, b) + Given(p, s, b)
  BY DEF CopiesSplit
<1>. USE PipelineAssumption
<1>0. CollectType /\ ChanType /\ LocalType /\ PoolType /\ PcType /\ Counted
  BY TypeParts, CountsTyped
<1>. DEFINE hs == {c \in Collectors : hand[c] = [p |-> p, b |-> b]}
            cs == {k \in DOMAIN chan[p] : chan[p][k] = b}
            os == {k \in DOMAIN outbox[p] :
                     b \in outbox[p][k] /\ ~(k = 1 /\ ppc[p] = "push" /\ s < todo[p])}
            ms == {k \in DOMAIN pool :
                     pool[k].p = p /\ pool[k].s = s /\ b \in pool[k].b}
            ys == {w \in Writers :
                     busy[w].p = p /\ busy[w].s = s /\ b \in busy[w].b}
<1>1. PICK h \in Nat : h = Cardinality(hs) /\ h = Hits(hand, {[p |-> p, b |-> b]})
  <2>1. hs = {c \in DOMAIN hand : hand[c] \in {[p |-> p, b |-> b]}}
    BY <1>0 DEF CollectType
  <2>. QED  BY <1>0, <2>1 DEF Hits, Counted
<1>2. PICK c \in Nat : c = Cardinality(cs) /\ c = Hits(chan[p], {b})
  <2>1. cs = {k \in DOMAIN chan[p] : chan[p][k] \in {b}}
    OBVIOUS
  <2>. QED  BY <1>0, <2>1 DEF Hits, Counted
<1>3. PICK m \in Nat : m = Cardinality(ms) /\ m = Hits(pool, TasksWith(p, s, b))
  <2>0. \A k \in DOMAIN pool : pool[k] \in Task
    BY <1>0 DEF PoolType
  <2>1. \A k \in DOMAIN pool :
            pool[k] \in TasksWith(p, s, b)
                <=> pool[k].p = p /\ pool[k].s = s /\ b \in pool[k].b
    BY <2>0 DEF Task, TasksWith, Pipelines, Sinks
  <2>2. ms = {k \in DOMAIN pool : pool[k] \in TasksWith(p, s, b)}
    BY <2>1
  <2>. QED  BY <1>0, <2>2 DEF Hits, Counted
<1>4. PICK y \in Nat : y = Cardinality(ys) /\ y = Hits(busy, TasksWith(p, s, b))
  <2>1. \A w \in Writers :
            busy[w] \in TasksWith(p, s, b)
                <=> busy[w].p = p /\ busy[w].s = s /\ b \in busy[w].b
    BY <1>0 DEF PoolType, TasksWith
  <2>2. DOMAIN busy = Writers
    BY <1>0 DEF PoolType
  <2>3. ys = {w \in DOMAIN busy : busy[w] \in TasksWith(p, s, b)}
    BY <2>1, <2>2
  <2>. QED  BY <1>0, <2>3 DEF Hits, Counted
<1>5. PICK o \in Nat : o = Cardinality(os)
                       /\ o = Unsent(outbox[p], todo[p], s, b)
  <2>. DEFINE all == {k \in DOMAIN outbox[p] : outbox[p][k] \in Holding(b)}
  <2>1. outbox[p] \in Seq(SUBSET Batches) /\ DOMAIN outbox[p] = 1..Len(outbox[p])
    BY <1>0 DEF LocalType
  <2>2. \A k \in DOMAIN outbox[p] :
            outbox[p][k] \in Holding(b) <=> b \in outbox[p][k]
    BY <2>1 DEF Holding
  <2>3. Hits(outbox[p], Holding(b)) = Cardinality(all)
    BY DEF Hits
  <2>4. IsFiniteSet(all) /\ Cardinality(all) \in Nat
    BY <2>1, SeqFinite, HitsType, FS_CardinalityType
  <2>5. CASE s < todo[p]
    <3>1. outbox[p] # <<>> /\ ppc[p] = "push"
      BY <1>0, <2>5, PushesOn
    <3>2. 1 \in DOMAIN outbox[p] /\ Head(outbox[p]) = outbox[p][1]
      BY <2>1, <3>1
    <3>3. os = all \ {1}
      BY <2>2, <2>5, <3>1
    <3>4. 1 \in all <=> Head(outbox[p]) \in Holding(b)
      BY <3>2
    <3>. HIDE DEF os, all
    <3>5. Cardinality(all \ {1}) =
              IF 1 \in all THEN Cardinality(all) - 1 ELSE Cardinality(all)
      BY <2>4, FS_RemoveElement
    <3>6. Cardinality(os) = Cardinality(all) - One(Head(outbox[p]), Holding(b))
      BY <2>4, <3>3, <3>4, <3>5 DEF One
    <3>7. Cardinality(os) = Unsent(outbox[p], todo[p], s, b)
      BY <2>3, <2>5, <3>6 DEF Unsent
    <3>. QED  BY <1>0, <3>7 DEF Counted
  <2>6. CASE ~(s < todo[p])
    <3>1. os = all
      BY <2>2, <2>6
    <3>. HIDE DEF os, all
    <3>2. Unsent(outbox[p], todo[p], s, b) = Cardinality(all) - 0
      BY <2>3, <2>6 DEF Unsent
    <3>3. Cardinality(os) = Unsent(outbox[p], todo[p], s, b)
      BY <2>4, <3>1, <3>2
    <3>. QED  BY <1>0, <3>3 DEF Counted
  <2>. QED  BY <2>5, <2>6
<1>. HIDE DEF hs, cs, os, ms, ys
<1>6. PICK i \in 0..1, a \in 0..1, w \in 0..1, l \in 0..1 :
          /\ i = One(item[p], {b}) /\ a = One(b, agg[p])
          /\ w = One(b, written[p][s]) /\ l = One(b, late[p][s])
  BY OneType
<1>7. /\ i = (IF item[p] = b THEN 1 ELSE 0) /\ a = (IF b \in agg[p] THEN 1 ELSE 0)
      /\ w = (IF b \in written[p][s] THEN 1 ELSE 0)
      /\ l = (IF b \in late[p][s] THEN 1 ELSE 0)
  BY <1>6 DEF One
<1>8. Copies(p, s, b) = h + c + i + a + o + m + y + w + l
  BY <1>1, <1>2, <1>3, <1>4, <1>5, <1>7 DEF Copies, hs, cs, os, ms, ys
<1>9. /\ Upstream(p, b) = h + c + i + a
      /\ Downstream(p, s, b) = o + m + y
      /\ Given(p, s, b) = w + l
  BY <1>1, <1>2, <1>3, <1>4, <1>5, <1>6 DEF Upstream, Downstream, Given
<1>10. h + c + i + a + o + m + y + w + l = (h + c + i + a) + (o + m + y) + (w + l)
  OBVIOUS
<1>. QED  BY <1>8, <1>9, <1>10

\* ... and after it.
LEMMA CopiesPartsNext == TypeOK' /\ Locals' => CopiesSplit'
  BY CopiesParts, PTL

\* A state in which every batch is accounted for, in those terms.
Accounted ==
    \A p \in Pipelines, s \in Sinks, b \in Batches :
        Upstream(p, b) + Downstream(p, s, b) + Given(p, s, b)
            = One(fate[p][b], {"flight"})

\* The account is what EachBatchOnce says, before a step ...
LEMMA AccountedIsOnce == TypeOK /\ Locals => (Accounted <=> EachBatchOnce)
<1>1. \A p \in Pipelines, b \in Batches :
          One(fate[p][b], {"flight"}) = IF fate[p][b] = "flight" THEN 1 ELSE 0
  BY DEF One
<1>. QED  BY <1>1, CopiesParts DEF CopiesSplit, Accounted, EachBatchOnce

\* ... and after it.
LEMMA AccountedIsOnceNext == TypeOK' /\ Locals' => (Accounted' <=> EachBatchOnce')
  BY AccountedIsOnce, PTL

\* A batch is in one place at most: what is known of b in a state that accounts
\* for it.
LEMMA OnePlace ==
    ASSUME Counted, Accounted, NEW p \in Pipelines, NEW s \in Sinks, NEW b \in Batches
    PROVE  /\ Upstream(p, b) \in 0..1 /\ Downstream(p, s, b) \in 0..1
           /\ Given(p, s, b) \in 0..1
           /\ Upstream(p, b) + Downstream(p, s, b) + Given(p, s, b)
                  = One(fate[p][b], {"flight"})
           /\ One(fate[p][b], {"flight"}) \in 0..1
<1>1. PICK u \in Nat, d \in Nat, g \in Nat :
          u = Upstream(p, b) /\ d = Downstream(p, s, b) /\ g = Given(p, s, b)
  BY DEF Counted
<1>2. PICK e \in 0..1 : e = One(fate[p][b], {"flight"})
  BY OneType
<1>3. u + d + g = e
  BY <1>1, <1>2 DEF Accounted
<1>4. u \in 0..1 /\ d \in 0..1 /\ g \in 0..1
  BY <1>3
<1>. QED  BY <1>1, <1>2, <1>3, <1>4

\* The number of b's in the channel after x has been offered, and b's fate: b was
\* there or was offered, and is dropped; or it keeps the fate f gives it and its
\* number is what was there and what was offered.
LEMMA OfferCounts ==
    ASSUME ChanType, NEW p \in Pipelines, NEW x \in 0..MaxBatches, NEW evict \in BOOLEAN,
           NEW f, NEW b \in Batches,
           Hits(chan[p], {b}) + One(x, {b}) <= 1
    PROVE  \/ /\ FatesAfterOffer(p, x, evict, f)[b] = "dropped"
              /\ Hits(Offered(p, x, evict), {b}) = 0
              /\ Hits(chan[p], {b}) + One(x, {b}) = 1
           \/ /\ FatesAfterOffer(p, x, evict, f)[b] = f[b]
              /\ Hits(Offered(p, x, evict), {b}) = Hits(chan[p], {b}) + One(x, {b})
<1>. USE PipelineAssumption
<1>. DEFINE q == chan[p]
            r == Offered(p, x, evict)
<1>0. b # Flush /\ b \in 0..MaxBatches
  BY DEF Batches, Flush
<1>1. q \in Seq(0..MaxBatches) /\ r \in Seq(0..MaxBatches)
  BY OfferedType DEF ChanType
<1>2. PICK n \in Nat : n = Hits(q, {b})
  BY <1>1, SeqFinite, HitsType
<1>3. PICK m \in Nat : m = Hits(r, {b})
  BY <1>1, SeqFinite, HitsType
<1>4. PICK e \in 0..1 : e = One(x, {b})
  BY OneType
<1>5. n = 0 <=> b \notin Contents(q)
  <2>1. n = 0 <=> \A k \in DOMAIN q : q[k] \notin {b}
    BY <1>1, <1>2, SeqFinite, HitsType
  <2>. QED  BY <1>0, <2>1 DEF Contents
<1>6. m = 0 <=> b \notin Contents(r)
  <2>1. m = 0 <=> \A k \in DOMAIN r : r[k] \notin {b}
    BY <1>1, <1>3, SeqFinite, HitsType
  <2>. QED  BY <1>0, <2>1 DEF Contents
<1>7. e = 0 <=> b \notin {x} \ {Flush}
  BY <1>0, <1>4 DEF One
<1>8. m <= n + e
  <2>1. CASE Len(q) < Capacity
    <3>1. r = Append(q, x)
      BY <2>1 DEF Offered
    <3>. QED  BY <1>1, <1>2, <1>3, <1>4, <3>1, HitsAppend
  <2>2. CASE ~(Len(q) < Capacity) /\ evict
    <3>1. r = Append(Tail(q), x)
      BY <2>2 DEF Offered
    <3>2. q # <<>>
      BY <1>1, <2>2
    <3>3. Tail(q) \in Seq(0..MaxBatches)
      BY <1>1, <3>2, HeadTailProperties
    <3>4. PICK t \in Nat : t = Hits(Tail(q), {b})
      BY <3>3, SeqFinite, HitsType
    <3>5. PICK d \in 0..1 : d = One(Head(q), {b})
      BY OneType
    <3>6. t + d = n
      BY <1>1, <1>2, <3>2, <3>4, <3>5, HitsTail
    <3>7. m = t + e
      BY <1>3, <1>4, <3>1, <3>3, <3>4, HitsAppend
    <3>. QED  BY <3>6, <3>7
  <2>3. CASE ~(Len(q) < Capacity) /\ ~evict
    <3>1. r = q
      BY <2>3 DEF Offered
    <3>. QED  BY <1>2, <1>3, <3>1
  <2>. QED  BY <2>1, <2>2, <2>3
<1>9. n + e <= 1
  BY <1>2, <1>4
<1>10. FatesAfterOffer(p, x, evict, f)[b] =
          IF b \in Contents(q) \cup ({x} \ {Flush}) /\ b \notin Contents(r)
          THEN "dropped" ELSE f[b]
  BY DEF FatesAfterOffer
<1>. HIDE DEF q, r
<1>11. CASE m = 0 /\ n + e = 1
  <2>1. b \in Contents(q) \cup ({x} \ {Flush}) /\ b \notin Contents(r)
    BY <1>5, <1>6, <1>7, <1>11
  <2>2. FatesAfterOffer(p, x, evict, f)[b] = "dropped"
    BY <1>10, <2>1
  <2>. QED  BY <1>2, <1>3, <1>4, <1>11, <2>2 DEF q, r
<1>12. CASE ~(m = 0 /\ n + e = 1)
  <2>1. m = n + e
    BY <1>8, <1>9, <1>12
  <2>2. ~(b \in Contents(q) \cup ({x} \ {Flush}) /\ b \notin Contents(r))
    BY <1>5, <1>6, <1>7, <1>12, <1>9
  <2>3. FatesAfterOffer(p, x, evict, f)[b] = f[b]
    BY <1>10, <2>2
  <2>. QED  BY <1>2, <1>3, <1>4, <2>1, <2>3 DEF q, r
<1>. QED  BY <1>11, <1>12

-----------------------------------------------------------------------------
(* Every step keeps the account *)

\* A step that touches none of the counted variables.
LEMMA OnceQuiet ==
    ASSUME Accounted, UNCHANGED <<hand, chan, item, agg, outbox, todo, pool, busy,
                                  written, late, fate>>
    PROVE  Accounted'
  BY DEF Accounted, Upstream, Downstream, Given

\* A step that changes what is upstream only, and the fates with it.
LEMMA OnceUpstream ==
    ASSUME Counted, Counted', Accounted,
           UNCHANGED <<outbox, todo, pool, busy, written, late>>,
           \A q \in Pipelines, b \in Batches :
               Upstream(q, b)' + One(fate[q][b], {"flight"})
                   = Upstream(q, b) + One(fate'[q][b], {"flight"})
    PROVE  Accounted'
<1>. SUFFICES ASSUME NEW q \in Pipelines, NEW s \in Sinks, NEW b \in Batches
              PROVE  Upstream(q, b)' + Downstream(q, s, b)' + Given(q, s, b)'
                         = One(fate'[q][b], {"flight"})
  BY Zenon DEF Accounted
<1>1. Downstream(q, s, b)' = Downstream(q, s, b) /\ Given(q, s, b)' = Given(q, s, b)
  BY DEF Downstream, Given
<1>2. PICK u \in Nat, v \in Nat, d \in Nat, g \in Nat :
          /\ u = Upstream(q, b) /\ v = Upstream(q, b)'
          /\ d = Downstream(q, s, b) /\ g = Given(q, s, b)
  BY DEF Counted
<1>3. PICK e \in 0..1, f \in 0..1 :
          e = One(fate[q][b], {"flight"}) /\ f = One(fate'[q][b], {"flight"})
  BY OneType
<1>4. u + d + g = e
  BY <1>2, <1>3 DEF Accounted
<1>5. v + e = u + f
  BY <1>2, <1>3
<1>6. v + d + g = f
  BY <1>4, <1>5
<1>. QED  BY <1>1, <1>2, <1>3, <1>6

\* Before an offer of x to the channel of p, x is accounted for by the fates f and
\* the hands after the step.
HandsElsewhere(p) ==
    \A q \in Pipelines \ {p}, b \in Batches :
        Hits(hand', {[p |-> q, b |-> b]}) = Hits(hand, {[p |-> q, b |-> b]})
HandsOver(p, x, f) ==
    \A b \in Batches :
        Hits(hand', {[p |-> p, b |-> b]}) + One(x, {b}) + One(fate[p][b], {"flight"})
            = Hits(hand, {[p |-> p, b |-> b]}) + One(f[b], {"flight"})

\* A batch that is offered to the channel, and what it evicts, stay accounted for.
LEMMA OnceOffer ==
    ASSUME Counted, Counted', Accounted, ChanType, BatchType,
           NEW p \in Pipelines, NEW x \in 0..MaxBatches, NEW evict \in BOOLEAN, NEW f,
           chan' = [chan EXCEPT ![p] = Offered(p, x, evict)],
           fate' = [fate EXCEPT ![p] = FatesAfterOffer(p, x, evict, f)],
           UNCHANGED <<item, agg, outbox, todo, pool, busy, written, late>>,
           HandsElsewhere(p), HandsOver(p, x, f)
    PROVE  Accounted'
<1>. SUFFICES ASSUME NEW q \in Pipelines, NEW b \in Batches
              PROVE  Upstream(q, b)' + One(fate[q][b], {"flight"})
                         = Upstream(q, b) + One(fate'[q][b], {"flight"})
  BY OnceUpstream
<1>0. DOMAIN chan = Pipelines /\ DOMAIN fate = Pipelines
  BY DEF ChanType, BatchType
<1>1. CASE q # p
  <2>1. chan'[q] = chan[q] /\ fate'[q] = fate[q]
    BY <1>0, <1>1
  <2>2. Hits(hand', {[p |-> q, b |-> b]}) = Hits(hand, {[p |-> q, b |-> b]})
    BY <1>1 DEF HandsElsewhere
  <2>3. Upstream(q, b)' = Upstream(q, b)
    BY <2>1, <2>2 DEF Upstream
  <2>. QED  BY <2>1, <2>3
<1>2. CASE q = p
  <2>1. chan'[p] = Offered(p, x, evict) /\ fate'[p] = FatesAfterOffer(p, x, evict, f)
    BY <1>0
  <2>2. PICK h \in Nat, h1 \in Nat, c \in Nat, c1 \in Nat :
            /\ h = Hits(hand, {[p |-> p, b |-> b]})
            /\ h1 = Hits(hand', {[p |-> p, b |-> b]})
            /\ c = Hits(chan[p], {b}) /\ c1 = Hits(chan'[p], {b})
    BY DEF Counted
  <2>3. PICK i \in 0..1, a \in 0..1, e \in 0..1, t \in 0..1, u \in 0..1, v \in 0..1 :
            /\ i = One(item[p], {b}) /\ a = One(b, agg[p]) /\ e = One(x, {b})
            /\ t = One(fate[p][b], {"flight"}) /\ u = One(f[b], {"flight"})
            /\ v = One(fate'[p][b], {"flight"})
    BY OneType
  <2>4. Upstream(p, b) = h + c + i + a /\ Upstream(p, b)' = h1 + c1 + i + a
    BY <2>2, <2>3 DEF Upstream
  <2>5. h1 + e + t = h + u
    BY <2>2, <2>3 DEF HandsOver
  <2>6. h + c + i + a <= t
    <3>1. PICK s \in Sinks : TRUE
      BY PipelineAssumption DEF Sinks
    <3>2. PICK d \in Nat, g \in Nat :
              d = Downstream(p, s, b) /\ g = Given(p, s, b)
      BY DEF Counted
    <3>3. Upstream(p, b) + Downstream(p, s, b) + Given(p, s, b)
              = One(fate[p][b], {"flight"})
      BY DEF Accounted
    <3>4. (h + c + i + a) + d + g = t
      BY <2>3, <2>4, <3>2, <3>3
    <3>. QED  BY <3>4
  <2>7. c + e <= 1 /\ (c + e = 1 => u = 1)
    BY <2>5, <2>6
  <2>8. \/ FatesAfterOffer(p, x, evict, f)[b] = "dropped" /\ c1 = 0 /\ c + e = 1
        \/ FatesAfterOffer(p, x, evict, f)[b] = f[b] /\ c1 = c + e
    BY <2>1, <2>2, <2>3, <2>7, OfferCounts
  <2>9. \/ v = 0 /\ c1 = 0 /\ c + e = 1
        \/ v = u /\ c1 = c + e
    BY <2>1, <2>3, <2>8 DEF One
  <2>10. h1 + c1 + i + a + t = h + c + i + a + v
    BY <2>5, <2>6, <2>7, <2>9
  <2>. QED  BY <1>2, <2>3, <2>4, <2>10
<1>. QED  BY <1>1, <1>2

\* A batch that is not in flight is nowhere.
LEMMA Nowhere ==
    ASSUME Counted, Accounted, NEW p \in Pipelines, NEW b \in Batches,
           fate[p][b] # "flight"
    PROVE  /\ Upstream(p, b) = 0 /\ Hits(chan[p], {b}) = 0
           /\ Hits(hand, {[p |-> p, b |-> b]}) = 0
<1>1. PICK s \in Sinks : TRUE
  BY PipelineAssumption DEF Sinks
<1>2. PICK u \in 0..1, d \in 0..1, g \in 0..1 :
          u = Upstream(p, b) /\ d = Downstream(p, s, b) /\ g = Given(p, s, b)
  BY OnePlace
<1>3. u + d + g = One(fate[p][b], {"flight"})
  BY <1>2 DEF Accounted
<1>4. u = 0
  BY <1>3 DEF One
<1>5. PICK h \in Nat, c \in Nat :
          h = Hits(hand, {[p |-> p, b |-> b]}) /\ c = Hits(chan[p], {b})
  BY DEF Counted
<1>6. PICK i \in 0..1, a \in 0..1 : i = One(item[p], {b}) /\ a = One(b, agg[p])
  BY OneType
<1>7. u = h + c + i + a
  BY <1>2, <1>5, <1>6 DEF Upstream
<1>8. h = 0 /\ c = 0
  BY <1>4, <1>7
<1>. QED  BY <1>2, <1>4, <1>5, <1>8

\* An offer does not touch the fate of a batch that is not made yet.
LEMMA OfferKeepsUnmade ==
    ASSUME Counted, Accounted, ChanType, NEW p \in Pipelines, NEW x \in 0..MaxBatches,
           NEW evict \in BOOLEAN, NEW f, NEW b \in Batches, x # b, fate[p][b] = "unmade"
    PROVE  FatesAfterOffer(p, x, evict, f)[b] = f[b]
<1>1. Hits(chan[p], {b}) = 0
  BY Nowhere
<1>2. chan[p] \in Seq(0..MaxBatches)
  BY DEF ChanType
<1>3. IsFiniteSet(DOMAIN chan[p])
  BY <1>2, SeqFinite
<1>4. \A k \in DOMAIN chan[p] : chan[p][k] \notin {b}
  BY <1>1, <1>3, HitsType
<1>5. b \notin Contents(chan[p]) \cup ({x} \ {Flush})
  BY <1>4 DEF Contents
<1>. QED  BY <1>5 DEF FatesAfterOffer

\* A collector changes what it holds, a writer its task.
LEMMA HandHits ==
    ASSUME DOMAIN hand = Collectors, DOMAIN hand' = Collectors, NEW c \in Collectors, NEW S,
           \A k \in Collectors \ {c} : hand'[k] = hand[k]
    PROVE  Hits(hand', S) + One(hand[c], S) = Hits(hand, S) + One(hand'[c], S)
<1>1. IsFiniteSet(Collectors)
  BY PipelineAssumption
<1>. QED  BY <1>1, HitsExcept

\* The same of a writer.
LEMMA BusyHits ==
    ASSUME DOMAIN busy = Writers, DOMAIN busy' = Writers, NEW w \in Writers, NEW S,
           \A k \in Writers \ {w} : busy'[k] = busy[k]
    PROVE  Hits(busy', S) + One(busy[w], S) = Hits(busy, S) + One(busy'[w], S)
<1>1. IsFiniteSet(Writers)
  BY PipelineAssumption
<1>. QED  BY <1>1, HitsExcept

\* Push sources, timers and collectors.
LEMMA OnceSources ==
    ASSUME PipeInv, PipeInv', Numbered, Accounted,
           \/ \E p \in Pipelines : SourceEvent(p) \/ CollectTick(p) \/ InjectFlush(p)
           \/ \E c \in Collectors : Collector(c)
    PROVE  Numbered' /\ Accounted'
<1>. USE PipelineAssumption
<1>0. /\ ChanType /\ BatchType /\ CollectType /\ Counted /\ Counted' /\ Collects
      /\ DOMAIN chan = Pipelines /\ DOMAIN hand = Collectors
      /\ fate \in [Pipelines -> [Batches -> Fates]]
      /\ made \in [Pipelines -> 0..MaxBatches]
  BY TypeParts, CountsTyped, CountsTypedNext
     DEF PipeInv, ChanType, BatchType, CollectType
<1>1. UNCHANGED <<item, agg, outbox, todo, pool, busy, written, late>>
  BY Zenon DEF SourceEvent, CollectTick, InjectFlush, Collector, CollectTake,
         CollectMake, CollectNothing, CollectEnqueue, processVars, sinkVars
<1>2. ASSUME NEW p \in Pipelines, SourceEvent(p) PROVE Numbered' /\ Accounted'
  <2>1. PICK x \in Batches : x = made[p] + 1
    BY <1>0, <1>2 DEF SourceEvent, Batches
  <2>2. /\ hand' = hand /\ made' = [made EXCEPT ![p] = x]
        /\ fate[p][x] = "unmade" /\ x \in 0..MaxBatches
    BY <1>0, <1>2, <2>1 DEF SourceEvent, collectVars, Numbered, Batches
  <2>3. CASE callback[p]
    <3>0. PICK f : f = [fate[p] EXCEPT ![x] = "flight"]
      OBVIOUS
    <3>1. /\ chan' = [chan EXCEPT ![p] = Offered(p, x, DropOldest)]
          /\ fate' = [fate EXCEPT ![p] = FatesAfterOffer(p, x, DropOldest, f)]
      BY <1>2, <2>1, <2>3, <3>0 DEF SourceEvent, Enqueue
    <3>2. \A b \in Batches : f[b] = IF b = x THEN "flight" ELSE fate[p][b]
      BY <1>0, <3>0
    <3>3. ASSUME NEW b \in Batches
          PROVE  Hits(hand', {[p |-> p, b |-> b]}) + One(x, {b})
                         + One(fate[p][b], {"flight"})
                     = Hits(hand, {[p |-> p, b |-> b]}) + One(f[b], {"flight"})
      <4>1. One(x, {b}) + One(fate[p][b], {"flight"}) = One(f[b], {"flight"})
        BY <2>2, <3>2 DEF One
      <4>2. PICK h \in Nat : h = Hits(hand, {[p |-> p, b |-> b]})
        BY <1>0 DEF Counted
      <4>3. PICK i \in 0..1, j \in 0..1, k \in 0..1 :
                /\ i = One(x, {b}) /\ j = One(fate[p][b], {"flight"})
                /\ k = One(f[b], {"flight"})
        BY OneType
      <4>. QED  BY <2>2, <4>1, <4>2, <4>3
    <3>4. Accounted'
      <4>1. DropOldest \in BOOLEAN
        BY Zenon
      <4>2. HandsElsewhere(p) /\ HandsOver(p, x, f)
        BY <2>2, <3>3 DEF HandsElsewhere, HandsOver
      <4>3. x \in 0..MaxBatches
        BY <2>2
      <4>. QED  BY <1>0, <1>1, <3>1, <4>1, <4>2, <4>3, OnceOffer
    <3>5. Numbered'
      <4>. SUFFICES ASSUME NEW q \in Pipelines, NEW b \in Batches, made'[q] < b
                    PROVE  fate'[q][b] = "unmade"
        BY Zenon DEF Numbered
      <4>1. CASE q # p
        BY <1>0, <2>2, <3>1, <4>1 DEF Numbered
      <4>2. CASE q = p
        <5>1. x < b /\ made[p] < b
          BY <1>0, <2>1, <2>2, <4>2 DEF Batches
        <5>2. fate[p][b] = "unmade" /\ x # b
          BY <5>1, <1>0 DEF Numbered, Batches
        <5>3. fate'[p][b] = f[b]
          BY <1>0, <2>2, <3>1, <5>2, OfferKeepsUnmade
        <5>. QED  BY <3>2, <4>2, <5>2, <5>3
      <4>. QED  BY <4>1, <4>2
    <3>. QED  BY <3>4, <3>5
  <2>4. CASE ~callback[p]
    <3>1. fate' = [fate EXCEPT ![p] = [fate[p] EXCEPT ![x] = "early"]] /\ chan' = chan
      BY <1>0, <1>2, <2>1, <2>4 DEF SourceEvent
    <3>2. \A q \in Pipelines, b \in Batches :
              fate'[q][b] = IF q = p /\ b = x THEN "early" ELSE fate[q][b]
      BY <1>0, <3>1
    <3>3. \A q \in Pipelines, b \in Batches :
              /\ One(fate'[q][b], {"flight"}) = One(fate[q][b], {"flight"})
              /\ Upstream(q, b)' = Upstream(q, b)
      BY <1>1, <2>2, <3>1, <3>2 DEF One, Upstream
    <3>4. Accounted'
      BY <1>0, <1>1, <3>3, OnceUpstream
    <3>5. Numbered'
      <4>. SUFFICES ASSUME NEW q \in Pipelines, NEW b \in Batches, made'[q] < b
                    PROVE  fate'[q][b] = "unmade"
        BY Zenon DEF Numbered
      <4>1. made[q] < b /\ ~(q = p /\ b = x)
        BY <1>0, <2>1, <2>2 DEF Batches
      <4>. QED  BY <3>2, <4>1 DEF Numbered
    <3>. QED  BY <3>4, <3>5
  <2>. QED  BY <2>3, <2>4
<1>3. ASSUME NEW p \in Pipelines, CollectTick(p) PROVE Numbered' /\ Accounted'
  BY <1>1, <1>3, OnceQuiet DEF CollectTick, batchVars, Numbered
<1>4. ASSUME NEW p \in Pipelines, InjectFlush(p) PROVE Numbered' /\ Accounted'
  <2>1. /\ chan' = [chan EXCEPT ![p] = Offered(p, Flush, TRUE)]
        /\ fate' = [fate EXCEPT ![p] = FatesAfterOffer(p, Flush, TRUE, fate[p])]
        /\ hand' = hand /\ made' = made
    BY <1>4 DEF InjectFlush, collectVars
  <2>2. Flush \in 0..MaxBatches /\ TRUE \in BOOLEAN /\ Flush \notin Batches
    BY DEF Flush, Batches
  <2>3. ASSUME NEW b \in Batches
        PROVE  Hits(hand', {[p |-> p, b |-> b]}) + One(Flush, {b})
                       + One(fate[p][b], {"flight"})
                   = Hits(hand, {[p |-> p, b |-> b]}) + One(fate[p][b], {"flight"})
    <3>1. One(Flush, {b}) = 0
      BY <2>2 DEF One
    <3>2. PICK h \in Nat, i \in 0..1 : h = Hits(hand, {[p |-> p, b |-> b]})
                                       /\ i = One(fate[p][b], {"flight"})
      BY <1>0, OneType DEF Counted
    <3>. QED  BY <2>1, <3>1, <3>2
  <2>4. Accounted'
    <3>1. HandsElsewhere(p) /\ HandsOver(p, Flush, fate[p])
      BY <2>1, <2>3 DEF HandsElsewhere, HandsOver
    <3>. QED  BY <1>0, <1>1, <2>1, <2>2, <3>1, OnceOffer
  <2>5. Numbered'
    <3>. SUFFICES ASSUME NEW q \in Pipelines, NEW b \in Batches, made'[q] < b
                  PROVE  fate'[q][b] = "unmade"
      BY Zenon DEF Numbered
    <3>1. fate[q][b] = "unmade" /\ Flush # b
      BY <2>1, <2>2 DEF Numbered
    <3>2. CASE q # p
      BY <1>0, <2>1, <3>1, <3>2
    <3>3. CASE q = p
      <4>1. \A e \in BOOLEAN : FatesAfterOffer(p, Flush, e, fate[p])[b] = fate[p][b]
        BY <1>0, <2>2, <3>1, <3>3, OfferKeepsUnmade
      <4>2. FatesAfterOffer(p, Flush, TRUE, fate[p])[b] = fate[p][b]
        BY Zenon, <4>1
      <4>. QED  BY <1>0, <2>1, <3>1, <3>3, <4>2
    <3>. QED  BY <3>2, <3>3
  <2>. QED  BY <2>4, <2>5
<1>5. ASSUME NEW c \in Collectors, CollectTake(c) \/ CollectNothing(c)
      PROVE  Numbered' /\ Accounted'
  <2>1. /\ \E v : v.b = 0 /\ hand' = [hand EXCEPT ![c] = v]
        /\ hand[c].b = 0 /\ UNCHANGED <<chan, made, fate>>
    BY <1>5 DEF CollectTake, CollectNothing, batchVars, Idle
  <2>2. PICK v : v.b = 0 /\ hand' = [hand EXCEPT ![c] = v]
    BY <2>1
  <2>3. ASSUME NEW q \in Pipelines, NEW b \in Batches
        PROVE  Upstream(q, b)' = Upstream(q, b)
    <3>. DEFINE S == {[p |-> q, b |-> b]}
    <3>1. hand[c] \notin S /\ v \notin S
      BY <2>1, <2>2 DEF Batches
    <3>0. /\ DOMAIN hand' = Collectors /\ hand'[c] = v
          /\ \A k \in Collectors \ {c} : hand'[k] = hand[k]
      BY <1>0, <2>2
    <3>2. Hits(hand', S) + One(hand[c], S) = Hits(hand, S) + One(v, S)
      BY <1>0, <3>0, HandHits
    <3>3. One(hand[c], S) = 0 /\ One(v, S) = 0
      BY <3>1 DEF One
    <3>4. Hits(hand', S) \in Nat /\ Hits(hand, S) \in Nat
      BY <1>0 DEF Counted
    <3>5. Hits(hand', S) = Hits(hand, S)
      BY <3>2, <3>3, <3>4
    <3>. QED  BY <1>1, <2>1, <3>5 DEF Upstream
  <2>. QED  BY <1>0, <1>1, <2>1, <2>3, OnceUpstream DEF Numbered
<1>6. ASSUME NEW c \in Collectors, CollectMake(c) PROVE Numbered' /\ Accounted'
  <2>1. PICK p \in Pipelines : p = hand[c].p
    BY <1>0, <1>6 DEF CollectMake, CollectType, Pipelines
  <2>2. PICK x \in Batches : x = made[p] + 1
    BY <1>0, <1>6, <2>1 DEF CollectMake, Batches
  <2>3. /\ hand' = [hand EXCEPT ![c] = [p |-> p, b |-> x]]
        /\ made' = [made EXCEPT ![p] = x] /\ hand[c].b = 0
        /\ fate' = [fate EXCEPT ![p] = [fate[p] EXCEPT ![x] = "flight"]]
        /\ chan' = chan
    <3>1. /\ hand' = [hand EXCEPT ![c] = [hand[c] EXCEPT !.b = x]]
          /\ made' = [made EXCEPT ![p] = made[p] + 1] /\ hand[c].b = 0 /\ chan' = chan
      BY <1>6, <2>1, <2>2 DEF CollectMake
    <3>2. fate' = [fate EXCEPT ![p] = [fate[p] EXCEPT ![x] = "flight"]]
      BY <1>6, <2>1, <2>2 DEF CollectMake
    <3>3. [hand[c] EXCEPT !.b = x] = [p |-> p, b |-> x]
      BY <1>0, <2>1 DEF CollectType
    <3>. QED  BY <2>2, <3>1, <3>2, <3>3
  <2>4. \A q \in Pipelines, b \in Batches :
            fate'[q][b] = IF q = p /\ b = x THEN "flight" ELSE fate[q][b]
    BY <1>0, <2>3
  <2>5. fate[p][x] = "unmade"
    BY <1>0, <2>2 DEF Numbered, Batches
  <2>6. ASSUME NEW q \in Pipelines, NEW b \in Batches
        PROVE  Upstream(q, b)' + One(fate[q][b], {"flight"})
                   = Upstream(q, b) + One(fate'[q][b], {"flight"})
    <3>. DEFINE S == {[p |-> q, b |-> b]}
    <3>1. PICK h \in Nat, h1 \in Nat, k \in Nat :
              h = Hits(hand, S) /\ h1 = Hits(hand', S) /\ k = Hits(chan[q], {b})
      BY <1>0 DEF Counted
    <3>2. PICK i \in 0..1, a \in 0..1, t \in 0..1, u \in 0..1 :
              /\ i = One(item[q], {b}) /\ a = One(b, agg[q])
              /\ t = One(fate[q][b], {"flight"}) /\ u = One(fate'[q][b], {"flight"})
      BY OneType
    <3>0. /\ DOMAIN hand' = Collectors /\ hand'[c] = [p |-> p, b |-> x]
          /\ \A d \in Collectors \ {c} : hand'[d] = hand[d]
      BY <1>0, <2>3
    <3>3. h1 + One(hand[c], S) = h + One([p |-> p, b |-> x], S)
      BY <1>0, <3>0, <3>1, HandHits
    <3>4. hand[c] \notin S
      BY <2>3 DEF Batches
    <3>5. [p |-> p, b |-> x] \in S <=> q = p /\ b = x
      OBVIOUS
    <3>6. One(hand[c], S) = 0
          /\ One([p |-> p, b |-> x], S) = IF q = p /\ b = x THEN 1 ELSE 0
      BY <3>4, <3>5 DEF One
    <3>7. t + (IF q = p /\ b = x THEN 1 ELSE 0) = u
      BY <2>4, <2>5, <3>2 DEF One
    <3>8. h1 + t = h + u
      BY <3>3, <3>6, <3>7
    <3>9. Upstream(q, b) = h + k + i + a /\ Upstream(q, b)' = h1 + k + i + a
      BY <1>1, <2>3, <3>1, <3>2 DEF Upstream
    <3>10. h1 + k + i + a + t = h + k + i + a + u
      BY <3>8
    <3>. QED  BY <3>2, <3>9, <3>10
  <2>7. Numbered'
    <3>. SUFFICES ASSUME NEW q \in Pipelines, NEW b \in Batches, made'[q] < b
                  PROVE  fate'[q][b] = "unmade"
      BY Zenon DEF Numbered
    <3>1. made[q] < b /\ ~(q = p /\ b = x)
      BY <1>0, <2>2, <2>3 DEF Batches
    <3>. QED  BY <2>4, <3>1 DEF Numbered
  <2>. QED  BY <1>0, <1>1, <2>6, <2>7, OnceUpstream
<1>7. ASSUME NEW c \in Collectors, CollectEnqueue(c) PROVE Numbered' /\ Accounted'
  <2>1. PICK p \in Pipelines : p = hand[c].p
    BY <1>0, <1>7 DEF CollectEnqueue, CollectType, Collects, Pipelines
  <2>2. PICK x \in Batches : x = hand[c].b /\ x \in 0..MaxBatches
    BY <1>0, <1>7 DEF CollectEnqueue, CollectType, Batches
  <2>3. /\ hand' = [hand EXCEPT ![c] = Idle] /\ made' = made
        /\ chan' = [chan EXCEPT ![p] = Offered(p, x, DropOldest)]
        /\ fate' = [fate EXCEPT ![p] = FatesAfterOffer(p, x, DropOldest, fate[p])]
    BY <1>7, <2>1, <2>2 DEF CollectEnqueue, Enqueue
  <2>4. hand[c] = [p |-> p, b |-> x]
    BY <1>0, <2>1, <2>2 DEF CollectType
  <2>5. ASSUME NEW q \in Pipelines, NEW b \in Batches
        PROVE  Hits(hand', {[p |-> q, b |-> b]})
                   + (IF q = p /\ b = x THEN 1 ELSE 0) = Hits(hand, {[p |-> q, b |-> b]})
    <3>. DEFINE S == {[p |-> q, b |-> b]}
    <3>0. /\ DOMAIN hand' = Collectors /\ hand'[c] = Idle
          /\ \A k \in Collectors \ {c} : hand'[k] = hand[k]
      BY <1>0, <2>3
    <3>1. Hits(hand', S) + One(hand[c], S) = Hits(hand, S) + One(Idle, S)
      BY <1>0, <3>0, HandHits
    <3>2. Idle \notin S /\ (hand[c] \in S <=> q = p /\ b = x)
      BY <2>4 DEF Idle, Batches
    <3>3. One(Idle, S) = 0 /\ One(hand[c], S) = IF q = p /\ b = x THEN 1 ELSE 0
      BY <3>2 DEF One
    <3>4. Hits(hand, S) \in Nat
      BY <1>0 DEF Counted
    <3>. QED  BY <3>1, <3>3, <3>4
  <2>6. ASSUME NEW q \in Pipelines \ {p}, NEW b \in Batches
        PROVE  Hits(hand', {[p |-> q, b |-> b]}) = Hits(hand, {[p |-> q, b |-> b]})
    <3>1. Hits(hand', {[p |-> q, b |-> b]}) + 0 = Hits(hand, {[p |-> q, b |-> b]})
      BY <2>5
    <3>2. Hits(hand', {[p |-> q, b |-> b]}) \in Nat
      BY <1>0 DEF Counted
    <3>. QED  BY <3>1, <3>2
  <2>7. ASSUME NEW b \in Batches
        PROVE  Hits(hand', {[p |-> p, b |-> b]}) + One(x, {b})
                       + One(fate[p][b], {"flight"})
                   = Hits(hand, {[p |-> p, b |-> b]}) + One(fate[p][b], {"flight"})
    <3>1. Hits(hand', {[p |-> p, b |-> b]}) + One(x, {b})
              = Hits(hand, {[p |-> p, b |-> b]})
      BY <2>5 DEF One
    <3>. QED  BY <3>1
  <2>8. Accounted'
    <3>1. HandsElsewhere(p) /\ HandsOver(p, x, fate[p])
      BY <2>6, <2>7 DEF HandsElsewhere, HandsOver
    <3>. QED  BY <1>0, <1>1, <2>2, <2>3, <3>1, OnceOffer
  <2>9. Numbered'
    <3>. SUFFICES ASSUME NEW q \in Pipelines, NEW b \in Batches, made'[q] < b
                  PROVE  fate'[q][b] = "unmade"
      BY Zenon DEF Numbered
    <3>1. fate[q][b] = "unmade"
      BY <2>3 DEF Numbered
    <3>2. CASE q # p
      BY <1>0, <2>3, <3>1, <3>2
    <3>3. CASE q = p
      <4>1. Hits(hand, {[p |-> p, b |-> b]}) = 0
        BY <1>0, <3>1, <3>3, Nowhere
      <4>2. b # x
        <5>1. Hits(hand', {[p |-> p, b |-> b]}) \in Nat
          BY <1>0 DEF Counted
        <5>. QED  BY <2>5, <4>1, <5>1
      <4>. QED  BY <1>0, <2>2, <2>3, <3>1, <3>3, <4>2, OfferKeepsUnmade
    <3>. QED  BY <3>2, <3>3
  <2>. QED  BY <2>8, <2>9
<1>. QED  BY <1>2, <1>3, <1>4, <1>5, <1>6, <1>7 DEF Collector

\* A step that moves copies from one place to another, or ends them.
LEMMA OnceMove ==
    ASSUME Counted, Counted', Accounted,
           \A q \in Pipelines, s \in Sinks, b \in Batches :
               Upstream(q, b)' + Downstream(q, s, b)' + Given(q, s, b)'
                       + One(fate[q][b], {"flight"})
                   = Upstream(q, b) + Downstream(q, s, b) + Given(q, s, b)
                       + One(fate'[q][b], {"flight"})
    PROVE  Accounted'
<1>. SUFFICES ASSUME NEW q \in Pipelines, NEW s \in Sinks, NEW b \in Batches
              PROVE  Upstream(q, b)' + Downstream(q, s, b)' + Given(q, s, b)'
                         = One(fate'[q][b], {"flight"})
  BY Zenon DEF Accounted
<1>0. PICK u \in Nat, d \in Nat, g \in Nat, u1 \in Nat, d1 \in Nat, g1 \in Nat :
          /\ u = Upstream(q, b) /\ d = Downstream(q, s, b) /\ g = Given(q, s, b)
          /\ u1 = Upstream(q, b)' /\ d1 = Downstream(q, s, b)' /\ g1 = Given(q, s, b)'
  BY DEF Counted
<1>1. PICK x \in Nat, y \in Nat :
          /\ x = Upstream(q, b) + Downstream(q, s, b) + Given(q, s, b)
          /\ y = Upstream(q, b)' + Downstream(q, s, b)' + Given(q, s, b)'
  <2>1. u + d + g \in Nat /\ u1 + d1 + g1 \in Nat
    OBVIOUS
  <2>. QED  BY <1>0, <2>1
<1>2. PICK e \in 0..1, f \in 0..1 :
          e = One(fate[q][b], {"flight"}) /\ f = One(fate'[q][b], {"flight"})
  BY OneType
<1>3. x = e
  BY <1>1, <1>2 DEF Accounted
<1>4. y + e = x + f
  BY <1>1, <1>2
<1>5. y = f
  BY <1>3, <1>4
<1>. QED  BY <1>1, <1>2, <1>5

\* Only a batch in flight changes its fate once it is made.
LEMMA NumberedKept ==
    ASSUME Numbered, made' = made,
           \A q \in Pipelines, b \in Batches :
               fate'[q][b] = fate[q][b] \/ fate[q][b] = "flight"
    PROVE  Numbered'
  BY DEF Numbered

\* What a flush hands to SubmitToSinks.
LEMMA BatchedHits ==
    ASSUME NEW X \in SUBSET Batches, NEW Y \in SUBSET Batches, NEW b \in Batches
    PROVE  Hits(Batched(X) \o Batched(Y), Holding(b)) = One(b, X) + One(b, Y)
<1>1. ASSUME NEW Z \in SUBSET Batches
      PROVE  One(Z, Holding(b)) = One(b, Z) /\ One(b, {}) = 0
  BY DEF One, Holding
<1>2. ASSUME NEW Z \in SUBSET Batches
      PROVE  Hits(<<Z>>, Holding(b)) = One(b, Z)
  <2>1. <<Z>> = Append(<<>>, Z) /\ <<>> \in Seq(SUBSET Batches)
    OBVIOUS
  <2>2. Hits(Append(<<>>, Z), Holding(b)) = Hits(<<>>, Holding(b)) + One(Z, Holding(b))
    BY <2>1, HitsAppend
  <2>3. PICK i \in 0..1 : i = One(b, Z)
    BY OneType
  <2>. QED  BY <1>1, <2>1, <2>2, <2>3, HitsEmpty
<1>3. PICK i \in 0..1, j \in 0..1 : i = One(b, X) /\ j = One(b, Y)
  BY OneType
<1>4. CASE X = {} /\ Y = {}
  <2>1. Batched(X) \o Batched(Y) = <<>>
    BY <1>4 DEF Batched
  <2>2. i = 0 /\ j = 0
    BY <1>3, <1>4 DEF One
  <2>. QED  BY <1>3, <2>1, <2>2, HitsEmpty
<1>5. CASE X = {} /\ Y # {}
  <2>1. Batched(X) \o Batched(Y) = <<Y>>
    BY <1>5 DEF Batched
  <2>2. i = 0 /\ Hits(<<Y>>, Holding(b)) = j
    BY <1>2, <1>3, <1>5 DEF One
  <2>. QED  BY <1>3, <2>1, <2>2
<1>6. CASE X # {} /\ Y = {}
  <2>1. Batched(X) \o Batched(Y) = <<X>>
    BY <1>6 DEF Batched
  <2>2. j = 0 /\ Hits(<<X>>, Holding(b)) = i
    BY <1>2, <1>3, <1>6 DEF One
  <2>. QED  BY <1>3, <2>1, <2>2
<1>7. CASE X # {} /\ Y # {}
  <2>1. Batched(X) \o Batched(Y) = Append(<<X>>, Y) /\ <<X>> \in Seq(SUBSET Batches)
    BY <1>7 DEF Batched
  <2>2. Hits(Append(<<X>>, Y), Holding(b)) = Hits(<<X>>, Holding(b)) + One(Y, Holding(b))
    BY <2>1, HitsAppend
  <2>. QED  BY <1>1, <1>2, <2>1, <2>2
<1>. QED  BY <1>4, <1>5, <1>6, <1>7

\* The process thread up to SubmitToSinks.
LEMMA OnceHandles ==
    ASSUME PipeInv, PipeInv', Numbered, Accounted, NEW p \in Pipelines,
           \/ ProcessDequeue(p) \/ HandleDataEnds(p) \/ HandleData(p) \/ HandleFlush(p)
    PROVE  Numbered' /\ Accounted'
<1>. USE PipelineAssumption
<1>0. /\ Counted /\ Counted' /\ Locals /\ Locals'
      /\ item \in [Pipelines -> 0..MaxBatches] /\ todo \in [Pipelines -> Sinks]
      /\ agg \in [Pipelines -> SUBSET Batches]
      /\ outbox \in [Pipelines -> Seq(SUBSET Batches)]
      /\ chan \in [Pipelines -> Seq(0..MaxBatches)]
      /\ ppc \in [Pipelines -> PPC]
      /\ fate \in [Pipelines -> [Batches -> Fates]]
  BY TypeParts, CountsTyped, CountsTypedNext
     DEF PipeInv, ChanType, BatchType, LocalType, PcType
<1>1. UNCHANGED <<hand, todo, pool, busy, written, late, made>>
  BY Zenon DEF ProcessDequeue, HandleDataEnds, HandleData, HandleFlush,
               collectVars, sinkVars, batchVars
<1>2. CASE ProcessDequeue(p)
  <2>1. /\ chan[p] # <<>> /\ ppc[p] \in {"wait", "drain"}
        /\ chan' = [chan EXCEPT ![p] = Tail(chan[p])]
        /\ \/ Head(chan[p]) = Flush /\ item' = item
           \/ item' = [item EXCEPT ![p] = Head(chan[p])]
        /\ UNCHANGED <<agg, outbox, fate>>
    BY <1>2 DEF ProcessDequeue, batchVars
  <2>2. item[p] = 0
    BY <1>0, <2>1 DEF Locals
  <2>3. ASSUME NEW q \in Pipelines, NEW b \in Batches
        PROVE  Upstream(q, b)' = Upstream(q, b)
    <3>1. CASE q # p
      <4>1. chan'[q] = chan[q] /\ item'[q] = item[q]
        BY <1>0, <2>1, <3>1
      <4>. QED  BY <1>1, <2>1, <4>1 DEF Upstream
    <3>2. CASE q = p
      <4>1. PICK h \in Nat, c \in Nat, c1 \in Nat :
                /\ h = Hits(hand, {[p |-> p, b |-> b]})
                /\ c = Hits(chan[p], {b}) /\ c1 = Hits(chan'[p], {b})
        BY <1>0 DEF Counted
      <4>2. PICK e \in 0..1, a \in 0..1 : e = One(Head(chan[p]), {b}) /\ a = One(b, agg[p])
        BY OneType
      <4>3. chan[p] \in Seq(0..MaxBatches) /\ chan'[p] = Tail(chan[p])
        BY <1>0, <2>1
      <4>4. Hits(Tail(chan[p]), {b}) + One(Head(chan[p]), {b}) = Hits(chan[p], {b})
        BY <2>1, <4>3, HitsTail
      <4>5. c1 + e = c
        BY <4>1, <4>2, <4>3, <4>4
      <4>6. One(item[p], {b}) = 0 /\ One(item'[p], {b}) = e
        BY <1>0, <2>1, <2>2, <4>2 DEF One, Batches, Flush
      <4>7. Upstream(p, b) = h + c + 0 + a /\ Upstream(p, b)' = h + c1 + e + a
        BY <1>1, <2>1, <4>1, <4>2, <4>6 DEF Upstream
      <4>. QED  BY <3>2, <4>5, <4>7
    <3>. QED  BY <3>1, <3>2
  <2>. QED  BY <1>0, <1>1, <2>1, <2>3, OnceUpstream DEF Numbered
<1>3. CASE HandleDataEnds(p)
  <2>1. PICK x \in Batches : x = item[p]
    BY <1>0, <1>3 DEF HandleDataEnds, Locals, Batches
  <2>2. PICK f \in {"error", "filtered"} :
            fate' = [fate EXCEPT ![p] = [fate[p] EXCEPT ![x] = f]]
    BY <1>0, <1>3, <2>1 DEF HandleDataEnds
  <2>3. item' = [item EXCEPT ![p] = 0] /\ UNCHANGED <<chan, agg, outbox>>
    BY <1>3 DEF HandleDataEnds
  <2>4. \A q \in Pipelines, b \in Batches :
            fate'[q][b] = IF q = p /\ b = x THEN f ELSE fate[q][b]
    BY <1>0, <2>2
  <2>5. fate[p][x] = "flight"
    <3>1. PICK h \in Nat, c \in Nat, a \in 0..1 :
              /\ h = Hits(hand, {[p |-> p, b |-> x]}) /\ c = Hits(chan[p], {x})
              /\ a = One(x, agg[p])
      BY <1>0, OneType DEF Counted
    <3>2. Upstream(p, x) = h + c + 1 + a
      BY <2>1, <3>1 DEF Upstream, One
    <3>3. Upstream(p, x) # 0
      BY <3>2
    <3>. QED  BY <1>0, <3>3, Nowhere
  <2>6. ASSUME NEW q \in Pipelines, NEW b \in Batches
        PROVE  Upstream(q, b)' + One(fate[q][b], {"flight"})
                   = Upstream(q, b) + One(fate'[q][b], {"flight"})
    <3>1. PICK h \in Nat, c \in Nat, a \in 0..1 :
              /\ h = Hits(hand, {[p |-> q, b |-> b]}) /\ c = Hits(chan[q], {b})
              /\ a = One(b, agg[q])
      BY <1>0, OneType DEF Counted
    <3>2. PICK i \in 0..1, j \in 0..1, t \in 0..1, u \in 0..1 :
              /\ i = One(item[q], {b}) /\ j = One(item'[q], {b})
              /\ t = One(fate[q][b], {"flight"}) /\ u = One(fate'[q][b], {"flight"})
      BY OneType
    <3>3. Upstream(q, b) = h + c + i + a /\ Upstream(q, b)' = h + c + j + a
      BY <1>1, <2>3, <3>1, <3>2 DEF Upstream
    <3>4. j + t = i + u
      <4>1. CASE q = p /\ b = x
        BY <1>0, <2>1, <2>3, <2>4, <2>5, <3>2, <4>1 DEF One, Batches
      <4>2. CASE q = p /\ b # x
        BY <1>0, <2>1, <2>3, <2>4, <3>2, <4>2 DEF One, Batches
      <4>3. CASE q # p
        BY <1>0, <2>3, <2>4, <3>2, <4>3
      <4>. QED  BY <4>1, <4>2, <4>3
    <3>5. h + c + j + a + t = h + c + i + a + u
      BY <3>4
    <3>. QED  BY <3>2, <3>3, <3>5
  <2>7. Accounted'
    BY <1>0, <1>1, <2>3, <2>6, OnceUpstream
  <2>. QED  BY <1>1, <2>4, <2>5, <2>7, NumberedKept
<1>4. CASE HandleData(p) /\ p \in Agg
  <2>1. PICK x \in Batches : x = item[p]
    BY <1>0, <1>4 DEF HandleData, Locals, Batches
  <2>2. /\ item' = [item EXCEPT ![p] = 0] /\ agg' = [agg EXCEPT ![p] = agg[p] \cup {x}]
        /\ UNCHANGED <<chan, outbox, fate>>
    BY <1>4, <2>1 DEF HandleData, batchVars
  <2>3. x \notin agg[p]
    <3>1. PICK h \in Nat, c \in Nat, a \in 0..1 :
              /\ h = Hits(hand, {[p |-> p, b |-> x]}) /\ c = Hits(chan[p], {x})
              /\ a = One(x, agg[p])
      BY <1>0, OneType DEF Counted
    <3>2. Upstream(p, x) = h + c + 1 + a
      BY <2>1, <3>1 DEF Upstream, One
    <3>3. PICK s \in Sinks : TRUE
      BY DEF Sinks
    <3>4. Upstream(p, x) \in 0..1
      BY <1>0, OnePlace
    <3>5. a = 0
      BY <3>2, <3>4
    <3>. QED  BY <3>1, <3>5 DEF One
  <2>4. ASSUME NEW q \in Pipelines, NEW b \in Batches
        PROVE  Upstream(q, b)' = Upstream(q, b)
    <3>1. PICK h \in Nat, c \in Nat :
              h = Hits(hand, {[p |-> q, b |-> b]}) /\ c = Hits(chan[q], {b})
      BY <1>0 DEF Counted
    <3>2. PICK i \in 0..1, j \in 0..1, a \in 0..1, d \in 0..1 :
              /\ i = One(item[q], {b}) /\ j = One(item'[q], {b})
              /\ a = One(b, agg[q]) /\ d = One(b, agg'[q])
      BY OneType
    <3>3. Upstream(q, b) = h + c + i + a /\ Upstream(q, b)' = h + c + j + d
      BY <1>1, <2>2, <3>1, <3>2 DEF Upstream
    <3>4. i + a = j + d
      <4>1. CASE q = p
        <5>1. item'[p] = 0 /\ agg'[p] = agg[p] \cup {x} /\ b # 0
          BY <1>0, <2>2 DEF Batches
        <5>. QED  BY <2>1, <2>3, <3>2, <4>1, <5>1 DEF One
      <4>2. CASE q # p
        BY <1>0, <2>2, <3>2, <4>2
      <4>. QED  BY <4>1, <4>2
    <3>. QED  BY <3>3, <3>4
  <2>. QED  BY <1>0, <1>1, <2>2, <2>4, OnceUpstream DEF Numbered
<1>5. ASSUME NEW r, outbox[p] = <<>>, todo[p] = 1, outbox' = [outbox EXCEPT ![p] = r],
             UNCHANGED <<chan, fate>>,
             \A q \in Pipelines \ {p} : item'[q] = item[q] /\ agg'[q] = agg[q],
             \A b \in Batches : Hits(r, Holding(b)) + One(item'[p], {b}) + One(b, agg'[p])
                                    = One(item[p], {b}) + One(b, agg[p])
      PROVE  Numbered' /\ Accounted'
  <2>1. outbox'[p] = r /\ todo' = todo
    BY <1>0, <1>1, <1>5
  <2>2. ASSUME NEW q \in Pipelines, NEW s \in Sinks, NEW b \in Batches
        PROVE  Upstream(q, b)' + Downstream(q, s, b)' + Given(q, s, b)'
                       + One(fate[q][b], {"flight"})
                   = Upstream(q, b) + Downstream(q, s, b) + Given(q, s, b)
                       + One(fate'[q][b], {"flight"})
    <3>0. Given(q, s, b)' = Given(q, s, b)
      BY <1>1 DEF Given
    <3>1. CASE q # p
      <4>1. outbox'[q] = outbox[q] /\ item'[q] = item[q] /\ agg'[q] = agg[q]
        BY <1>0, <1>5, <3>1
      <4>2. Upstream(q, b)' = Upstream(q, b) /\ Downstream(q, s, b)' = Downstream(q, s, b)
        BY <1>1, <1>5, <4>1 DEF Upstream, Downstream
      <4>. QED  BY <1>5, <3>0, <4>2
    <3>2. CASE q = p
      <4>1. PICK h \in Nat, c \in Nat, m \in Nat, y \in Nat, o \in Nat :
                /\ h = Hits(hand, {[p |-> p, b |-> b]}) /\ c = Hits(chan[p], {b})
                /\ m = Hits(pool, TasksWith(p, s, b)) /\ y = Hits(busy, TasksWith(p, s, b))
                /\ o = Hits(r, Holding(b))
        BY <1>0, <2>1 DEF Counted
      <4>2. PICK i \in 0..1, j \in 0..1, a \in 0..1, d \in 0..1 :
                /\ i = One(item[p], {b}) /\ j = One(item'[p], {b})
                /\ a = One(b, agg[p]) /\ d = One(b, agg'[p])
        BY OneType
      <4>3. o + j + d = i + a
        BY <1>5, <4>1, <4>2
      <4>4. Upstream(p, b) = h + c + i + a /\ Upstream(p, b)' = h + c + j + d
        BY <1>1, <1>5, <4>1, <4>2 DEF Upstream
      <4>5. ~(s < todo[p])
        BY <1>5 DEF Sinks
      <4>6. Unsent(outbox[p], todo[p], s, b) = 0 - 0 /\ Unsent(r, todo[p], s, b) = o - 0
        BY <1>5, <4>1, <4>5, HitsEmpty DEF Unsent
      <4>7. Downstream(p, s, b) = 0 + m + y /\ Downstream(p, s, b)' = o + m + y
        BY <1>1, <2>1, <4>1, <4>6 DEF Downstream
      <4>8. Upstream(p, b)' + Downstream(p, s, b)' = Upstream(p, b) + Downstream(p, s, b)
        BY <4>3, <4>4, <4>7
      <4>. QED  BY <1>5, <3>0, <3>2, <4>8
    <3>. QED  BY <3>1, <3>2
  <2>3. Accounted'
    BY <1>0, <2>2, OnceMove
  <2>. QED  BY <1>1, <1>5, <2>3 DEF Numbered
<1>6. CASE HandleData(p) /\ p \notin Agg
  <2>1. PICK x \in Batches : x = item[p] /\ ppc[p] = "data"
    BY <1>0, <1>6 DEF HandleData, Locals, Batches
  <2>2. /\ item' = [item EXCEPT ![p] = 0] /\ outbox' = [outbox EXCEPT ![p] = <<{x}>>]
        /\ UNCHANGED <<chan, agg, fate>>
    BY <1>6, <2>1 DEF HandleData, batchVars
  <2>3. outbox[p] = <<>> /\ todo[p] = 1
    BY <1>0, <2>1 DEF Locals
  <2>4. ASSUME NEW b \in Batches
        PROVE  Hits(<<{x}>>, Holding(b)) + One(item'[p], {b}) + One(b, agg'[p])
                   = One(item[p], {b}) + One(b, agg[p])
    <3>1. {x} \in SUBSET Batches /\ {} \in SUBSET Batches
      OBVIOUS
    <3>2. <<{x}>> = Batched({x}) \o Batched({})
      BY DEF Batched
    <3>3. Hits(<<{x}>>, Holding(b)) = One(b, {x}) + One(b, {})
      BY <3>1, <3>2, BatchedHits
    <3>4. /\ One(b, {x}) = One(item[p], {b}) /\ One(b, {}) = 0
          /\ One(item'[p], {b}) = 0
      BY <1>0, <2>1, <2>2 DEF One, Batches
    <3>5. PICK i \in 0..1, a \in 0..1 : i = One(item[p], {b}) /\ a = One(b, agg[p])
      BY OneType
    <3>. QED  BY <2>2, <3>3, <3>4, <3>5
  <2>5. \A q \in Pipelines \ {p} : item'[q] = item[q] /\ agg'[q] = agg[q]
    BY <1>0, <2>2
  <2>. QED  BY <1>5, <1>6, <2>2, <2>3, <2>4, <2>5
<1>7. CASE HandleFlush(p)
  <2>1. PICK rec \in SUBSET agg[p] :
            outbox' = [outbox EXCEPT ![p] = Batched(rec) \o Batched(agg[p] \ rec)]
    BY <1>7 DEF HandleFlush
  <2>2. /\ agg' = [agg EXCEPT ![p] = {}] /\ ppc[p] = "flush"
        /\ UNCHANGED <<chan, item, fate>>
    BY <1>7 DEF HandleFlush, batchVars
  <2>3. outbox[p] = <<>> /\ todo[p] = 1
    BY <1>0, <2>2 DEF Locals
  <2>4. PICK r : r = Batched(rec) \o Batched(agg[p] \ rec)
    OBVIOUS
  <2>5. ASSUME NEW b \in Batches
        PROVE  Hits(r, Holding(b)) + One(item'[p], {b}) + One(b, agg'[p])
                   = One(item[p], {b}) + One(b, agg[p])
    <3>1. rec \in SUBSET Batches /\ agg[p] \ rec \in SUBSET Batches
      BY <1>0
    <3>2. Hits(r, Holding(b)) = One(b, rec) + One(b, agg[p] \ rec)
      BY <2>4, <3>1, BatchedHits
    <3>3. One(b, rec) + One(b, agg[p] \ rec) = One(b, agg[p])
      BY DEF One
    <3>4. One(b, agg'[p]) = 0
      BY <1>0, <2>2 DEF One
    <3>5. PICK i \in 0..1, a \in 0..1 : i = One(item[p], {b}) /\ a = One(b, agg[p])
      BY OneType
    <3>. QED  BY <2>2, <3>2, <3>3, <3>4, <3>5
  <2>6. \A q \in Pipelines \ {p} : item'[q] = item[q] /\ agg'[q] = agg[q]
    BY <1>0, <2>2
  <2>7. outbox' = [outbox EXCEPT ![p] = r]
    BY <2>1, <2>4
  <2>. QED  BY <1>5, <2>2, <2>3, <2>5, <2>6, <2>7
<1>. QED  BY <1>2, <1>3, <1>4, <1>6, <1>7

\* The rest of the process thread: SubmitToSinks and the loop.
LEMMA OnceSubmits ==
    ASSUME PipeInv, PipeInv', Numbered, Accounted, NEW p \in Pipelines,
           \/ ProcessCheck(p) \/ ProcessTimeout(p) \/ ProcessDrained(p)
           \/ SubmitCheck(p) \/ SubmitSink(p) \/ SubmitDone(p)
    PROVE  Numbered' /\ Accounted'
<1>. USE PipelineAssumption
<1>0. /\ Counted /\ Counted' /\ Locals /\ Locals'
      /\ todo \in [Pipelines -> Sinks]
      /\ outbox \in [Pipelines -> Seq(SUBSET Batches)]
      /\ pool \in Seq(Task)
      /\ fate \in [Pipelines -> [Batches -> Fates]]
  BY TypeParts, CountsTyped, CountsTypedNext
     DEF PipeInv, BatchType, LocalType, PoolType
<1>1. UNCHANGED <<hand, chan, item, agg, busy, written, late, made>>
  BY Zenon DEF ProcessCheck, ProcessTimeout, ProcessDrained, SubmitCheck,
               SubmitSink, SubmitDone, collectVars, sinkVars, batchVars
<1>2. \A q \in Pipelines, s \in Sinks, b \in Batches :
          Upstream(q, b)' = Upstream(q, b) /\ Given(q, s, b)' = Given(q, s, b)
  BY <1>1 DEF Upstream, Given
<1>3. CASE UNCHANGED <<outbox, todo, pool, fate>>
  BY <1>1, <1>3, OnceQuiet DEF Numbered
<1>4. CASE SubmitCheck(p) /\ Len(pool) > MaxPending
  <2>1. /\ ppc[p] = "submit" /\ outbox[p] # <<>>
        /\ outbox' = [outbox EXCEPT ![p] = Tail(outbox[p])]
        /\ fate' = [fate EXCEPT ![p] = [b \in Batches |->
               IF b \in Head(outbox[p]) THEN "shed" ELSE fate[p][b]]]
        /\ UNCHANGED <<todo, pool>>
    BY <1>4 DEF SubmitCheck, sinkVars
  <2>2. todo[p] = 1 /\ outbox[p] \in Seq(SUBSET Batches) /\ outbox'[p] = Tail(outbox[p])
        /\ Head(outbox[p]) \in SUBSET Batches
    BY <1>0, <2>1, HeadTailProperties DEF Locals
  <2>3. \A q \in Pipelines, b \in Batches :
            fate'[q][b] = IF q = p /\ b \in Head(outbox[p]) THEN "shed" ELSE fate[q][b]
    BY <1>0, <2>1
  <2>4. ASSUME NEW s \in Sinks, NEW b \in Batches
        PROVE  /\ Downstream(p, s, b)' + One(b, Head(outbox[p])) = Downstream(p, s, b)
               /\ b \in Head(outbox[p]) => fate[p][b] = "flight"
    <3>1. PICK o \in Nat, o1 \in Nat, m \in Nat, y \in Nat :
              /\ o = Hits(outbox[p], Holding(b)) /\ o1 = Hits(outbox'[p], Holding(b))
              /\ m = Hits(pool, TasksWith(p, s, b)) /\ y = Hits(busy, TasksWith(p, s, b))
      BY <1>0 DEF Counted
    <3>2. ~(s < todo[p]) /\ todo' = todo
      BY <2>1, <2>2 DEF Sinks
    <3>3. Downstream(p, s, b) = (o - 0) + m + y /\ Downstream(p, s, b)' = (o1 - 0) + m + y
      BY <1>1, <2>1, <3>1, <3>2 DEF Downstream, Unsent
    <3>4. PICK d \in 0..1 : d = One(b, Head(outbox[p]))
      BY OneType
    <3>5. One(Head(outbox[p]), Holding(b)) = d
      BY <2>2, <3>4 DEF One, Holding
    <3>6. Hits(Tail(outbox[p]), Holding(b)) + One(Head(outbox[p]), Holding(b))
              = Hits(outbox[p], Holding(b))
      BY <2>1, <2>2, HitsTail
    <3>7. o1 + d = o
      BY <2>2, <3>1, <3>5, <3>6
    <3>8. Downstream(p, s, b)' + d = Downstream(p, s, b) /\ Downstream(p, s, b) >= d
      BY <3>3, <3>7
    <3>9. b \in Head(outbox[p]) => fate[p][b] = "flight"
      <4>1. PICK u \in 0..1, e \in 0..1, g \in 0..1, f \in 0..1 :
                /\ u = Upstream(p, b) /\ e = Downstream(p, s, b) /\ g = Given(p, s, b)
                /\ f = One(fate[p][b], {"flight"})
        BY <1>0, OnePlace
      <4>2. u + e + g = f
        BY <4>1 DEF Accounted
      <4>3. b \in Head(outbox[p]) => e >= 1
        BY <3>4, <3>8, <4>1 DEF One
      <4>4. b \in Head(outbox[p]) => f = 1
        BY <4>2, <4>3
      <4>. QED  BY <4>1, <4>4 DEF One
    <3>. QED  BY <3>4, <3>8, <3>9
  <2>5. ASSUME NEW q \in Pipelines, NEW s \in Sinks, NEW b \in Batches
        PROVE  Upstream(q, b)' + Downstream(q, s, b)' + Given(q, s, b)'
                       + One(fate[q][b], {"flight"})
                   = Upstream(q, b) + Downstream(q, s, b) + Given(q, s, b)
                       + One(fate'[q][b], {"flight"})
    <3>1. CASE q # p
      <4>1. outbox'[q] = outbox[q] /\ fate'[q][b] = fate[q][b]
        BY <1>0, <2>1, <2>3, <3>1
      <4>2. Downstream(q, s, b)' = Downstream(q, s, b)
        BY <1>1, <2>1, <4>1 DEF Downstream
      <4>. QED  BY <1>2, <4>1, <4>2
    <3>2. CASE q = p
      <4>1. PICK u \in Nat, e \in Nat, e1 \in Nat, g \in Nat :
                /\ u = Upstream(p, b) /\ e = Downstream(p, s, b)
                /\ e1 = Downstream(p, s, b)' /\ g = Given(p, s, b)
        BY <1>0 DEF Counted
      <4>2. PICK d \in 0..1, t \in 0..1, v \in 0..1 :
                /\ d = One(b, Head(outbox[p])) /\ t = One(fate[p][b], {"flight"})
                /\ v = One(fate'[p][b], {"flight"})
        BY OneType
      <4>3. e1 + d = e
        BY <2>4, <4>1, <4>2
      <4>4. v + d = t
        BY <2>3, <2>4, <4>2 DEF One
      <4>5. u + e1 + g + t = u + e + g + v
        BY <4>3, <4>4
      <4>. QED  BY <1>2, <3>2, <4>1, <4>2, <4>5
    <3>. QED  BY <3>1, <3>2
  <2>6. Accounted'
    BY <1>0, <2>5, OnceMove
  <2>7. \A b \in Batches : b \in Head(outbox[p]) => fate[p][b] = "flight"
    <3>1. PICK s \in Sinks : TRUE
      BY DEF Sinks
    <3>. QED  BY <2>4
  <2>. QED  BY <1>1, <2>3, <2>6, <2>7, NumberedKept
<1>5. CASE SubmitSink(p)
  <2>. DEFINE x == [p |-> p, s |-> todo[p], b |-> Head(outbox[p])]
  <2>1. /\ ppc[p] = "push" /\ pool' = Append(pool, x) /\ UNCHANGED fate
        /\ \/ /\ todo[p] < NumSinks /\ todo' = [todo EXCEPT ![p] = todo[p] + 1]
              /\ outbox' = outbox
           \/ /\ ~(todo[p] < NumSinks) /\ todo' = [todo EXCEPT ![p] = 1]
              /\ outbox' = [outbox EXCEPT ![p] = Tail(outbox[p])]
    BY <1>5 DEF SubmitSink, batchVars
  <2>2. outbox[p] # <<>> /\ outbox[p] \in Seq(SUBSET Batches) /\ todo[p] \in Sinks
        /\ Head(outbox[p]) \in SUBSET Batches
    BY <1>0, <2>1, HeadTailProperties DEF Locals
  <2>3. x \in Task
    BY <2>2 DEF Task
  <2>4. ASSUME NEW q \in Pipelines, NEW s \in Sinks, NEW b \in Batches
        PROVE  Downstream(q, s, b)' = Downstream(q, s, b)
    <3>1. PICK m \in Nat, m1 \in Nat, y \in Nat, o \in Nat, o1 \in Nat :
              /\ m = Hits(pool, TasksWith(q, s, b)) /\ m1 = Hits(pool', TasksWith(q, s, b))
              /\ y = Hits(busy, TasksWith(q, s, b))
              /\ o = Unsent(outbox[q], todo[q], s, b)
              /\ o1 = Unsent(outbox'[q], todo'[q], s, b)
      BY <1>0 DEF Counted
    <3>2. Downstream(q, s, b) = o + m + y /\ Downstream(q, s, b)' = o1 + m1 + y
      BY <1>1, <3>1 DEF Downstream
    <3>3. m1 = m + One(x, TasksWith(q, s, b))
      <4>1. Hits(Append(pool, x), TasksWith(q, s, b))
                = Hits(pool, TasksWith(q, s, b)) + One(x, TasksWith(q, s, b))
        BY <1>0, <2>3, HitsAppend
      <4>. QED  BY <2>1, <3>1, <4>1
    <3>4. x \in TasksWith(q, s, b) <=> q = p /\ s = todo[p] /\ b \in Head(outbox[p])
      BY <2>2 DEF TasksWith, Pipelines, Sinks
    <3>. HIDE DEF x
    <3>5. CASE q # p
      <4>1. outbox'[q] = outbox[q] /\ todo'[q] = todo[q]
        BY <1>0, <2>1, <3>5
      <4>2. One(x, TasksWith(q, s, b)) = 0
        BY <3>4, <3>5 DEF One
      <4>. QED  BY <3>1, <3>2, <3>3, <4>1, <4>2
    <3>6. CASE q = p
      <4>1. PICK d \in 0..1 : d = One(Head(outbox[p]), Holding(b))
        BY OneType
      <4>2. One(x, TasksWith(p, s, b)) = IF s = todo[p] THEN d ELSE 0
        BY <2>2, <3>4, <3>6, <4>1 DEF One, Holding
      <4>3. PICK k \in Nat : k = Hits(outbox[p], Holding(b))
        BY <1>0 DEF Counted
      <4>4. o = k - (IF s < todo[p] THEN d ELSE 0)
        BY <3>1, <3>6, <4>1, <4>3 DEF Unsent
      <4>5. s \in Int /\ todo[p] \in Int /\ 1 <= s /\ s <= NumSinks /\ todo[p] <= NumSinks
        BY <2>2 DEF Sinks
      <4>6. o1 = k - (IF s < todo[p] + 1 THEN d ELSE 0)
        <5>1. CASE todo[p] < NumSinks
          <6>1. outbox' = outbox /\ todo'[p] = todo[p] + 1
            BY <1>0, <2>1, <5>1
          <6>. QED  BY <3>1, <3>6, <4>1, <4>3, <6>1 DEF Unsent
        <5>2. CASE ~(todo[p] < NumSinks)
          <6>1. outbox'[p] = Tail(outbox[p]) /\ todo'[p] = 1
            BY <1>0, <2>1, <5>2
          <6>2. ~(s < 1) /\ s < todo[p] + 1
            BY <4>5, <5>2
          <6>3. Hits(Tail(outbox[p]), Holding(b)) + One(Head(outbox[p]), Holding(b))
                    = Hits(outbox[p], Holding(b))
            BY <2>2, HitsTail
          <6>4. Hits(outbox'[p], Holding(b)) \in Nat
            BY <1>0 DEF Counted
          <6>5. o1 = Hits(Tail(outbox[p]), Holding(b)) - 0
            BY <3>1, <3>6, <6>1, <6>2 DEF Unsent
          <6>6. o1 + d = k
            BY <4>1, <4>3, <6>1, <6>3, <6>4, <6>5
          <6>. QED  BY <6>2, <6>6
        <5>. QED  BY <5>1, <5>2
      <4>7. o1 + m1 = o + m
        BY <3>3, <3>6, <4>2, <4>4, <4>5, <4>6
      <4>. QED  BY <3>2, <3>6, <4>7
    <3>. QED  BY <3>5, <3>6
  <2>5. Accounted'
    BY <1>0, <1>2, <2>1, <2>4, OnceMove
  <2>. QED  BY <1>1, <2>1, <2>5 DEF Numbered
<1>6. \/ UNCHANGED <<outbox, todo, pool, fate>>
      \/ SubmitCheck(p) /\ Len(pool) > MaxPending
      \/ SubmitSink(p)
  BY Zenon DEF ProcessCheck, ProcessTimeout, ProcessDrained, SubmitCheck,
               SubmitDone, sinkVars, batchVars
<1>. QED  BY <1>3, <1>4, <1>5, <1>6

\* The writers of the SinkPool.
LEMMA OnceWriters ==
    ASSUME PipeInv, PipeInv', Numbered, Accounted, NEW w \in Writers, Writer(w)
    PROVE  Numbered' /\ Accounted'
<1>. USE PipelineAssumption
<1>0. /\ Counted /\ Counted' /\ Tasks
      /\ pool \in Seq(Task)
      /\ busy \in [Writers -> [p : 0..N, s : 0..NumSinks, b : SUBSET Batches]]
      /\ DOMAIN busy = Writers
      /\ written \in [Pipelines -> [Sinks -> SUBSET Batches]]
      /\ late \in [Pipelines -> [Sinks -> SUBSET Batches]]
  BY TypeParts, CountsTyped, CountsTypedNext DEF PipeInv, PoolType, SinkType
<1>1. /\ UNCHANGED <<hand, chan, item, agg, outbox, todo, made, fate>>
      /\ \E v : busy' = [busy EXCEPT ![w] = v]
  BY Zenon DEF Writer, WriterTake, WriterWrite, collectVars, processVars, batchVars
<1>2. \A q \in Pipelines, b \in Batches : Upstream(q, b)' = Upstream(q, b)
  BY <1>1 DEF Upstream
<1>3. Numbered'
  BY <1>1 DEF Numbered
<1>4. DOMAIN busy' = Writers /\ \A k \in Writers \ {w} : busy'[k] = busy[k]
  BY <1>0, <1>1
<1>5. ASSUME NEW S PROVE Hits(busy', S) + One(busy[w], S) = Hits(busy, S) + One(busy'[w], S)
  BY <1>0, <1>4, BusyHits
<1>6. \A q \in Pipelines, s \in Sinks, b \in Batches : NoTask \notin TasksWith(q, s, b)
  BY DEF NoTask, TasksWith
<1>7. CASE WriterTake(w)
  <2>1. /\ busy[w] = NoTask /\ pool # <<>> /\ pool' = Tail(pool)
        /\ busy' = [busy EXCEPT ![w] = Head(pool)] /\ UNCHANGED <<written, late>>
    BY <1>7 DEF WriterTake
  <2>2. busy'[w] = Head(pool)
    BY <1>0, <2>1
  <2>3. ASSUME NEW q \in Pipelines, NEW s \in Sinks, NEW b \in Batches
        PROVE  Downstream(q, s, b)' = Downstream(q, s, b)
    <3>. DEFINE S == TasksWith(q, s, b)
    <3>1. PICK m \in Nat, m1 \in Nat, y \in Nat, y1 \in Nat, o \in Nat :
              /\ m = Hits(pool, S) /\ m1 = Hits(pool', S)
              /\ y = Hits(busy, S) /\ y1 = Hits(busy', S)
              /\ o = Unsent(outbox[q], todo[q], s, b)
      BY <1>0 DEF Counted
    <3>2. Downstream(q, s, b) = o + m + y /\ Downstream(q, s, b)' = o + m1 + y1
      BY <1>1, <3>1 DEF Downstream
    <3>3. NoTask \notin S
      BY <1>6
    <3>. HIDE DEF S
    <3>4. PICK d \in 0..1 : d = One(Head(pool), S)
      BY OneType
    <3>5. m1 + d = m
      <4>1. Hits(Tail(pool), S) + One(Head(pool), S) = Hits(pool, S)
        BY <1>0, <2>1, HitsTail
      <4>. QED  BY <2>1, <3>1, <3>4, <4>1
    <3>6. One(busy[w], S) = 0
      BY <2>1, <3>3 DEF One
    <3>7. y1 + 0 = y + d
      BY <1>5, <2>2, <3>1, <3>4, <3>6
    <3>. QED  BY <3>2, <3>5, <3>7
  <2>4. \A q \in Pipelines, s \in Sinks, b \in Batches : Given(q, s, b)' = Given(q, s, b)
    BY <2>1 DEF Given
  <2>5. Accounted'
    BY <1>0, <1>1, <1>2, <2>3, <2>4, OnceMove
  <2>. QED  BY <1>3, <2>5
<1>8. CASE WriterWrite(w)
  <2>1. busy[w] # NoTask /\ busy' = [busy EXCEPT ![w] = NoTask] /\ pool' = pool
    BY <1>8 DEF WriterWrite
  <2>2. PICK p \in Pipelines, r \in Sinks, B \in SUBSET Batches :
            p = busy[w].p /\ r = busy[w].s /\ B = busy[w].b
    BY <1>0, <2>1 DEF Tasks
  <2>3. \/ /\ written' = [written EXCEPT ![p] = [written[p] EXCEPT ![r] = written[p][r] \cup B]]
           /\ late' = late
        \/ /\ late' = [late EXCEPT ![p] = [late[p] EXCEPT ![r] = late[p][r] \cup B]]
           /\ written' = written
    BY <1>8, <2>2 DEF WriterWrite
  <2>4. busy'[w] = NoTask
    BY <1>0, <2>1
  <2>5. ASSUME NEW q \in Pipelines, NEW s \in Sinks, NEW b \in Batches
        PROVE  Upstream(q, b)' + Downstream(q, s, b)' + Given(q, s, b)'
                   = Upstream(q, b) + Downstream(q, s, b) + Given(q, s, b)
    <3>. DEFINE S == TasksWith(q, s, b)
    <3>1. PICK m \in Nat, y \in Nat, y1 \in Nat, o \in Nat, u \in Nat :
              /\ m = Hits(pool, S) /\ y = Hits(busy, S) /\ y1 = Hits(busy', S)
              /\ o = Unsent(outbox[q], todo[q], s, b) /\ u = Upstream(q, b)
      BY <1>0 DEF Counted
    <3>2. Downstream(q, s, b) = o + m + y /\ Downstream(q, s, b)' = o + m + y1
      BY <1>1, <2>1, <3>1 DEF Downstream
    <3>3. /\ NoTask \notin S
          /\ busy[w] \in S <=> q = p /\ s = r /\ b \in B
      <4>1. busy[w] \in [p : 0..N, s : 0..NumSinks, b : SUBSET Batches]
        BY <1>0
      <4>. QED  BY <1>6, <2>2, <4>1 DEF TasksWith
    <3>. HIDE DEF S
    <3>4. PICK d \in 0..1 : d = One(busy[w], S)
      BY OneType
    <3>5. y1 + d = y
      <4>1. One(NoTask, S) = 0
        BY <3>3 DEF One
      <4>. QED  BY <1>5, <2>4, <3>1, <3>4, <4>1
    <3>6. PICK g \in Nat, g1 \in Nat : g = Given(q, s, b) /\ g1 = Given(q, s, b)'
      BY <1>0 DEF Counted
    <3>7. PICK i \in 0..1, j \in 0..1, i1 \in 0..1, j1 \in 0..1 :
              /\ i = One(b, written[q][s]) /\ j = One(b, late[q][s])
              /\ i1 = One(b, written'[q][s]) /\ j1 = One(b, late'[q][s])
      BY OneType
    <3>8. g = i + j /\ g1 = i1 + j1
      BY <3>6, <3>7 DEF Given
    <3>9. CASE d = 0
      <4>1. ~(q = p /\ s = r /\ b \in B)
        BY <3>3, <3>4, <3>9 DEF One
      <4>2. /\ b \in written'[q][s] <=> b \in written[q][s]
            /\ b \in late'[q][s] <=> b \in late[q][s]
        BY <1>0, <2>3, <4>1
      <4>3. i1 = i /\ j1 = j
        BY <3>7, <4>2 DEF One
      <4>4. u + (o + m + y1) + g1 = u + (o + m + y) + g
        BY <3>5, <3>8, <3>9, <4>3
      <4>. QED  BY <1>2, <3>1, <3>2, <3>6, <4>4
    <3>10. CASE d = 1
      <4>1. q = p /\ s = r /\ b \in B
        BY <3>3, <3>4, <3>10 DEF One
      <4>2. g = 0
        <5>1. PICK f \in 0..1 : f = One(fate[q][b], {"flight"})
          BY OneType
        <5>2. u + (o + m + y) + g = f
          BY <3>1, <3>2, <3>6, <5>1 DEF Accounted
        <5>3. y >= 1
          BY <3>5, <3>10
        <5>. QED  BY <5>2, <5>3
      <4>3. i = 0 /\ j = 0
        BY <3>8, <4>2
      <4>4. b \notin written[q][s] /\ b \notin late[q][s]
        BY <3>7, <4>3 DEF One
      <4>5. \/ b \in written'[q][s] /\ b \notin late'[q][s]
            \/ b \notin written'[q][s] /\ b \in late'[q][s]
        BY <1>0, <2>3, <4>1, <4>4
      <4>6. g1 = 1
        BY <3>7, <3>8, <4>5 DEF One
      <4>7. u + (o + m + y1) + g1 = u + (o + m + y) + g
        BY <3>5, <3>10, <4>2, <4>6
      <4>. QED  BY <1>2, <3>1, <3>2, <3>6, <4>7
    <3>. QED  BY <3>4, <3>9, <3>10
  <2>6. Accounted'
    BY <1>0, <1>1, <2>5, OnceMove
  <2>. QED  BY <1>3, <2>6
<1>. QED  BY <1>7, <1>8 DEF Writer

\* In the constructor's state nothing is made and nothing is anywhere.
LEMMA OnceInit == Init => Numbered /\ EachBatchOnce
<1>. SUFFICES ASSUME Init PROVE Numbered /\ EachBatchOnce
  OBVIOUS
<1>. USE PipelineAssumption
<1>1. TypeOK /\ Locals /\ Counted
  BY PipeInit, CountsTyped DEF PipeInv
<1>2. Numbered
  BY DEF Init, Numbered
<1>3. ASSUME NEW p \in Pipelines, NEW s \in Sinks, NEW b \in Batches
      PROVE  /\ Upstream(p, b) = 0 /\ Downstream(p, s, b) = 0 /\ Given(p, s, b) = 0
             /\ One(fate[p][b], {"flight"}) = 0
  <2>1. Hits(hand, {[p |-> p, b |-> b]}) = 0
    <3>1. DOMAIN hand = Collectors /\ \A c \in Collectors : hand[c] \notin {[p |-> p, b |-> b]}
      BY DEF Init, Idle, Batches
    <3>. QED  BY <3>1, HitsType
  <2>2. Hits(busy, TasksWith(p, s, b)) = 0
    <3>1. DOMAIN busy = Writers /\ \A w \in Writers : busy[w] \notin TasksWith(p, s, b)
      BY DEF Init, NoTask, TasksWith
    <3>. QED  BY <3>1, HitsType
  <2>3. Hits(chan[p], {b}) = 0 /\ Hits(pool, TasksWith(p, s, b)) = 0
        /\ Hits(outbox[p], Holding(b)) = 0
    BY HitsEmpty DEF Init
  <2>4. One(item[p], {b}) = 0 /\ One(b, agg[p]) = 0 /\ One(fate[p][b], {"flight"}) = 0
        /\ One(b, written[p][s]) = 0 /\ One(b, late[p][s]) = 0
    BY DEF Init, One, Batches
  <2>5. ~(s < todo[p])
    BY DEF Init, Sinks
  <2>6. Unsent(outbox[p], todo[p], s, b) = 0
    BY <2>3, <2>5 DEF Unsent
  <2>. QED  BY <2>1, <2>2, <2>3, <2>4, <2>6 DEF Upstream, Downstream, Given
<1>4. Accounted
  BY <1>3 DEF Accounted
<1>. QED  BY <1>1, <1>2, <1>4, AccountedIsOnce

\* Every step keeps the account of the batches.
LEMMA OnceStep ==
    ASSUME PipeInv, PipeInv', Numbered, EachBatchOnce, [Next]_vars
    PROVE  Numbered' /\ EachBatchOnce'
<1>1. Accounted
  BY AccountedIsOnce DEF PipeInv
<1>2. SUFFICES Numbered' /\ Accounted'
  BY AccountedIsOnceNext DEF PipeInv
<1>3. CASE UNCHANGED vars
  BY <1>1, <1>3, OnceQuiet
     DEF vars, collectVars, processVars, sinkVars, batchVars, Numbered
<1>4. CASE Controller \/ Shutdown
  <2>1. UNCHANGED <<hand, chan, item, agg, outbox, todo, pool, busy, written, late,
                    made, fate>>
    BY Zenon, <1>4 DEF Controller, StartPlugin, StartPluginFails, StartThread,
           StartCallback, StartTimers, Shutdown, StopTimer, StopCollectPool,
           StopExchange, StopSource, StopJoin, StopPlugin, Destroy, processVars,
           collectVars, sinkVars, batchVars
  <2>. QED  BY <1>1, <2>1, OnceQuiet DEF Numbered
<1>5. CASE \/ \E p \in Pipelines : SourceEvent(p) \/ CollectTick(p) \/ InjectFlush(p)
           \/ \E c \in Collectors : Collector(c)
  BY <1>1, <1>5, OnceSources
<1>6. ASSUME NEW p \in Pipelines, Process(p) PROVE Numbered' /\ Accounted'
  BY <1>1, <1>6, OnceHandles, OnceSubmits DEF Process
<1>7. ASSUME NEW w \in Writers, Writer(w) PROVE Numbered' /\ Accounted'
  BY <1>1, <1>7, OnceWriters
<1>8. CASE Terminated
  BY <1>3, <1>8 DEF Terminated
<1>. QED  BY <1>3, <1>4, <1>5, <1>6, <1>7, <1>8 DEF Next

\* No batch is duplicated, forgotten or sent to some of the sinks only, whatever
\* the interleaving of sources, collectors, process threads and writers; a batch
\* is lost only where the code drops it.
THEOREM EveryBatchOnce == Spec => []BatchesSound
<1>1. Init => PipeInv /\ Numbered /\ EachBatchOnce
  BY PipeInit, OnceInit
<1>2. PipeInv /\ Numbered /\ EachBatchOnce /\ [Next]_vars
          => (PipeInv /\ Numbered /\ EachBatchOnce)'
  BY PipeStep, OnceStep
<1>3. PipeInv /\ Numbered /\ EachBatchOnce => BatchesSound
  BY DEF PipeInv, BatchesSound
<1>. QED  BY <1>1, <1>2, <1>3, PTL DEF Spec

-----------------------------------------------------------------------------
(* The end of the daemon *)

\* The SinkPool was drained before it was destroyed, and nobody submits after.
PoolEmptied ==
    cpc = "done" => pool = <<>> /\ \A w \in Writers : busy[w] = NoTask

\* Every step keeps it empty.
LEMMA PoolEmptiedStep ==
    ASSUME PipeInv, PoolEmptied, [Next]_vars
    PROVE  PoolEmptied'
<1>0. PoolType /\ Runs
  BY TypeParts DEF PipeInv
<1>1. CASE Controller \/ Shutdown
  <2>1. UNCHANGED <<pool, busy>>
    BY Zenon, <1>1 DEF Controller, StartPlugin, StartPluginFails, StartThread,
           StartCallback, StartTimers, Shutdown, StopTimer, StopCollectPool,
           StopExchange, StopSource, StopJoin, StopPlugin, Destroy, sinkVars
  <2>2. cpc' = "done" => pool = <<>> /\ \A w \in Writers : busy[w] = NoTask
    BY <1>1 DEF Controller, StartPlugin, StartPluginFails, StartThread,
           StartCallback, StartTimers, Shutdown, StopTimer, StopCollectPool,
           StopExchange, StopNext, StopSource, StopJoin, StopPlugin, Destroy
  <2>. QED  BY <2>1, <2>2 DEF PoolEmptied
<1>2. CASE \/ UNCHANGED vars \/ Terminated
           \/ \E p \in Pipelines : SourceEvent(p) \/ CollectTick(p) \/ InjectFlush(p)
           \/ \E c \in Collectors : Collector(c)
  <2>1. UNCHANGED <<cpc, pool, busy>>
    BY Zenon, <1>2 DEF vars, Terminated, SourceEvent, CollectTick, InjectFlush,
           Collector, CollectTake, CollectMake, CollectNothing, CollectEnqueue,
           controlVars, sinkVars
  <2>. QED  BY <2>1 DEF PoolEmptied
<1>3. ASSUME NEW p \in Pipelines, Process(p) PROVE PoolEmptied'
  <2>1. cpc' = cpc /\ busy' = busy /\ (pool' = pool \/ ppc[p] = "push")
    BY Zenon, <1>3 DEF Process, ProcessCheck, ProcessDequeue, ProcessTimeout,
           ProcessDrained, HandleDataEnds, HandleData, HandleFlush, SubmitCheck,
           SubmitSink, SubmitDone, controlVars, sinkVars
  <2>2. cpc = "done" => ppc[p] # "push"
    BY <1>0 DEF Runs, StopDone
  <2>. QED  BY <2>1, <2>2 DEF PoolEmptied
<1>4. ASSUME NEW w \in Writers, Writer(w) PROVE PoolEmptied'
  <2>1. cpc' = cpc /\ ~(pool = <<>> /\ busy[w] = NoTask)
    BY <1>4 DEF Writer, WriterTake, WriterWrite, controlVars
  <2>. QED  BY <2>1 DEF PoolEmptied
<1>. QED  BY <1>1, <1>2, <1>3, <1>4 DEF Next

\* When the daemon is gone, every batch of a pull source that was not lost by then
\* has been given to every sink of its pipeline.
THEOREM ExitDelivers == Spec => []DeliveredAtExit
<1>1. Init => PipeInv /\ Numbered /\ EachBatchOnce /\ PoolEmptied
  BY PipeInit, OnceInit DEF Init, PoolEmptied
<1>2. PipeInv /\ Numbered /\ EachBatchOnce /\ PoolEmptied /\ [Next]_vars
          => (PipeInv /\ Numbered /\ EachBatchOnce /\ PoolEmptied)'
  BY PipeStep, OnceStep, PoolEmptiedStep
<1>3. PipeInv /\ EachBatchOnce /\ PoolEmptied => DeliveredAtExit
  <2>. SUFFICES ASSUME PipeInv, EachBatchOnce, PoolEmptied, cpc = "done",
                       NEW p \in Pipelines \ Push, NEW s \in Sinks, NEW b \in Batches,
                       fate[p][b] = "flight"
                PROVE  b \in written[p][s] \cup late[p][s]
    BY DEF DeliveredAtExit
  <2>. USE PipelineAssumption
  <2>0. /\ TypeOK /\ Locals /\ Counted /\ Runs /\ Drains /\ Collects
        /\ CollectType /\ PoolType /\ Accounted
    BY TypeParts, CountsTyped, AccountedIsOnce DEF PipeInv
  <2>1. ppc[p] \in {"off", "exited"}
    BY <2>0 DEF Runs, StopDone
  <2>2. /\ item[p] = 0 /\ outbox[p] = <<>> /\ todo[p] = 1
        /\ chan[p] = <<>> /\ agg[p] = {}
    BY <2>0, <2>1 DEF Locals, Drains, Last
  <2>3. Hits(hand, {[p |-> p, b |-> b]}) = 0
    <3>1. DOMAIN hand = Collectors /\ \A c \in Collectors : hand[c] \notin {[p |-> p, b |-> b]}
      BY <2>0 DEF CollectType, Collects, Closing, Idle, Batches
    <3>. QED  BY <3>1, HitsType
  <2>4. Hits(busy, TasksWith(p, s, b)) = 0
    <3>1. DOMAIN busy = Writers /\ \A w \in Writers : busy[w] \notin TasksWith(p, s, b)
      BY <2>0 DEF PoolEmptied, PoolType, NoTask, TasksWith
    <3>. QED  BY <3>1, HitsType
  <2>5. Hits(chan[p], {b}) = 0 /\ Hits(pool, TasksWith(p, s, b)) = 0
        /\ Hits(outbox[p], Holding(b)) = 0
    BY <2>2, HitsEmpty DEF PoolEmptied
  <2>6. One(item[p], {b}) = 0 /\ One(b, agg[p]) = 0
    BY <2>2 DEF One, Batches
  <2>7. Unsent(outbox[p], todo[p], s, b) = 0
    <3>1. ~(s < todo[p])
      BY <2>2 DEF Sinks
    <3>. QED  BY <2>5, <3>1 DEF Unsent
  <2>8. Upstream(p, b) = 0 /\ Downstream(p, s, b) = 0
    BY <2>3, <2>4, <2>5, <2>6, <2>7 DEF Upstream, Downstream
  <2>9. Given(p, s, b) \in Nat /\ One(fate[p][b], {"flight"}) = 1
    BY <2>0 DEF Counted, One
  <2>10. Given(p, s, b) = 1
    BY <2>0, <2>8, <2>9 DEF Accounted
  <2>. QED  BY <2>10 DEF Given, One
<1>. QED  BY <1>1, <1>2, <1>3, PTL DEF Spec

\* Both: nothing is left behind in a pull pipeline, and all of it is delivered.
THEOREM PullIsDelivered == Spec => []PullDelivered
<1>1. PullDrained /\ DeliveredAtExit => PullDelivered
  BY DEF PullDelivered
<1>. QED  BY <1>1, PullPipelinesDrain, ExitDelivers, PTL

-----------------------------------------------------------------------------
(* The pools are owned as TaskFifo asks *)

\* Before StartAll.
LEMMA PoolsInit == Init => CollectPool!Init /\ SinkPool!Init
<1>. SUFFICES ASSUME Init PROVE CollectPool!Init /\ SinkPool!Init
  OBVIOUS
<1>1. CollectPool!Init
  BY DEF Init, Idle, CollectPool!Init
<1>2. SinkPool!Init
  BY DEF Init, SinkPool!Init
<1>. QED  BY <1>1, <1>2

\* StopAll and ~PipelineController: what destroys a pool waits for it.
LEMMA ControllerOwnsPools ==
    ASSUME Controller \/ Shutdown
    PROVE  [CollectPool!Next]_(CollectPool!vars) /\ [SinkPool!Next]_(SinkPool!vars)
<1>1. UNCHANGED <<collectq, hand, pool, busy>>
  BY Zenon DEF Controller, StartPlugin, StartPluginFails, StartThread,
         StartCallback, StartTimers, Shutdown, StopTimer, StopCollectPool,
         StopExchange, StopSource, StopJoin, StopPlugin, Destroy, collectVars, sinkVars
<1>2. CASE StopTimer
  <2>1. CollectPool!Destroy
    BY <1>1, <1>2 DEF StopTimer, CollectPool!Destroy
  <2>2. UNCHANGED SinkPool!vars
    BY <1>1, <1>2 DEF StopTimer, SinkPool!vars
  <2>. QED  BY <2>1, <2>2 DEF CollectPool!Next
<1>3. CASE StopCollectPool
  <2>1. CollectPool!Return
    BY <1>1, <1>3 DEF StopCollectPool, Idle, CollectPool!Return
  <2>2. UNCHANGED SinkPool!vars
    BY <1>1, <1>3 DEF StopCollectPool, SinkPool!vars
  <2>. QED  BY <2>1, <2>2 DEF CollectPool!Next
<1>4. CASE Destroy
  <2>1. SinkPool!Return
    BY <1>1, <1>4 DEF Destroy, SinkPool!Return
  <2>2. UNCHANGED CollectPool!vars
    BY <1>1, <1>4 DEF Destroy, CollectPool!vars
  <2>. QED  BY <2>1, <2>2 DEF SinkPool!Next
<1>5. CASE \/ StartPlugin \/ StartPluginFails \/ StartThread \/ StartCallback
           \/ StartTimers \/ Shutdown
  <2>1. cpc \in {"start", "spawn", "callback", "timers", "up"}
        /\ cpc' \in {"start", "spawn", "callback", "timers", "up", "stop_timer"}
    BY <1>5 DEF StartPlugin, StartPluginFails, StartThread, StartCallback,
           StartTimers, Shutdown
  <2>. QED  BY <1>1, <2>1 DEF CollectPool!vars, SinkPool!vars
<1>6. CASE StopExchange \/ StopSource \/ StopJoin \/ StopPlugin
  <2>1. /\ cpc \in {"stop", "stop_source", "join", "stop_plugins"}
        /\ cpc' \in {"stop", "stop_source", "join", "stop_plugins", "destroy"}
    BY <1>6 DEF StopExchange, StopNext, StopSource, StopJoin, StopPlugin
  <2>2. UNCHANGED CollectPool!vars
    BY <1>1, <2>1 DEF CollectPool!vars
  <2>3. CASE cpc' = "destroy"
    <3>1. SinkPool!Destroy
      BY <1>1, <2>1, <2>3 DEF SinkPool!Destroy
    <3>. QED  BY <2>2, <3>1 DEF SinkPool!Next
  <2>4. CASE cpc' # "destroy"
    BY <1>1, <2>1, <2>2, <2>4 DEF SinkPool!vars
  <2>. QED  BY <2>3, <2>4
<1>. QED  BY <1>2, <1>3, <1>4, <1>5, <1>6 DEF Controller

\* The collect timer submits while it runs, and the timers are stopped first.
LEMMA CollectorsServe ==
    ASSUME PipeInv,
           \/ \E p \in Pipelines : SourceEvent(p) \/ CollectTick(p) \/ InjectFlush(p)
           \/ \E c \in Collectors : Collector(c)
    PROVE  [CollectPool!Next]_(CollectPool!vars) /\ UNCHANGED SinkPool!vars
<1>0. CollectType /\ Starts /\ Collects
  BY TypeParts DEF PipeInv
<1>1. UNCHANGED <<cpc, pool, busy>>
  BY Zenon DEF SourceEvent, CollectTick, InjectFlush, Collector, CollectTake,
         CollectMake, CollectNothing, CollectEnqueue, controlVars, sinkVars
<1>2. UNCHANGED SinkPool!vars
  BY <1>1 DEF SinkPool!vars
<1>3. ASSUME NEW p \in Pipelines, SourceEvent(p) \/ InjectFlush(p)
      PROVE  UNCHANGED CollectPool!vars
  BY <1>1, <1>3 DEF SourceEvent, InjectFlush, collectVars, CollectPool!vars
<1>4. ASSUME NEW p \in Pipelines, CollectTick(p) PROVE CollectPool!Next
  <2>1. cpc \in {"up", "stop_timer"}
    BY <1>0, <1>4 DEF CollectTick, Starts
  <2>2. CollectPool!Submit(p)
    BY <1>1, <1>4, <2>1 DEF CollectTick, CollectPool!Submit
  <2>. QED  BY <2>2 DEF CollectPool!Next
<1>5. ASSUME NEW c \in Collectors, Collector(c)
      PROVE  CollectPool!Next \/ UNCHANGED CollectPool!vars
  <2>1. CASE CollectTake(c)
    <3>1. hand[c].p = 0 /\ collectq # <<>>
      BY <2>1 DEF CollectTake, Idle
    <3>2. [d \in Collectors |-> hand'[d].p]
              = [[d \in Collectors |-> hand[d].p] EXCEPT ![c] = Head(collectq)]
      BY <1>0, <2>1 DEF CollectTake, CollectType
    <3>3. CollectPool!Take(c)
      BY <1>1, <2>1, <3>1, <3>2 DEF CollectTake, CollectPool!Take
    <3>. QED  BY <3>3 DEF CollectPool!Next
  <2>2. CASE CollectMake(c)
    <3>1. \A d \in Collectors : hand'[d].p = hand[d].p
      BY <1>0, <2>2 DEF CollectMake, CollectType
    <3>. QED  BY <1>1, <2>2, <3>1 DEF CollectMake, CollectPool!vars
  <2>3. CASE CollectNothing(c) \/ CollectEnqueue(c)
    <3>1. hand[c].p # 0
      BY <1>0, <2>3 DEF CollectNothing, CollectEnqueue, Collects
    <3>2. hand' = [hand EXCEPT ![c] = Idle] /\ UNCHANGED collectq
      BY <2>3 DEF CollectNothing, CollectEnqueue
    <3>3. [d \in Collectors |-> hand'[d].p]
              = [[d \in Collectors |-> hand[d].p] EXCEPT ![c] = 0]
      BY <1>0, <3>2 DEF CollectType, Idle
    <3>4. CollectPool!Finish(c)
      BY <1>1, <3>1, <3>2, <3>3 DEF CollectPool!Finish
    <3>. QED  BY <3>4 DEF CollectPool!Next
  <2>. QED  BY <1>5, <2>1, <2>2, <2>3 DEF Collector
<1>. QED  BY <1>2, <1>3, <1>4, <1>5

\* A process thread submits before it exits, and it is joined before the pool
\* is destroyed.
LEMMA ProcessSubmits ==
    ASSUME PipeInv, NEW p \in Pipelines, Process(p)
    PROVE  [SinkPool!Next]_(SinkPool!vars) /\ UNCHANGED CollectPool!vars
<1>0. Runs /\ Locals /\ LocalType
  BY TypeParts DEF PipeInv
<1>1. UNCHANGED <<cpc, collectq, hand, busy>>
  BY Zenon DEF Process, ProcessCheck, ProcessDequeue, ProcessTimeout,
         ProcessDrained, HandleDataEnds, HandleData, HandleFlush, SubmitCheck,
         SubmitSink, SubmitDone, controlVars, collectVars, sinkVars
<1>2. UNCHANGED CollectPool!vars
  BY <1>1 DEF CollectPool!vars
<1>3. CASE SubmitSink(p)
  <2>1. cpc \notin {"destroy", "done"}
    BY <1>0, <1>3 DEF SubmitSink, Runs, StopDone
  <2>2. Head(outbox[p]) \in SUBSET Batches
    <3>1. outbox[p] \in Seq(SUBSET Batches) /\ outbox[p] # <<>>
      BY <1>0, <1>3 DEF SubmitSink, Locals, LocalType
    <3>. QED  BY <3>1, HeadTailProperties
  <2>3. [p |-> p, s |-> todo[p], b |-> Head(outbox[p])]
            \in [p : Pipelines, s : Sinks, b : SUBSET Batches]
    BY <1>0, <2>2 DEF LocalType
  <2>4. SinkPool!Submit([p |-> p, s |-> todo[p], b |-> Head(outbox[p])])
    BY <1>1, <1>3, <2>1 DEF SubmitSink, SinkPool!Submit
  <2>. QED  BY <1>2, <2>3, <2>4 DEF SinkPool!Next
<1>4. CASE ~SubmitSink(p)
  <2>1. UNCHANGED pool
    BY Zenon, <1>4 DEF Process, ProcessCheck, ProcessDequeue, ProcessTimeout,
           ProcessDrained, HandleDataEnds, HandleData, HandleFlush, SubmitCheck,
           SubmitDone, sinkVars
  <2>. QED  BY <1>1, <1>2, <2>1 DEF SinkPool!vars
<1>. QED  BY <1>3, <1>4

\* The SinkPool's workers.
LEMMA WritersServe ==
    ASSUME NEW w \in Writers, Writer(w)
    PROVE  SinkPool!Next /\ UNCHANGED CollectPool!vars
<1>1. UNCHANGED <<cpc, collectq, hand>>
  BY Zenon DEF Writer, WriterTake, WriterWrite, controlVars, collectVars
<1>2. UNCHANGED CollectPool!vars
  BY <1>1 DEF CollectPool!vars
<1>3. CASE WriterTake(w)
  <2>1. SinkPool!Take(w)
    BY <1>1, <1>3 DEF WriterTake, SinkPool!Take
  <2>. QED  BY <1>2, <2>1 DEF SinkPool!Next
<1>4. CASE WriterWrite(w)
  <2>1. SinkPool!Finish(w)
    BY <1>1, <1>4 DEF WriterWrite, SinkPool!Finish
  <2>. QED  BY <1>2, <2>1 DEF SinkPool!Next
<1>. QED  BY <1>3, <1>4 DEF Writer

\* Whatever timers, process threads and failed starts are doing, nothing is
\* submitted to a pool that is being destroyed, and StopAll and the destructor
\* go on only when its last task has run: CollectPool and SinkPool are used as
\* ThreadPool needs it.
THEOREM PoolsAreOwned == Spec => PoolsOwned
<1>1. PipeInv /\ [Next]_vars =>
          [CollectPool!Next]_(CollectPool!vars) /\ [SinkPool!Next]_(SinkPool!vars)
  <2>. SUFFICES ASSUME PipeInv, [Next]_vars
       PROVE  [CollectPool!Next]_(CollectPool!vars) /\ [SinkPool!Next]_(SinkPool!vars)
    OBVIOUS
  <2>1. CASE UNCHANGED vars \/ Terminated
    <3>1. UNCHANGED <<cpc, collectq, hand, pool, busy>>
      BY Zenon, <2>1 DEF Terminated, vars, controlVars, collectVars, sinkVars
    <3>. QED  BY <3>1 DEF CollectPool!vars, SinkPool!vars
  <2>. QED  BY <2>1, ControllerOwnsPools, CollectorsServe, ProcessSubmits,
               WritersServe DEF Next
<1>. QED  BY PoolsInit, PipeInvariant, <1>1, PTL
     DEF Spec, PoolsOwned, CollectPool!Spec, SinkPool!Spec
=============================================================================
