---------------------------- MODULE AsyncChannel ----------------------------
(***************************************************************************)
(* core/engine/async_channel.h: the channel between the threads that feed  *)
(* a pipeline and its ProcessThread, together with Pipeline::Enqueue, which *)
(* turns the channel's watermark flag into OnBackpressure calls.           *)
(*                                                                         *)
(* The queue underneath is BoundedFifo, the specification LockFreeQueue is *)
(* shown to implement: pushes claim and publish, pops take and release, so *)
(* "full" and "empty" are the weak answers the real queue gives.           *)
(*                                                                         *)
(* Producers are the threads that call Pipeline::Enqueue (the poll thread  *)
(* of a push source, or the workers of CollectPool), Flushers those that   *)
(* call Pipeline::InjectFlush (the TimerWheel thread) and Consumers those  *)
(* that call Dequeue or TryDequeue (the ProcessThread).                    *)
(*                                                                         *)
(* A statistics counter is bumped in the same step as the queue access     *)
(* before it: the counters are only ever read for reporting.               *)
(***************************************************************************)
EXTENDS Integers, Sequences, FiniteSets

CONSTANTS Producers, Flushers, Consumers,
          Batch,       \* the data batches
          Flush,       \* FlushSentinel{}
          Capacity,    \* queue_.capacity()
          HighMark,    \* static_cast<size_t>(capacity_ * high_wm_)
          LowMark,     \* static_cast<size_t>(capacity_ * low_wm_)
          Policies,    \* values of drop_policy_ == kDropOldest to explore
          NoValue, NoThread,
          MaxOffered,  \* bound: calls of TryEnqueue
          MaxFlushes   \* bound: calls of InjectFlush

Threads == Producers \cup Flushers \cup Consumers

ASSUME ChannelAssumption ==
    /\ Capacity \in Nat \ {0} /\ HighMark \in Nat /\ LowMark \in Nat
    /\ Policies \subseteq BOOLEAN
    /\ MaxOffered \in Nat /\ MaxFlushes \in Nat
    /\ IsFiniteSet(Threads)
    /\ Flush \notin Batch /\ NoValue \notin Batch \cup {Flush}
    /\ NoThread \notin Threads
    /\ Producers \cap Flushers = {} /\ Producers \cap Consumers = {}
    /\ Flushers \cap Consumers = {}

VARIABLES
    dropOldest,            \* drop_policy_, fixed by the constructor
    items, holding, res,   \* queue_, see BoundedFifo
    head, tail,            \* its counters, which SizeApprox loads one by one
    stats,                 \* stats_
    backpressured,         \* backpressured_
    lastBp,                \* Pipeline::last_backpressure_state_
    told,                  \* the argument of the source's last OnBackpressure
    pc,                    \* where each thread is in its call
    was, h, bp,            \* locals of UpdateBackpressure, SizeApprox, Enqueue
    fill,                  \* history: the true fill when head_ was loaded
    offered, flushes       \* calls of TryEnqueue and InjectFlush so far

queueVars == <<items, holding, res, head, tail>>
flagVars  == <<backpressured, lastBp, told>>
localVars == <<was, h, bp, fill>>
callVars  == <<dropOldest, offered, flushes>>
vars == <<queueVars, stats, flagVars, pc, localVars, callVars>>

Queue == INSTANCE BoundedFifo WITH Value <- Batch \cup {Flush}

Init ==
    /\ dropOldest \in Policies
    /\ Queue!Init
    /\ head = 0 /\ tail = 0
    /\ stats = [enqueued |-> 0, dropped |-> 0, dequeued |-> 0,
                flush_injected |-> 0, backpressure_events |-> 0]
    /\ backpressured = FALSE /\ lastBp = FALSE /\ told = FALSE
    /\ pc = [t \in Threads |-> "idle"]
    /\ was = [t \in Threads |-> FALSE]
    /\ h = [t \in Threads |-> 0]
    /\ bp = [t \in Threads |-> FALSE]
    /\ fill = [t \in Threads |-> 0]
    /\ offered = 0 /\ flushes = 0

Goto(t, l) == pc' = [pc EXCEPT ![t] = l]
Count(f)   == stats' = [stats EXCEPT ![f] = @ + 1]

-----------------------------------------------------------------------------
(* TryEnqueue and InjectFlush: push; if that fails make room and push again *)

EnqueueBegin(t) ==
    /\ t \in Producers
    /\ pc[t] = "idle"
    /\ offered < MaxOffered
    /\ offered' = offered + 1
    /\ Goto(t, "push")
    /\ UNCHANGED <<queueVars, stats, flagVars, localVars, flushes, dropOldest>>

FlushBegin(t) ==
    /\ t \in Flushers
    /\ pc[t] = "idle"
    /\ flushes < MaxFlushes
    /\ flushes' = flushes + 1
    /\ Goto(t, "push")
    /\ UNCHANGED <<queueVars, stats, flagVars, localVars, offered, dropOldest>>

\* What thread t pushes.
Pushed(t) == IF t \in Flushers THEN {Flush} ELSE Batch

PushClaim(t) ==
    /\ pc[t] \in {"push", "push_again"}
    /\ \E v \in Pushed(t) : Queue!Claim(t, v)
    /\ head' = head + 1
    /\ Goto(t, "publish")
    /\ UNCHANGED <<tail, stats, flagVars, localVars, callVars>>

\* InjectFlush returns here; TryEnqueue goes on to UpdateBackpressure.
PushPublish(t) ==
    /\ pc[t] = "publish"
    /\ Queue!Publish(t)
    /\ Count(IF t \in Flushers THEN "flush_injected" ELSE "enqueued")
    /\ Goto(t, IF t \in Flushers THEN "idle" ELSE "was")
    /\ UNCHANGED <<head, tail, flagVars, localVars, callVars>>

\* Mistake: the drop policy is not looked at.
PushFullAlwaysEvicts(t) ==
    /\ pc[t] = "push"
    /\ Queue!FailPush(t)
    /\ Goto(t, "evict")
    /\ UNCHANGED <<head, tail, stats, flagVars, localVars, callVars>>

\* The first push found the queue full.  InjectFlush makes room whatever the
\* policy; TryEnqueue only under kDropOldest.
PushFull(t) ==
    /\ pc[t] = "push"
    /\ Queue!FailPush(t)
    /\ IF t \in Flushers \/ dropOldest
       THEN Goto(t, "evict") /\ UNCHANGED stats
       ELSE Goto(t, "was") /\ Count("dropped")
    /\ UNCHANGED <<head, tail, flagVars, localVars, callVars>>

EvictTake(t) ==
    /\ pc[t] = "evict"
    /\ Queue!Take(t)
    /\ tail' = tail + 1
    /\ Goto(t, "evicted")
    /\ UNCHANGED <<head, stats, flagVars, localVars, callVars>>

EvictRelease(t) ==
    /\ pc[t] = "evicted"
    /\ Queue!Release(t)
    /\ Count("dropped")
    /\ Goto(t, "push_again")
    /\ UNCHANGED <<head, tail, flagVars, localVars, callVars>>

EvictNothing(t) ==
    /\ pc[t] = "evict"
    /\ Queue!FailPop(t)
    /\ Goto(t, "push_again")
    /\ UNCHANGED <<head, tail, stats, flagVars, localVars, callVars>>

\* Mistake: the batch that lost its room to another producer is not counted.
PushAgainFullUncounted(t) ==
    /\ pc[t] = "push_again"
    /\ Queue!FailPush(t)
    /\ Goto(t, IF t \in Flushers THEN "idle" ELSE "was")
    /\ UNCHANGED <<head, tail, stats, flagVars, localVars, callVars>>

\* Another producer took the room that was made.
PushAgainFull(t) ==
    /\ pc[t] = "push_again"
    /\ Queue!FailPush(t)
    /\ IF t \in Flushers
       THEN Goto(t, "idle") /\ UNCHANGED stats
       ELSE Goto(t, "was") /\ Count("dropped")
    /\ UNCHANGED <<head, tail, flagVars, localVars, callVars>>

-----------------------------------------------------------------------------
(* Dequeue and TryDequeue: Dequeue repeats the pop until its deadline, a    *)
(* pop that finds nothing is one turn of that loop.                         *)

DequeueTake(t) ==
    /\ t \in Consumers
    /\ pc[t] = "idle"
    /\ Queue!Take(t)
    /\ tail' = tail + 1
    /\ Goto(t, "taken")
    /\ UNCHANGED <<head, stats, flagVars, localVars, callVars>>

DequeueRelease(t) ==
    /\ pc[t] = "taken"
    /\ Queue!Release(t)
    /\ Count("dequeued")
    /\ Goto(t, "was")
    /\ UNCHANGED <<head, tail, flagVars, localVars, callVars>>

DequeueNothing(t) ==
    /\ t \in Consumers
    /\ pc[t] = "idle"
    /\ Queue!FailPop(t)
    /\ UNCHANGED <<head, tail, stats, flagVars, pc, localVars, callVars>>

-----------------------------------------------------------------------------
(* UpdateBackpressure: the flag, head_ and tail_ are three separate loads   *)

\* Only Pipeline::Enqueue looks at the flag after the channel call.
AfterUpdate(t) == IF t \in Producers THEN "load_bp" ELSE "idle"

\* The outcome of the push or pop has been looked at by now.
UpdateLoadWas(t) ==
    /\ pc[t] = "was"
    /\ Queue!Begin(t)
    /\ was' = [was EXCEPT ![t] = backpressured]
    /\ Goto(t, "size_head")
    /\ UNCHANGED <<head, tail, stats, flagVars, h, bp, fill, callVars>>

UpdateLoadHead(t) ==
    /\ pc[t] = "size_head"
    /\ h' = [h EXCEPT ![t] = head]
    /\ fill' = [fill EXCEPT ![t] = Len(items)]
    /\ Goto(t, "size_tail")
    /\ UNCHANGED <<queueVars, stats, flagVars, was, bp, callVars>>

SizeSeen(t) == IF h[t] >= tail THEN h[t] - tail ELSE 0

\* Mistake: the high watermark is reached, not exceeded.
UpdateLoadTailAtMark(t) ==
    /\ pc[t] = "size_tail"
    /\ Goto(t, CASE ~was[t] /\ SizeSeen(t) >= HighMark -> "raise"
                 [] was[t] /\ SizeSeen(t) < LowMark    -> "clear"
                 [] OTHER                              -> AfterUpdate(t))
    /\ h' = [h EXCEPT ![t] = 0]
    /\ was' = [was EXCEPT ![t] = FALSE]
    /\ fill' = IF pc'[t] = "raise" THEN fill ELSE [fill EXCEPT ![t] = 0]
    /\ UNCHANGED <<queueVars, stats, flagVars, bp, callVars>>

UpdateLoadTail(t) ==
    /\ pc[t] = "size_tail"
    /\ Goto(t, CASE ~was[t] /\ SizeSeen(t) > HighMark -> "raise"
                 [] was[t] /\ SizeSeen(t) < LowMark   -> "clear"
                 [] OTHER                             -> AfterUpdate(t))
    /\ h' = [h EXCEPT ![t] = 0]
    /\ was' = [was EXCEPT ![t] = FALSE]
    /\ fill' = IF pc'[t] = "raise" THEN fill ELSE [fill EXCEPT ![t] = 0]
    /\ UNCHANGED <<queueVars, stats, flagVars, bp, callVars>>

\* compare_exchange_strong(false, true)
UpdateRaise(t) ==
    /\ pc[t] = "raise"
    /\ backpressured' = TRUE
    /\ IF backpressured THEN UNCHANGED stats ELSE Count("backpressure_events")
    /\ Goto(t, AfterUpdate(t))
    /\ fill' = [fill EXCEPT ![t] = 0]
    /\ UNCHANGED <<queueVars, lastBp, told, was, h, bp, callVars>>

UpdateClear(t) ==
    /\ pc[t] = "clear"
    /\ backpressured' = FALSE
    /\ Goto(t, AfterUpdate(t))
    /\ UNCHANGED <<queueVars, stats, lastBp, told, localVars, callVars>>

-----------------------------------------------------------------------------
(* The rest of Pipeline::Enqueue *)

EnqueueLoadBp(t) ==
    /\ pc[t] = "load_bp"
    /\ bp' = [bp EXCEPT ![t] = backpressured]
    /\ Goto(t, "compare")
    /\ UNCHANGED <<queueVars, stats, flagVars, was, h, fill, callVars>>

EnqueueCompare(t) ==
    /\ pc[t] = "compare"
    /\ IF bp[t] # lastBp
       THEN Goto(t, "store") /\ UNCHANGED bp
       ELSE Goto(t, "idle") /\ bp' = [bp EXCEPT ![t] = FALSE]
    /\ UNCHANGED <<queueVars, stats, flagVars, was, h, fill, callVars>>

EnqueueStore(t) ==
    /\ pc[t] = "store"
    /\ lastBp' = bp[t]
    /\ Goto(t, "tell")
    /\ UNCHANGED <<queueVars, stats, backpressured, told, localVars, callVars>>

EnqueueTell(t) ==
    /\ pc[t] = "tell"
    /\ told' = bp[t]
    /\ bp' = [bp EXCEPT ![t] = FALSE]
    /\ Goto(t, "idle")
    /\ UNCHANGED <<queueVars, stats, backpressured, lastBp, was, h, fill, callVars>>

-----------------------------------------------------------------------------
Next ==
    \E t \in Threads :
        \/ EnqueueBegin(t) \/ FlushBegin(t)
        \/ PushClaim(t) \/ PushPublish(t) \/ PushFull(t)
        \/ EvictTake(t) \/ EvictRelease(t) \/ EvictNothing(t)
        \/ PushAgainFull(t)
        \/ DequeueTake(t) \/ DequeueRelease(t) \/ DequeueNothing(t)
        \/ UpdateLoadWas(t) \/ UpdateLoadHead(t) \/ UpdateLoadTail(t)
        \/ UpdateRaise(t) \/ UpdateClear(t)
        \/ EnqueueLoadBp(t) \/ EnqueueCompare(t)
        \/ EnqueueStore(t) \/ EnqueueTell(t)

Spec == Init /\ [][Next]_vars

-----------------------------------------------------------------------------
(* Properties *)

Labels ==
    {"idle", "push", "publish", "evict", "evicted", "push_again", "taken",
     "was", "size_head", "size_tail", "raise", "clear",
     "load_bp", "compare", "store", "tell"}

\* Type invariant.
TypeOK ==
    /\ dropOldest \in BOOLEAN
    /\ items \in Seq(Queue!Item) /\ Len(items) <= Capacity
    /\ holding \in [Threads -> Batch \cup {Flush, NoValue}]
    /\ head \in Nat /\ tail \in Nat
    /\ stats \in [{"enqueued", "dropped", "dequeued", "flush_injected",
                   "backpressure_events"} -> Nat]
    /\ backpressured \in BOOLEAN /\ lastBp \in BOOLEAN /\ told \in BOOLEAN
    /\ pc \in [Threads -> Labels]
    /\ was \in [Threads -> BOOLEAN] /\ bp \in [Threads -> BOOLEAN]
    /\ h \in [Threads -> Nat] /\ fill \in [Threads -> Nat]
    /\ offered \in 0..MaxOffered /\ flushes \in 0..MaxFlushes

At(T, L) == {t \in T : pc[t] \in L}

\* No batch vanishes: every batch offered to TryEnqueue and every sentinel
\* accepted is dequeued, counted in dropped, still queued, or in the hands of
\* a thread that is inside a channel call.  The counters the metrics export
\* therefore add up once the channel is quiet.
Accounted ==
    offered + stats.flush_injected + Cardinality(At(Flushers, {"publish"}))
  = stats.dequeued + stats.dropped + Len(items)
    + Cardinality(At(Producers, {"push", "evict", "evicted", "push_again"}))
    + Cardinality(At(Threads, {"evicted", "taken"}))

\* The channel's state is well formed and its books balance.
ChannelSound == TypeOK /\ Accounted

\* Under kDropNewest a batch that TryEnqueue accepted is only ever lost to make
\* room for a sentinel: at most one per call of InjectFlush, whatever the
\* producers and the consumer do in between.
LossOnlyToFlush ==
    ~dropOldest => stats.dropped + stats.enqueued <= offered + flushes

\* head_ and tail_ are loaded at different times, head_ first; a thread that
\* is about to raise the flag saw a fill level that the queue really had.
RaiseJustified ==
    \A t \in Threads : pc[t] = "raise" => fill[t] > HighMark

Quiet == \A t \in Threads : pc[t] = "idle"

\* source_plugin.h:53: active=false means that backpressure is over and the
\* source may go back to its normal rate.  Between calls of Enqueue the source
\* must have been told what the pipeline recorded last.
SourceToldLast == Quiet => told = lastBp
=============================================================================
