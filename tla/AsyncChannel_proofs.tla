------------------------- MODULE AsyncChannel_proofs -------------------------
(***************************************************************************)
(* Proofs about AsyncChannel for every finite set of producers, flushers   *)
(* and consumers, every capacity and watermarks, and both drop policies:   *)
(* the channel's books balance, kDropNewest loses accepted batches only to *)
(* sentinels, and the watermark flag is raised only for a fill level the   *)
(* queue really had.                                                       *)
(***************************************************************************)
EXTENDS AsyncChannel, FiniteSetTheorems, SequenceTheorems, TLAPS

\* The number of threads of T whose label, as given by f, is in L.
Num(f, T, L) == Cardinality({t \in T : f[t] \in L})

\* Cells claimed and not taken yet are the elements of the queue.
Counters == head = tail + Len(items)

\* Only the threads that push get to the labels of a push.
Roles ==
    \A t \in Consumers :
        pc[t] \notin {"push", "publish", "evict", "evicted", "push_again"}

\* The head_ a thread loaded is no further ahead of tail_, which only grows,
\* than the queue was filled at that moment.
HeadSeen ==
    \A t \in Threads : pc[t] = "size_tail" => h[t] <= tail + fill[t]

\* Under kDropNewest only InjectFlush makes room.
NewestKeepsRoom ==
    ~dropOldest =>
        \A t \in Producers : pc[t] \notin {"evict", "evicted", "push_again"}

\* A call that may still accept or drop a batch is paid for when it begins.
Paid ==
    ~dropOldest =>
        stats.dropped + stats.enqueued
            + Num(pc, Producers, {"push", "publish"})
            + Num(pc, Flushers, {"push", "evict", "evicted"})
        <= offered + flushes

ChannelInv ==
    /\ ChannelSound /\ Counters /\ Roles
    /\ HeadSeen /\ RaiseJustified
    /\ NewestKeepsRoom /\ Paid

StatFields ==
    {"enqueued", "dropped", "dequeued", "flush_injected", "backpressure_events"}

-----------------------------------------------------------------------------
(* Counting threads by their labels *)

\* There are finitely many threads of each role.
LEMMA RolesAreFinite ==
    /\ IsFiniteSet(Threads) /\ IsFiniteSet(Producers)
    /\ IsFiniteSet(Flushers) /\ IsFiniteSet(Consumers)
<1>1. IsFiniteSet(Threads)
  BY ChannelAssumption
<1>2. /\ Producers \in SUBSET Threads /\ Flushers \in SUBSET Threads
      /\ Consumers \in SUBSET Threads
  BY DEF Threads
<1>. QED  BY <1>1, <1>2, FS_Subset

\* The count of threads is a number.
LEMMA NumIsNat ==
    ASSUME NEW f, NEW T, NEW L, IsFiniteSet(T)
    PROVE  Num(f, T, L) \in Nat /\ IsFiniteSet({t \in T : f[t] \in L})
<1>1. {t \in T : f[t] \in L} \in SUBSET T
  OBVIOUS
<1>2. IsFiniteSet({t \in T : f[t] \in L})
  BY <1>1, FS_Subset
<1>. QED  BY <1>2, FS_CardinalityType DEF Num

-----------------------------------------------------------------------------
(* Type correctness *)

\* The constructor sets up an empty channel.
LEMMA ChannelTypeInit == Init => TypeOK
<1>. SUFFICES ASSUME Init PROVE TypeOK
  OBVIOUS
<1>. USE DEF Init, Queue!Init
<1>1. dropOldest \in BOOLEAN
  BY ChannelAssumption, Zenon
<1>2. backpressured \in BOOLEAN /\ lastBp \in BOOLEAN /\ told \in BOOLEAN
  BY Zenon
<1>3. was \in [Threads -> BOOLEAN] /\ bp \in [Threads -> BOOLEAN]
  BY Zenon
<1>4. items \in Seq(Queue!Item) /\ Len(items) <= Capacity
  BY ChannelAssumption, SMT
<1>5. /\ holding \in [Threads -> Batch \cup {Flush, NoValue}]
      /\ pc \in [Threads -> Labels]
      /\ h \in [Threads -> Nat] /\ fill \in [Threads -> Nat]
  BY SMT DEF Labels
<1>6. stats \in [StatFields -> Nat]
  BY SMT DEF StatFields
<1>7. /\ head \in Nat /\ tail \in Nat
      /\ offered \in 0..MaxOffered /\ flushes \in 0..MaxFlushes
  BY ChannelAssumption, SMT
<1>. QED  BY <1>1, <1>2, <1>3, <1>4, <1>5, <1>6, <1>7 DEF TypeOK, StatFields

\* Bumping a counter keeps the statistics well formed.
LEMMA CountTyped ==
    ASSUME TypeOK, NEW f \in StatFields, Count(f)
    PROVE  /\ stats' \in [StatFields -> Nat]
           /\ stats'[f] = stats[f] + 1
           /\ \A k \in StatFields : k # f => stats'[k] = stats[k]
BY SMT DEF TypeOK, Count, StatFields

\* Going to a label keeps the labels well formed.
LEMMA GotoTyped ==
    ASSUME TypeOK, NEW t \in Threads, NEW l \in Labels, Goto(t, l)
    PROVE  /\ pc' \in [Threads -> Labels]
           /\ \A u \in Threads : pc'[u] = IF u = t THEN l ELSE pc[u]
BY DEF TypeOK, Goto
-----------------------------------------------------------------------------
(* What the queue operations do to the state *)

Payload == Batch \cup {Flush}

\* A claim appends one element and never exceeds the capacity.
LEMMA ClaimFacts ==
    ASSUME TypeOK, NEW t \in Threads, NEW v \in Payload, Queue!Claim(t, v)
    PROVE  /\ items' \in Seq(Queue!Item) /\ Len(items') = Len(items) + 1
           /\ Len(items') <= Capacity /\ holding' = holding
<1>1. IsFiniteSet(Queue!Vacating)
  <2>1. Queue!Vacating \in SUBSET Threads
    BY DEF Queue!Vacating
  <2>. QED  BY <2>1, RolesAreFinite, FS_Subset
<1>2. Cardinality(Queue!Vacating) \in Nat
  BY <1>1, FS_CardinalityType
<1>3. [val |-> v, owner |-> t] \in Queue!Item
  BY DEF Queue!Item, Payload
<1>4. /\ Len(items) \in Nat
      /\ items' \in Seq(Queue!Item) /\ Len(items') = Len(items) + 1
  BY <1>3, SMT DEF TypeOK, Queue!Claim
<1>5. Len(items) + Cardinality(Queue!Vacating) < Capacity
  BY DEF Queue!Claim, Queue!Cardinality, Cardinality
<1>. QED  BY <1>2, <1>4, <1>5, ChannelAssumption, SMT DEF Queue!Claim

\* Publishing changes the owner of one element and no length.
LEMMA PublishFacts ==
    ASSUME TypeOK, NEW t \in Threads, Queue!Publish(t)
    PROVE  /\ items' \in Seq(Queue!Item) /\ Len(items') = Len(items)
           /\ holding' = holding
<1>1. PICK i \in 1..Len(items) :
          /\ items' = [items EXCEPT ![i].owner = NoThread]
          /\ holding' = holding
  BY DEF Queue!Publish
<1>2. items[i] \in Queue!Item
  BY SMT DEF TypeOK
<1>3. [items[i] EXCEPT !.owner = NoThread] \in Queue!Item
  BY <1>2 DEF Queue!Item
<1>4. items' = [items EXCEPT ![i] = [items[i] EXCEPT !.owner = NoThread]]
  BY <1>1
<1>5. items' \in Seq(Queue!Item) /\ Len(items') = Len(items)
  BY <1>3, <1>4, ExceptSeq DEF TypeOK
<1>. QED  BY <1>1, <1>5

\* Taking removes the oldest element.
LEMMA TakeFacts ==
    ASSUME TypeOK, NEW t \in Threads, Queue!Take(t)
    PROVE  /\ items' \in Seq(Queue!Item) /\ Len(items') = Len(items) - 1
           /\ Len(items) \in Nat /\ Len(items) >= 1
           /\ Len(items') <= Capacity
           /\ holding' \in [Threads -> Batch \cup {Flush, NoValue}]
<1>1. /\ Head(items) \in Queue!Item
      /\ items' \in Seq(Queue!Item) /\ Len(items') = Len(items) - 1
      /\ Len(items) \in Nat /\ Len(items) >= 1
  BY SMT DEF TypeOK, Queue!Take
<1>2. Head(items).val \in Batch \cup {Flush}
  BY <1>1 DEF Queue!Item
<1>3. holding' \in [Threads -> Batch \cup {Flush, NoValue}]
  BY <1>2 DEF TypeOK, Queue!Take
<1>. QED  BY <1>1, <1>3, ChannelAssumption, SMT DEF TypeOK

\* Vacating the slot leaves the queue alone.
LEMMA ReleaseFacts ==
    ASSUME TypeOK, NEW t \in Threads, Queue!Release(t)
    PROVE  /\ items' = items
           /\ holding' \in [Threads -> Batch \cup {Flush, NoValue}]
BY DEF TypeOK, Queue!Release

\* Every step keeps the state well formed.
LEMMA ChannelTypeStep ==
    ASSUME TypeOK, NEW t \in Threads,
           \/ EnqueueBegin(t) \/ FlushBegin(t)
           \/ PushClaim(t) \/ PushPublish(t) \/ PushFull(t)
           \/ EvictTake(t) \/ EvictRelease(t) \/ EvictNothing(t)
           \/ PushAgainFull(t)
           \/ DequeueTake(t) \/ DequeueRelease(t) \/ DequeueNothing(t)
           \/ UpdateLoadWas(t) \/ UpdateLoadHead(t) \/ UpdateLoadTail(t)
           \/ UpdateRaise(t) \/ UpdateClear(t)
           \/ EnqueueLoadBp(t) \/ EnqueueCompare(t)
           \/ EnqueueStore(t) \/ EnqueueTell(t)
    PROVE  TypeOK'
<1>. USE DEF queueVars, flagVars, localVars, callVars
<1>. DEFINE PcOK == pc' \in [Threads -> Labels]
            StatsOK == stats' \in [StatFields -> Nat]
<1>l. \A l \in Labels : Goto(t, l) => PcOK
  BY GotoTyped
<1>s. \A f \in StatFields : Count(f) => StatsOK
  BY CountTyped
<1>u. UNCHANGED stats => StatsOK
  BY DEF TypeOK, StatFields
<1>v. UNCHANGED pc => PcOK
  BY DEF TypeOK
<1>n. Len(items) \in Nat /\ head \in Nat /\ tail \in Nat
  BY DEF TypeOK
<1>1. CASE EnqueueBegin(t)
  <2>. USE <1>1 DEF EnqueueBegin
  <2>1. PcOK
    BY <1>l DEF Labels
  <2>2. offered' \in 0..MaxOffered
    BY ChannelAssumption, SMT DEF TypeOK
  <2>. QED  BY <2>1, <2>2 DEF TypeOK
<1>2. CASE FlushBegin(t)
  <2>. USE <1>2 DEF FlushBegin
  <2>1. PcOK
    BY <1>l DEF Labels
  <2>2. flushes' \in 0..MaxFlushes
    BY ChannelAssumption, SMT DEF TypeOK
  <2>. QED  BY <2>1, <2>2 DEF TypeOK
<1>3. CASE PushClaim(t)
  <2>. USE <1>3 DEF PushClaim
  <2>1. PcOK
    BY <1>l DEF Labels
  <2>2. PICK v \in Payload : Queue!Claim(t, v)
    BY DEF Pushed, Payload
  <2>3. /\ items' \in Seq(Queue!Item) /\ Len(items') <= Capacity
        /\ holding' = holding
    BY <2>2, ClaimFacts
  <2>4. head' \in Nat
    BY <1>n, SMT
  <2>. QED  BY <2>1, <2>3, <2>4 DEF TypeOK
<1>4. CASE PushPublish(t)
  <2>. USE <1>4 DEF PushPublish
  <2>1. PcOK
    BY <1>l DEF Labels
  <2>2. StatsOK
    BY <1>s DEF StatFields
  <2>3. /\ items' \in Seq(Queue!Item) /\ Len(items') = Len(items)
        /\ holding' = holding
    BY PublishFacts
  <2>. QED  BY <2>1, <2>2, <2>3 DEF TypeOK, StatFields
<1>5. CASE PushFull(t) \/ EvictNothing(t) \/ PushAgainFull(t)
  <2>. USE <1>5 DEF PushFull, EvictNothing, PushAgainFull, Queue!FailPush, Queue!FailPop
  <2>1. PcOK
    BY <1>l DEF Labels
  <2>2. StatsOK
    BY <1>s, <1>u DEF StatFields
  <2>. QED  BY <2>1, <2>2 DEF TypeOK, StatFields
<1>6. CASE EvictTake(t) \/ DequeueTake(t)
  <2>. USE <1>6 DEF EvictTake, DequeueTake
  <2>1. PcOK
    BY <1>l DEF Labels
  <2>2. /\ items' \in Seq(Queue!Item) /\ Len(items') <= Capacity
        /\ holding' \in [Threads -> Batch \cup {Flush, NoValue}]
    BY TakeFacts
  <2>3. tail' \in Nat
    BY <1>n, SMT
  <2>. QED  BY <2>1, <2>2, <2>3 DEF TypeOK
<1>7. CASE EvictRelease(t) \/ DequeueRelease(t)
  <2>. USE <1>7 DEF EvictRelease, DequeueRelease
  <2>1. PcOK
    BY <1>l DEF Labels
  <2>2. StatsOK
    BY <1>s DEF StatFields
  <2>3. items' = items /\ holding' \in [Threads -> Batch \cup {Flush, NoValue}]
    BY ReleaseFacts
  <2>. QED  BY <2>1, <2>2, <2>3 DEF TypeOK, StatFields
<1>8. CASE DequeueNothing(t)
  BY <1>8 DEF DequeueNothing, Queue!FailPop, TypeOK
<1>9. CASE UpdateLoadWas(t)
  <2>. USE <1>9 DEF UpdateLoadWas, Queue!Begin
  <2>1. PcOK
    BY <1>l DEF Labels
  <2>2. was' \in [Threads -> BOOLEAN]
    BY Zenon DEF TypeOK
  <2>. QED  BY <2>1, <2>2 DEF TypeOK
<1>10. CASE UpdateLoadHead(t)
  <2>. USE <1>10 DEF UpdateLoadHead
  <2>1. PcOK
    BY <1>l DEF Labels
  <2>2. h' \in [Threads -> Nat] /\ fill' \in [Threads -> Nat]
    BY <1>n, SMT DEF TypeOK
  <2>. QED  BY <2>1, <2>2 DEF TypeOK
<1>11. CASE UpdateLoadTail(t)
  <2>. USE <1>11 DEF UpdateLoadTail
  <2>1. PcOK
    BY <1>l DEF Labels, AfterUpdate
  <2>2. was' \in [Threads -> BOOLEAN]
    BY Zenon DEF TypeOK
  <2>3. h' \in [Threads -> Nat]
    BY SMT DEF TypeOK
  <2>4. fill' \in [Threads -> Nat]
    BY SMT DEF TypeOK
  <2>. QED  BY <2>1, <2>2, <2>3, <2>4 DEF TypeOK
<1>12. CASE UpdateRaise(t)
  <2>. USE <1>12 DEF UpdateRaise
  <2>1. PcOK
    BY <1>l DEF Labels, AfterUpdate
  <2>2. StatsOK
    BY <1>s, <1>u DEF StatFields
  <2>3. backpressured' \in BOOLEAN
    BY Zenon
  <2>4. fill' \in [Threads -> Nat]
    BY SMT DEF TypeOK
  <2>. QED  BY <2>1, <2>2, <2>3, <2>4 DEF TypeOK, StatFields
<1>13. CASE UpdateClear(t)
  <2>. USE <1>13 DEF UpdateClear
  <2>1. PcOK
    BY <1>l DEF Labels, AfterUpdate
  <2>2. backpressured' \in BOOLEAN
    BY Zenon
  <2>. QED  BY <2>1, <2>2 DEF TypeOK
<1>14. CASE EnqueueLoadBp(t) \/ EnqueueCompare(t)
  <2>. USE <1>14 DEF EnqueueLoadBp, EnqueueCompare
  <2>1. PcOK
    BY <1>l DEF Labels
  <2>2. bp' \in [Threads -> BOOLEAN]
    BY Zenon DEF TypeOK
  <2>. QED  BY <2>1, <2>2 DEF TypeOK
<1>15. CASE EnqueueStore(t)
  <2>. USE <1>15 DEF EnqueueStore
  <2>1. PcOK
    BY <1>l DEF Labels
  <2>2. lastBp' \in BOOLEAN
    BY Zenon DEF TypeOK
  <2>. QED  BY <2>1, <2>2 DEF TypeOK
<1>16. CASE EnqueueTell(t)
  <2>. USE <1>16 DEF EnqueueTell
  <2>1. PcOK
    BY <1>l DEF Labels
  <2>2. told' \in BOOLEAN /\ bp' \in [Threads -> BOOLEAN]
    BY Zenon DEF TypeOK
  <2>. QED  BY <2>1, <2>2 DEF TypeOK
<1>. QED  BY <1>1, <1>2, <1>3, <1>4, <1>5, <1>6, <1>7, <1>8, <1>9, <1>10,
             <1>11, <1>12, <1>13, <1>14, <1>15, <1>16
-----------------------------------------------------------------------------
(* The books: how many threads are at which point of a call *)

Publishing(f) == Num(f, Flushers, {"publish"})
Offering(f)   == Num(f, Producers, {"push", "evict", "evicted", "push_again"})
Carrying(f)   == Num(f, Threads, {"evicted", "taken"})
Accepting(f)  == Num(f, Producers, {"push", "publish"})
Flushing(f)   == Num(f, Flushers, {"push", "evict", "evicted"})

One(b) == IF b THEN 1 ELSE 0

\* The properties, in terms of these counts.
LEMMA BooksUnfold ==
    /\ Accounted <=>
          offered + stats["flush_injected"] + Publishing(pc)
            = stats["dequeued"] + stats["dropped"] + Len(items)
              + Offering(pc) + Carrying(pc)
    /\ Paid <=>
          (~dropOldest => stats["dropped"] + stats["enqueued"] + Accepting(pc)
                            + Flushing(pc) <= offered + flushes)
BY DEF Accounted, At, Num, Paid, Publishing, Offering, Carrying, Accepting, Flushing

\* The same in the next state.
LEMMA BooksUnfoldNext ==
    /\ Accounted' <=>
          offered' + stats'["flush_injected"] + Publishing(pc')
            = stats'["dequeued"] + stats'["dropped"] + Len(items')
              + Offering(pc') + Carrying(pc')
    /\ Paid' <=>
          (~dropOldest' => stats'["dropped"] + stats'["enqueued"] + Accepting(pc')
                             + Flushing(pc') <= offered' + flushes')
BY DEF Accounted, At, Num, Paid, Publishing, Offering, Carrying, Accepting, Flushing

\* The counts are numbers.
LEMMA BooksAreNat ==
    /\ Publishing(pc) \in Nat /\ Offering(pc) \in Nat /\ Carrying(pc) \in Nat
    /\ Accepting(pc) \in Nat /\ Flushing(pc) \in Nat
BY RolesAreFinite, NumIsNat DEF Publishing, Offering, Carrying, Accepting, Flushing

\* A thread that goes from one label to another is counted where it is.
LEMMA NumStep ==
    ASSUME TypeOK, NEW t \in Threads, NEW l \in Labels, Goto(t, l),
           NEW T \in SUBSET Threads, NEW L
    PROVE  Num(pc', T, L) = Num(pc, T, L) + One(t \in T /\ l \in L)
                                          - One(t \in T /\ pc[t] \in L)
<1>. DEFINE A == {u \in T : pc[u] \in L}
            B == {u \in T : pc'[u] \in L}
<1>0. IsFiniteSet(T)
  BY RolesAreFinite, FS_Subset
<1>1. /\ IsFiniteSet(A) /\ Cardinality(A) \in Nat
      /\ Num(pc, T, L) = Cardinality(A) /\ Num(pc', T, L) = Cardinality(B)
  BY <1>0, NumIsNat DEF Num
<1>2. \A u \in T : pc'[u] = IF u = t THEN l ELSE pc[u]
  BY GotoTyped
<1>3. CASE t \in T /\ l \in L /\ pc[t] \notin L
  <2>1. B = A \cup {t} /\ t \notin A
    BY <1>2, <1>3
  <2>2. Cardinality(B) = Cardinality(A) + 1
    BY <1>1, <2>1, FS_AddElement
  <2>. HIDE DEF A, B
  <2>. QED  BY <1>1, <1>3, <2>2, SMT DEF One
<1>4. CASE t \in T /\ l \notin L /\ pc[t] \in L
  <2>0. t \in A /\ (\A u : u \in B <=> u \in A /\ u # t)
    BY <1>2, <1>4
  <2>. HIDE DEF A, B
  <2>1. t \in A /\ B = A \ {t}
    BY <2>0
  <2>2. Cardinality(B) = Cardinality(A) - 1
    BY <1>1, <2>1, FS_RemoveElement
  <2>. QED  BY <1>1, <1>4, <2>2, SMT DEF One
<1>5. CASE t \notin T \/ (l \in L /\ pc[t] \in L) \/ (l \notin L /\ pc[t] \notin L)
  <2>1. B = A
    BY <1>2, <1>5
  <2>. HIDE DEF A, B
  <2>. QED  BY <1>1, <1>5, <2>1, SMT DEF One
<1>. QED  BY <1>3, <1>4, <1>5

\* The counts after thread t went to label l.
LEMMA BooksStep ==
    ASSUME TypeOK, NEW t \in Threads, NEW l \in Labels, Goto(t, l)
    PROVE  /\ Publishing(pc') = Publishing(pc)
                + One(t \in Flushers /\ l = "publish")
                - One(t \in Flushers /\ pc[t] = "publish")
           /\ Offering(pc') = Offering(pc)
                + One(t \in Producers /\ l \in {"push", "evict", "evicted", "push_again"})
                - One(t \in Producers /\ pc[t] \in {"push", "evict", "evicted", "push_again"})
           /\ Carrying(pc') = Carrying(pc)
                + One(l \in {"evicted", "taken"})
                - One(pc[t] \in {"evicted", "taken"})
           /\ Accepting(pc') = Accepting(pc)
                + One(t \in Producers /\ l \in {"push", "publish"})
                - One(t \in Producers /\ pc[t] \in {"push", "publish"})
           /\ Flushing(pc') = Flushing(pc)
                + One(t \in Flushers /\ l \in {"push", "evict", "evicted"})
                - One(t \in Flushers /\ pc[t] \in {"push", "evict", "evicted"})
<1>1. /\ Producers \in SUBSET Threads /\ Flushers \in SUBSET Threads
      /\ Threads \in SUBSET Threads
  BY DEF Threads
<1>2. pc \in [Threads -> Labels] /\ pc' = [pc EXCEPT ![t] = l]
  BY DEF TypeOK, Goto
<1>3. \A T \in SUBSET Threads : \A L :
          Num(pc', T, L) = Num(pc, T, L) + One(t \in T /\ l \in L)
                                         - One(t \in T /\ pc[t] \in L)
  BY NumStep
<1>4. Publishing(pc') = Publishing(pc) + One(t \in Flushers /\ l \in {"publish"})
                          - One(t \in Flushers /\ pc[t] \in {"publish"})
  BY <1>1, <1>3 DEF Publishing
<1>5. Carrying(pc') = Carrying(pc)
          + One(t \in Threads /\ l \in {"evicted", "taken"})
          - One(t \in Threads /\ pc[t] \in {"evicted", "taken"})
  BY <1>1, <1>3 DEF Carrying
<1>6. Publishing(pc') = Publishing(pc) + One(t \in Flushers /\ l = "publish")
                          - One(t \in Flushers /\ pc[t] = "publish")
  BY <1>4 DEF One
<1>7. Carrying(pc') = Carrying(pc) + One(l \in {"evicted", "taken"})
                                   - One(pc[t] \in {"evicted", "taken"})
  BY <1>5 DEF One
<1>8. Offering(pc') = Offering(pc)
          + One(t \in Producers /\ l \in {"push", "evict", "evicted", "push_again"})
          - One(t \in Producers /\ pc[t] \in {"push", "evict", "evicted", "push_again"})
  BY <1>1, <1>3 DEF Offering
<1>9. Accepting(pc') = Accepting(pc)
          + One(t \in Producers /\ l \in {"push", "publish"})
          - One(t \in Producers /\ pc[t] \in {"push", "publish"})
  BY <1>1, <1>3 DEF Accepting
<1>10. Flushing(pc') = Flushing(pc)
          + One(t \in Flushers /\ l \in {"push", "evict", "evicted"})
          - One(t \in Flushers /\ pc[t] \in {"push", "evict", "evicted"})
  BY <1>1, <1>3 DEF Flushing
<1>. QED  BY <1>6, <1>7, <1>8, <1>9, <1>10
-----------------------------------------------------------------------------
(* The inductive step *)

Books == Accounted /\ Paid
Shape == Counters /\ Roles /\ NewestKeepsRoom

\* The numbers of the books.
LEMMA ChannelNumbers ==
    ASSUME TypeOK
    PROVE  /\ Len(items) \in Nat /\ head \in Nat /\ tail \in Nat
           /\ offered \in Nat /\ flushes \in Nat
           /\ stats["enqueued"] \in Nat /\ stats["dropped"] \in Nat
           /\ stats["dequeued"] \in Nat /\ stats["flush_injected"] \in Nat
<1>1. MaxOffered \in Nat /\ MaxFlushes \in Nat
  BY ChannelAssumption
<1>. QED  BY <1>1, SMT DEF TypeOK

\* A thread has one role.
LEMMA WhoIsWho ==
    ASSUME NEW t \in Threads
    PROVE  \/ t \in Producers /\ t \notin Flushers /\ t \notin Consumers
           \/ t \in Flushers /\ t \notin Producers /\ t \notin Consumers
           \/ t \in Consumers /\ t \notin Flushers /\ t \notin Producers
BY ChannelAssumption DEF Threads

\* Labels of UpdateBackpressure and of the rest of Pipeline::Enqueue.
Neutral ==
    {"idle", "was", "size_head", "size_tail", "raise", "clear",
     "load_bp", "compare", "store", "tell"}

\* A step between these labels leaves the books and the roles alone.
LEMMA NeutralStep ==
    ASSUME TypeOK, Books, Shape, NEW t \in Threads, NEW l \in Neutral,
           pc[t] \in Neutral, Goto(t, l),
           items' = items, head' = head, tail' = tail,
           dropOldest' = dropOldest, offered' = offered, flushes' = flushes,
           \A k \in StatFields : k # "backpressure_events" => stats'[k] = stats[k]
    PROVE  Books' /\ Shape'
<1>1. l \in Labels
  BY DEF Neutral, Labels
<1>2. \A u \in Threads : pc'[u] = IF u = t THEN l ELSE pc[u]
  BY <1>1, GotoTyped
<1>3. /\ Publishing(pc') = Publishing(pc) /\ Offering(pc') = Offering(pc)
      /\ Carrying(pc') = Carrying(pc) /\ Accepting(pc') = Accepting(pc)
      /\ Flushing(pc') = Flushing(pc)
  BY <1>1, BooksStep, BooksAreNat, SMT DEF Neutral, One
<1>4. /\ stats'["flush_injected"] = stats["flush_injected"]
      /\ stats'["dequeued"] = stats["dequeued"]
      /\ stats'["dropped"] = stats["dropped"]
      /\ stats'["enqueued"] = stats["enqueued"]
  BY DEF StatFields
<1>5. Books'
  BY <1>3, <1>4, BooksUnfold, BooksUnfoldNext DEF Books
<1>6. Shape'
  <2>1. Counters'
    BY DEF Shape, Counters
  <2>2. Roles'
    BY <1>2, RolesAreFinite DEF Shape, Roles, Neutral, Threads
  <2>3. NewestKeepsRoom'
    BY <1>2 DEF Shape, NewestKeepsRoom, Neutral, Threads
  <2>. QED  BY <2>1, <2>2, <2>3 DEF Shape
<1>. QED  BY <1>5, <1>6

\* The books and the roles survive every step of a push or a pop.
LEMMA QueueStep ==
    ASSUME TypeOK, Books, Shape, NEW t \in Threads,
           \/ EnqueueBegin(t) \/ FlushBegin(t)
           \/ PushClaim(t) \/ PushPublish(t) \/ PushFull(t) \/ PushAgainFull(t)
           \/ EvictTake(t) \/ EvictRelease(t) \/ EvictNothing(t)
           \/ DequeueTake(t) \/ DequeueRelease(t)
    PROVE  Books' /\ Shape'
<1>0. PICK o \in Nat, fl \in Nat, L \in Nat, en \in Nat, dr \in Nat, de \in Nat,
           fi \in Nat, P \in Nat, O \in Nat, C \in Nat, A \in Nat, F \in Nat :
        /\ o = offered /\ fl = flushes /\ L = Len(items)
        /\ en = stats["enqueued"] /\ dr = stats["dropped"]
        /\ de = stats["dequeued"] /\ fi = stats["flush_injected"]
        /\ P = Publishing(pc) /\ O = Offering(pc) /\ C = Carrying(pc)
        /\ A = Accepting(pc) /\ F = Flushing(pc)
  BY ChannelNumbers, BooksAreNat
<1>b. \A l \in Labels : Goto(t, l) =>
        /\ Publishing(pc') = P + One(t \in Flushers /\ l = "publish")
                              - One(t \in Flushers /\ pc[t] = "publish")
        /\ Offering(pc') = O
             + One(t \in Producers /\ l \in {"push", "evict", "evicted", "push_again"})
             - One(t \in Producers /\ pc[t] \in {"push", "evict", "evicted", "push_again"})
        /\ Carrying(pc') = C + One(l \in {"evicted", "taken"})
                            - One(pc[t] \in {"evicted", "taken"})
        /\ Accepting(pc') = A
             + One(t \in Producers /\ l \in {"push", "publish"})
             - One(t \in Producers /\ pc[t] \in {"push", "publish"})
        /\ Flushing(pc') = F
             + One(t \in Flushers /\ l \in {"push", "evict", "evicted"})
             - One(t \in Flushers /\ pc[t] \in {"push", "evict", "evicted"})
  BY <1>0, BooksStep
<1>a. o + fi + P = de + dr + L + O + C
  BY <1>0, BooksUnfold DEF Books
<1>p. ~dropOldest => dr + en + A + F <= o + fl
  BY <1>0, BooksUnfold DEF Books
<1>w. pc[t] \in {"push", "publish", "evict", "evicted", "push_again"} =>
        /\ t \in Producers \/ t \in Flushers
        /\ ~dropOldest /\ t \in Producers =>
               pc[t] \notin {"evict", "evicted", "push_again"}
  BY WhoIsWho DEF Shape, Roles, NewestKeepsRoom
<1>g. \A l \in Labels : Goto(t, l) =>
          \A u \in Threads : pc'[u] = IF u = t THEN l ELSE pc[u]
  BY GotoTyped
<1>c. PushClaim(t) => Len(items') = Len(items) + 1
  <2>. HAVE PushClaim(t)
  <2>1. PICK v \in Payload : Queue!Claim(t, v)
    BY DEF PushClaim, Pushed, Payload
  <2>. QED  BY <2>1, ClaimFacts
<1>1. CASE EnqueueBegin(t)
  <2>1. Goto(t, "push") /\ "push" \in Labels
    BY <1>1 DEF Labels, EnqueueBegin
  <2>2. /\ t \in Producers /\ t \notin Flushers /\ t \notin Consumers
        /\ pc[t] = "idle"
        /\ offered' = offered + 1 /\ flushes' = flushes /\ dropOldest' = dropOldest
        /\ head' = head /\ tail' = tail
        /\ items' = items
        /\ stats' = stats
    BY <1>1, <1>w, WhoIsWho
       DEF EnqueueBegin, queueVars
  <2>3. /\ Publishing(pc') = P /\ Offering(pc') = O + 1 /\ Carrying(pc') = C
        /\ Accepting(pc') = A + 1 /\ Flushing(pc') = F
    BY <1>b, <2>1, <2>2, SMT DEF One
  <2>4. /\ stats'["flush_injected"] = fi /\ stats'["dequeued"] = de
        /\ stats'["dropped"] = dr /\ stats'["enqueued"] = en
        /\ offered' = o + 1 /\ flushes' = fl /\ Len(items') = L
    BY <1>0, <2>2 DEF StatFields
  <2>5. Accounted'
    <3>1. (o + 1) + fi + P = de + dr + L + (O + 1) + C
      BY <1>a, SMT
    <3>. QED  BY <2>3, <2>4, <3>1, BooksUnfoldNext
  <2>6. Paid'
    <3>1. ~dropOldest => dr + en + (A + 1) + F <= (o + 1) + fl
      BY <1>p, SMT
    <3>. QED  BY <2>2, <2>3, <2>4, <3>1, BooksUnfoldNext
  <2>7. Counters'
    BY <2>2, ChannelNumbers, SMT DEF Shape, Counters
  <2>8. Roles' /\ NewestKeepsRoom'
    BY <2>1, <2>2, <1>g DEF Shape, Roles, NewestKeepsRoom, Threads
  <2>. QED  BY <2>5, <2>6, <2>7, <2>8 DEF Books, Shape
<1>2. CASE FlushBegin(t)
  <2>1. Goto(t, "push") /\ "push" \in Labels
    BY <1>2 DEF Labels, FlushBegin
  <2>2. /\ t \in Flushers /\ t \notin Producers /\ t \notin Consumers
        /\ pc[t] = "idle"
        /\ offered' = offered /\ flushes' = flushes + 1 /\ dropOldest' = dropOldest
        /\ head' = head /\ tail' = tail
        /\ items' = items
        /\ stats' = stats
    BY <1>2, <1>w, WhoIsWho
       DEF FlushBegin, queueVars
  <2>3. /\ Publishing(pc') = P /\ Offering(pc') = O /\ Carrying(pc') = C
        /\ Accepting(pc') = A /\ Flushing(pc') = F + 1
    BY <1>b, <2>1, <2>2, SMT DEF One
  <2>4. /\ stats'["flush_injected"] = fi /\ stats'["dequeued"] = de
        /\ stats'["dropped"] = dr /\ stats'["enqueued"] = en
        /\ offered' = o /\ flushes' = fl + 1 /\ Len(items') = L
    BY <1>0, <2>2 DEF StatFields
  <2>5. Accounted'
    <3>1. o + fi + P = de + dr + L + O + C
      BY <1>a, SMT
    <3>. QED  BY <2>3, <2>4, <3>1, BooksUnfoldNext
  <2>6. Paid'
    <3>1. ~dropOldest => dr + en + A + (F + 1) <= o + (fl + 1)
      BY <1>p, SMT
    <3>. QED  BY <2>2, <2>3, <2>4, <3>1, BooksUnfoldNext
  <2>7. Counters'
    BY <2>2, ChannelNumbers, SMT DEF Shape, Counters
  <2>8. Roles' /\ NewestKeepsRoom'
    BY <2>1, <2>2, <1>g DEF Shape, Roles, NewestKeepsRoom, Threads
  <2>. QED  BY <2>5, <2>6, <2>7, <2>8 DEF Books, Shape
<1>3. CASE PushClaim(t) /\ t \in Producers /\ pc[t] = "push"
  <2>1. Goto(t, "publish") /\ "publish" \in Labels
    BY <1>3 DEF Labels, PushClaim
  <2>2. /\ t \in Producers /\ t \notin Flushers /\ t \notin Consumers
        /\ pc[t] = "push"
        /\ offered' = offered /\ flushes' = flushes /\ dropOldest' = dropOldest
        /\ head' = head + 1 /\ tail' = tail
        /\ Len(items') = Len(items) + 1
        /\ stats' = stats
    BY <1>3, <1>w, WhoIsWho, <1>c
       DEF PushClaim, callVars
  <2>3. /\ Publishing(pc') = P /\ Offering(pc') = O - 1 /\ Carrying(pc') = C
        /\ Accepting(pc') = A /\ Flushing(pc') = F
    BY <1>b, <2>1, <2>2, SMT DEF One
  <2>4. /\ stats'["flush_injected"] = fi /\ stats'["dequeued"] = de
        /\ stats'["dropped"] = dr /\ stats'["enqueued"] = en
        /\ offered' = o /\ flushes' = fl /\ Len(items') = L + 1
    BY <1>0, <2>2 DEF StatFields
  <2>5. Accounted'
    <3>1. o + fi + P = de + dr + (L + 1) + (O - 1) + C
      BY <1>a, SMT
    <3>. QED  BY <2>3, <2>4, <3>1, BooksUnfoldNext
  <2>6. Paid'
    <3>1. ~dropOldest => dr + en + A + F <= o + fl
      BY <1>p, SMT
    <3>. QED  BY <2>2, <2>3, <2>4, <3>1, BooksUnfoldNext
  <2>7. Counters'
    BY <2>2, ChannelNumbers, SMT DEF Shape, Counters
  <2>8. Roles' /\ NewestKeepsRoom'
    BY <2>1, <2>2, <1>g DEF Shape, Roles, NewestKeepsRoom, Threads
  <2>. QED  BY <2>5, <2>6, <2>7, <2>8 DEF Books, Shape
<1>4. CASE PushClaim(t) /\ t \in Producers /\ pc[t] = "push_again"
  <2>1. Goto(t, "publish") /\ "publish" \in Labels
    BY <1>4 DEF Labels, PushClaim
  <2>2. /\ t \in Producers /\ t \notin Flushers /\ t \notin Consumers
        /\ pc[t] = "push_again" /\ dropOldest
        /\ offered' = offered /\ flushes' = flushes /\ dropOldest' = dropOldest
        /\ head' = head + 1 /\ tail' = tail
        /\ Len(items') = Len(items) + 1
        /\ stats' = stats
    BY <1>4, <1>w, WhoIsWho, <1>c
       DEF PushClaim, callVars
  <2>3. /\ Publishing(pc') = P /\ Offering(pc') = O - 1 /\ Carrying(pc') = C
    BY <1>b, <2>1, <2>2, SMT DEF One
  <2>4. /\ stats'["flush_injected"] = fi /\ stats'["dequeued"] = de
        /\ stats'["dropped"] = dr /\ stats'["enqueued"] = en
        /\ offered' = o /\ flushes' = fl /\ Len(items') = L + 1
    BY <1>0, <2>2 DEF StatFields
  <2>5. Accounted'
    <3>1. o + fi + P = de + dr + (L + 1) + (O - 1) + C
      BY <1>a, SMT
    <3>. QED  BY <2>3, <2>4, <3>1, BooksUnfoldNext
  <2>6. Paid'
    BY <2>2, BooksUnfoldNext
  <2>7. Counters'
    BY <2>2, ChannelNumbers, SMT DEF Shape, Counters
  <2>8. Roles' /\ NewestKeepsRoom'
    BY <2>1, <2>2, <1>g DEF Shape, Roles, NewestKeepsRoom, Threads
  <2>. QED  BY <2>5, <2>6, <2>7, <2>8 DEF Books, Shape
<1>5. CASE PushClaim(t) /\ t \notin Producers /\ pc[t] = "push"
  <2>1. Goto(t, "publish") /\ "publish" \in Labels
    BY <1>5 DEF Labels, PushClaim
  <2>2. /\ t \in Flushers /\ t \notin Producers /\ t \notin Consumers
        /\ pc[t] = "push"
        /\ offered' = offered /\ flushes' = flushes /\ dropOldest' = dropOldest
        /\ head' = head + 1 /\ tail' = tail
        /\ Len(items') = Len(items) + 1
        /\ stats' = stats
    BY <1>5, <1>w, WhoIsWho, <1>c
       DEF PushClaim, callVars
  <2>3. /\ Publishing(pc') = P + 1 /\ Offering(pc') = O /\ Carrying(pc') = C
        /\ Accepting(pc') = A /\ Flushing(pc') = F - 1
    BY <1>b, <2>1, <2>2, SMT DEF One
  <2>4. /\ stats'["flush_injected"] = fi /\ stats'["dequeued"] = de
        /\ stats'["dropped"] = dr /\ stats'["enqueued"] = en
        /\ offered' = o /\ flushes' = fl /\ Len(items') = L + 1
    BY <1>0, <2>2 DEF StatFields
  <2>5. Accounted'
    <3>1. o + fi + (P + 1) = de + dr + (L + 1) + O + C
      BY <1>a, SMT
    <3>. QED  BY <2>3, <2>4, <3>1, BooksUnfoldNext
  <2>6. Paid'
    <3>1. ~dropOldest => dr + en + A + (F - 1) <= o + fl
      BY <1>p, SMT
    <3>. QED  BY <2>2, <2>3, <2>4, <3>1, BooksUnfoldNext
  <2>7. Counters'
    BY <2>2, ChannelNumbers, SMT DEF Shape, Counters
  <2>8. Roles' /\ NewestKeepsRoom'
    BY <2>1, <2>2, <1>g DEF Shape, Roles, NewestKeepsRoom, Threads
  <2>. QED  BY <2>5, <2>6, <2>7, <2>8 DEF Books, Shape
<1>6. CASE PushClaim(t) /\ t \notin Producers /\ pc[t] = "push_again"
  <2>1. Goto(t, "publish") /\ "publish" \in Labels
    BY <1>6 DEF Labels, PushClaim
  <2>2. /\ t \in Flushers /\ t \notin Producers /\ t \notin Consumers
        /\ pc[t] = "push_again"
        /\ offered' = offered /\ flushes' = flushes /\ dropOldest' = dropOldest
        /\ head' = head + 1 /\ tail' = tail
        /\ Len(items') = Len(items) + 1
        /\ stats' = stats
    BY <1>6, <1>w, WhoIsWho, <1>c
       DEF PushClaim, callVars
  <2>3. /\ Publishing(pc') = P + 1 /\ Offering(pc') = O /\ Carrying(pc') = C
        /\ Accepting(pc') = A /\ Flushing(pc') = F
    BY <1>b, <2>1, <2>2, SMT DEF One
  <2>4. /\ stats'["flush_injected"] = fi /\ stats'["dequeued"] = de
        /\ stats'["dropped"] = dr /\ stats'["enqueued"] = en
        /\ offered' = o /\ flushes' = fl /\ Len(items') = L + 1
    BY <1>0, <2>2 DEF StatFields
  <2>5. Accounted'
    <3>1. o + fi + (P + 1) = de + dr + (L + 1) + O + C
      BY <1>a, SMT
    <3>. QED  BY <2>3, <2>4, <3>1, BooksUnfoldNext
  <2>6. Paid'
    <3>1. ~dropOldest => dr + en + A + F <= o + fl
      BY <1>p, SMT
    <3>. QED  BY <2>2, <2>3, <2>4, <3>1, BooksUnfoldNext
  <2>7. Counters'
    BY <2>2, ChannelNumbers, SMT DEF Shape, Counters
  <2>8. Roles' /\ NewestKeepsRoom'
    BY <2>1, <2>2, <1>g DEF Shape, Roles, NewestKeepsRoom, Threads
  <2>. QED  BY <2>5, <2>6, <2>7, <2>8 DEF Books, Shape
<1>7. CASE PushPublish(t) /\ t \in Flushers
  <2>1. Goto(t, "idle") /\ "idle" \in Labels
    BY <1>7 DEF Labels, PushPublish
  <2>2. /\ t \in Flushers /\ t \notin Producers /\ t \notin Consumers
        /\ pc[t] = "publish"
        /\ offered' = offered /\ flushes' = flushes /\ dropOldest' = dropOldest
        /\ head' = head /\ tail' = tail
        /\ Len(items') = Len(items)
        /\ Count("flush_injected")
    BY <1>7, <1>w, WhoIsWho, PublishFacts
       DEF PushPublish, callVars
  <2>3. /\ Publishing(pc') = P - 1 /\ Offering(pc') = O /\ Carrying(pc') = C
        /\ Accepting(pc') = A /\ Flushing(pc') = F
    BY <1>b, <2>1, <2>2, SMT DEF One
  <2>4. /\ stats'["flush_injected"] = fi + 1 /\ stats'["dequeued"] = de
        /\ stats'["dropped"] = dr /\ stats'["enqueued"] = en
        /\ offered' = o /\ flushes' = fl /\ Len(items') = L
    BY <1>0, <2>2, CountTyped DEF StatFields
  <2>5. Accounted'
    <3>1. o + (fi + 1) + (P - 1) = de + dr + L + O + C
      BY <1>a, SMT
    <3>. QED  BY <2>3, <2>4, <3>1, BooksUnfoldNext
  <2>6. Paid'
    <3>1. ~dropOldest => dr + en + A + F <= o + fl
      BY <1>p, SMT
    <3>. QED  BY <2>2, <2>3, <2>4, <3>1, BooksUnfoldNext
  <2>7. Counters'
    BY <2>2, ChannelNumbers, SMT DEF Shape, Counters
  <2>8. Roles' /\ NewestKeepsRoom'
    BY <2>1, <2>2, <1>g DEF Shape, Roles, NewestKeepsRoom, Threads
  <2>. QED  BY <2>5, <2>6, <2>7, <2>8 DEF Books, Shape
<1>8. CASE PushPublish(t) /\ t \notin Flushers
  <2>1. Goto(t, "was") /\ "was" \in Labels
    BY <1>8 DEF Labels, PushPublish
  <2>2. /\ t \in Producers /\ t \notin Flushers /\ t \notin Consumers
        /\ pc[t] = "publish"
        /\ offered' = offered /\ flushes' = flushes /\ dropOldest' = dropOldest
        /\ head' = head /\ tail' = tail
        /\ Len(items') = Len(items)
        /\ Count("enqueued")
    BY <1>8, <1>w, WhoIsWho, PublishFacts
       DEF PushPublish, callVars
  <2>3. /\ Publishing(pc') = P /\ Offering(pc') = O /\ Carrying(pc') = C
        /\ Accepting(pc') = A - 1 /\ Flushing(pc') = F
    BY <1>b, <2>1, <2>2, SMT DEF One
  <2>4. /\ stats'["flush_injected"] = fi /\ stats'["dequeued"] = de
        /\ stats'["dropped"] = dr /\ stats'["enqueued"] = en + 1
        /\ offered' = o /\ flushes' = fl /\ Len(items') = L
    BY <1>0, <2>2, CountTyped DEF StatFields
  <2>5. Accounted'
    <3>1. o + fi + P = de + dr + L + O + C
      BY <1>a, SMT
    <3>. QED  BY <2>3, <2>4, <3>1, BooksUnfoldNext
  <2>6. Paid'
    <3>1. ~dropOldest => dr + (en + 1) + (A - 1) + F <= o + fl
      BY <1>p, SMT
    <3>. QED  BY <2>2, <2>3, <2>4, <3>1, BooksUnfoldNext
  <2>7. Counters'
    BY <2>2, ChannelNumbers, SMT DEF Shape, Counters
  <2>8. Roles' /\ NewestKeepsRoom'
    BY <2>1, <2>2, <1>g DEF Shape, Roles, NewestKeepsRoom, Threads
  <2>. QED  BY <2>5, <2>6, <2>7, <2>8 DEF Books, Shape
<1>9. CASE PushFull(t) /\ t \in Flushers
  <2>1. Goto(t, "evict") /\ "evict" \in Labels
    BY <1>9 DEF Labels, PushFull
  <2>2. /\ t \in Flushers /\ t \notin Producers /\ t \notin Consumers
        /\ pc[t] = "push"
        /\ offered' = offered /\ flushes' = flushes /\ dropOldest' = dropOldest
        /\ head' = head /\ tail' = tail
        /\ items' = items
        /\ stats' = stats
    BY <1>9, <1>w, WhoIsWho
       DEF PushFull, callVars, Queue!FailPush
  <2>3. /\ Publishing(pc') = P /\ Offering(pc') = O /\ Carrying(pc') = C
        /\ Accepting(pc') = A /\ Flushing(pc') = F
    BY <1>b, <2>1, <2>2, SMT DEF One
  <2>4. /\ stats'["flush_injected"] = fi /\ stats'["dequeued"] = de
        /\ stats'["dropped"] = dr /\ stats'["enqueued"] = en
        /\ offered' = o /\ flushes' = fl /\ Len(items') = L
    BY <1>0, <2>2 DEF StatFields
  <2>5. Accounted'
    <3>1. o + fi + P = de + dr + L + O + C
      BY <1>a, SMT
    <3>. QED  BY <2>3, <2>4, <3>1, BooksUnfoldNext
  <2>6. Paid'
    <3>1. ~dropOldest => dr + en + A + F <= o + fl
      BY <1>p, SMT
    <3>. QED  BY <2>2, <2>3, <2>4, <3>1, BooksUnfoldNext
  <2>7. Counters'
    BY <2>2, ChannelNumbers, SMT DEF Shape, Counters
  <2>8. Roles' /\ NewestKeepsRoom'
    BY <2>1, <2>2, <1>g DEF Shape, Roles, NewestKeepsRoom, Threads
  <2>. QED  BY <2>5, <2>6, <2>7, <2>8 DEF Books, Shape
<1>10. CASE PushFull(t) /\ t \notin Flushers /\ dropOldest
  <2>1. Goto(t, "evict") /\ "evict" \in Labels
    BY <1>10 DEF Labels, PushFull
  <2>2. /\ t \in Producers /\ t \notin Flushers /\ t \notin Consumers
        /\ pc[t] = "push" /\ dropOldest
        /\ offered' = offered /\ flushes' = flushes /\ dropOldest' = dropOldest
        /\ head' = head /\ tail' = tail
        /\ items' = items
        /\ stats' = stats
    BY <1>10, <1>w, WhoIsWho
       DEF PushFull, callVars, Queue!FailPush
  <2>3. /\ Publishing(pc') = P /\ Offering(pc') = O /\ Carrying(pc') = C
    BY <1>b, <2>1, <2>2, SMT DEF One
  <2>4. /\ stats'["flush_injected"] = fi /\ stats'["dequeued"] = de
        /\ stats'["dropped"] = dr /\ stats'["enqueued"] = en
        /\ offered' = o /\ flushes' = fl /\ Len(items') = L
    BY <1>0, <2>2 DEF StatFields
  <2>5. Accounted'
    <3>1. o + fi + P = de + dr + L + O + C
      BY <1>a, SMT
    <3>. QED  BY <2>3, <2>4, <3>1, BooksUnfoldNext
  <2>6. Paid'
    BY <2>2, BooksUnfoldNext
  <2>7. Counters'
    BY <2>2, ChannelNumbers, SMT DEF Shape, Counters
  <2>8. Roles' /\ NewestKeepsRoom'
    BY <2>1, <2>2, <1>g DEF Shape, Roles, NewestKeepsRoom, Threads
  <2>. QED  BY <2>5, <2>6, <2>7, <2>8 DEF Books, Shape
<1>11. CASE PushFull(t) /\ t \notin Flushers /\ ~dropOldest
  <2>1. Goto(t, "was") /\ "was" \in Labels
    BY <1>11 DEF Labels, PushFull
  <2>2. /\ t \in Producers /\ t \notin Flushers /\ t \notin Consumers
        /\ pc[t] = "push"
        /\ offered' = offered /\ flushes' = flushes /\ dropOldest' = dropOldest
        /\ head' = head /\ tail' = tail
        /\ items' = items
        /\ Count("dropped")
    BY <1>11, <1>w, WhoIsWho
       DEF PushFull, callVars, Queue!FailPush
  <2>3. /\ Publishing(pc') = P /\ Offering(pc') = O - 1 /\ Carrying(pc') = C
        /\ Accepting(pc') = A - 1 /\ Flushing(pc') = F
    BY <1>b, <2>1, <2>2, SMT DEF One
  <2>4. /\ stats'["flush_injected"] = fi /\ stats'["dequeued"] = de
        /\ stats'["dropped"] = dr + 1 /\ stats'["enqueued"] = en
        /\ offered' = o /\ flushes' = fl /\ Len(items') = L
    BY <1>0, <2>2, CountTyped DEF StatFields
  <2>5. Accounted'
    <3>1. o + fi + P = de + (dr + 1) + L + (O - 1) + C
      BY <1>a, SMT
    <3>. QED  BY <2>3, <2>4, <3>1, BooksUnfoldNext
  <2>6. Paid'
    <3>1. ~dropOldest => (dr + 1) + en + (A - 1) + F <= o + fl
      BY <1>p, SMT
    <3>. QED  BY <2>2, <2>3, <2>4, <3>1, BooksUnfoldNext
  <2>7. Counters'
    BY <2>2, ChannelNumbers, SMT DEF Shape, Counters
  <2>8. Roles' /\ NewestKeepsRoom'
    BY <2>1, <2>2, <1>g DEF Shape, Roles, NewestKeepsRoom, Threads
  <2>. QED  BY <2>5, <2>6, <2>7, <2>8 DEF Books, Shape
<1>12. CASE PushAgainFull(t) /\ t \in Flushers
  <2>1. Goto(t, "idle") /\ "idle" \in Labels
    BY <1>12 DEF Labels, PushAgainFull
  <2>2. /\ t \in Flushers /\ t \notin Producers /\ t \notin Consumers
        /\ pc[t] = "push_again"
        /\ offered' = offered /\ flushes' = flushes /\ dropOldest' = dropOldest
        /\ head' = head /\ tail' = tail
        /\ items' = items
        /\ stats' = stats
    BY <1>12, <1>w, WhoIsWho
       DEF PushAgainFull, callVars, Queue!FailPush
  <2>3. /\ Publishing(pc') = P /\ Offering(pc') = O /\ Carrying(pc') = C
        /\ Accepting(pc') = A /\ Flushing(pc') = F
    BY <1>b, <2>1, <2>2, SMT DEF One
  <2>4. /\ stats'["flush_injected"] = fi /\ stats'["dequeued"] = de
        /\ stats'["dropped"] = dr /\ stats'["enqueued"] = en
        /\ offered' = o /\ flushes' = fl /\ Len(items') = L
    BY <1>0, <2>2 DEF StatFields
  <2>5. Accounted'
    <3>1. o + fi + P = de + dr + L + O + C
      BY <1>a, SMT
    <3>. QED  BY <2>3, <2>4, <3>1, BooksUnfoldNext
  <2>6. Paid'
    <3>1. ~dropOldest => dr + en + A + F <= o + fl
      BY <1>p, SMT
    <3>. QED  BY <2>2, <2>3, <2>4, <3>1, BooksUnfoldNext
  <2>7. Counters'
    BY <2>2, ChannelNumbers, SMT DEF Shape, Counters
  <2>8. Roles' /\ NewestKeepsRoom'
    BY <2>1, <2>2, <1>g DEF Shape, Roles, NewestKeepsRoom, Threads
  <2>. QED  BY <2>5, <2>6, <2>7, <2>8 DEF Books, Shape
<1>13. CASE PushAgainFull(t) /\ t \notin Flushers
  <2>1. Goto(t, "was") /\ "was" \in Labels
    BY <1>13 DEF Labels, PushAgainFull
  <2>2. /\ t \in Producers /\ t \notin Flushers /\ t \notin Consumers
        /\ pc[t] = "push_again" /\ dropOldest
        /\ offered' = offered /\ flushes' = flushes /\ dropOldest' = dropOldest
        /\ head' = head /\ tail' = tail
        /\ items' = items
        /\ Count("dropped")
    BY <1>13, <1>w, WhoIsWho
       DEF PushAgainFull, callVars, Queue!FailPush
  <2>3. /\ Publishing(pc') = P /\ Offering(pc') = O - 1 /\ Carrying(pc') = C
    BY <1>b, <2>1, <2>2, SMT DEF One
  <2>4. /\ stats'["flush_injected"] = fi /\ stats'["dequeued"] = de
        /\ stats'["dropped"] = dr + 1 /\ stats'["enqueued"] = en
        /\ offered' = o /\ flushes' = fl /\ Len(items') = L
    BY <1>0, <2>2, CountTyped DEF StatFields
  <2>5. Accounted'
    <3>1. o + fi + P = de + (dr + 1) + L + (O - 1) + C
      BY <1>a, SMT
    <3>. QED  BY <2>3, <2>4, <3>1, BooksUnfoldNext
  <2>6. Paid'
    BY <2>2, BooksUnfoldNext
  <2>7. Counters'
    BY <2>2, ChannelNumbers, SMT DEF Shape, Counters
  <2>8. Roles' /\ NewestKeepsRoom'
    BY <2>1, <2>2, <1>g DEF Shape, Roles, NewestKeepsRoom, Threads
  <2>. QED  BY <2>5, <2>6, <2>7, <2>8 DEF Books, Shape
<1>14. CASE EvictTake(t) /\ t \in Flushers
  <2>1. Goto(t, "evicted") /\ "evicted" \in Labels
    BY <1>14 DEF Labels, EvictTake
  <2>2. /\ t \in Flushers /\ t \notin Producers /\ t \notin Consumers
        /\ pc[t] = "evict"
        /\ offered' = offered /\ flushes' = flushes /\ dropOldest' = dropOldest
        /\ head' = head /\ tail' = tail + 1
        /\ Len(items') = Len(items) - 1 /\ Len(items) \in Nat
        /\ stats' = stats
    BY <1>14, <1>w, WhoIsWho, TakeFacts
       DEF EvictTake, callVars
  <2>3. /\ Publishing(pc') = P /\ Offering(pc') = O /\ Carrying(pc') = C + 1
        /\ Accepting(pc') = A /\ Flushing(pc') = F
    BY <1>b, <2>1, <2>2, SMT DEF One
  <2>4. /\ stats'["flush_injected"] = fi /\ stats'["dequeued"] = de
        /\ stats'["dropped"] = dr /\ stats'["enqueued"] = en
        /\ offered' = o /\ flushes' = fl /\ Len(items') = L - 1
    BY <1>0, <2>2 DEF StatFields
  <2>5. Accounted'
    <3>1. o + fi + P = de + dr + (L - 1) + O + (C + 1)
      BY <1>a, SMT
    <3>. QED  BY <2>3, <2>4, <3>1, BooksUnfoldNext
  <2>6. Paid'
    <3>1. ~dropOldest => dr + en + A + F <= o + fl
      BY <1>p, SMT
    <3>. QED  BY <2>2, <2>3, <2>4, <3>1, BooksUnfoldNext
  <2>7. Counters'
    BY <2>2, ChannelNumbers, SMT DEF Shape, Counters
  <2>8. Roles' /\ NewestKeepsRoom'
    BY <2>1, <2>2, <1>g DEF Shape, Roles, NewestKeepsRoom, Threads
  <2>. QED  BY <2>5, <2>6, <2>7, <2>8 DEF Books, Shape
<1>15. CASE EvictTake(t) /\ t \notin Flushers
  <2>1. Goto(t, "evicted") /\ "evicted" \in Labels
    BY <1>15 DEF Labels, EvictTake
  <2>2. /\ t \in Producers /\ t \notin Flushers /\ t \notin Consumers
        /\ pc[t] = "evict" /\ dropOldest
        /\ offered' = offered /\ flushes' = flushes /\ dropOldest' = dropOldest
        /\ head' = head /\ tail' = tail + 1
        /\ Len(items') = Len(items) - 1 /\ Len(items) \in Nat
        /\ stats' = stats
    BY <1>15, <1>w, WhoIsWho, TakeFacts
       DEF EvictTake, callVars
  <2>3. /\ Publishing(pc') = P /\ Offering(pc') = O /\ Carrying(pc') = C + 1
    BY <1>b, <2>1, <2>2, SMT DEF One
  <2>4. /\ stats'["flush_injected"] = fi /\ stats'["dequeued"] = de
        /\ stats'["dropped"] = dr /\ stats'["enqueued"] = en
        /\ offered' = o /\ flushes' = fl /\ Len(items') = L - 1
    BY <1>0, <2>2 DEF StatFields
  <2>5. Accounted'
    <3>1. o + fi + P = de + dr + (L - 1) + O + (C + 1)
      BY <1>a, SMT
    <3>. QED  BY <2>3, <2>4, <3>1, BooksUnfoldNext
  <2>6. Paid'
    BY <2>2, BooksUnfoldNext
  <2>7. Counters'
    BY <2>2, ChannelNumbers, SMT DEF Shape, Counters
  <2>8. Roles' /\ NewestKeepsRoom'
    BY <2>1, <2>2, <1>g DEF Shape, Roles, NewestKeepsRoom, Threads
  <2>. QED  BY <2>5, <2>6, <2>7, <2>8 DEF Books, Shape
<1>16. CASE EvictRelease(t) /\ t \in Flushers
  <2>1. Goto(t, "push_again") /\ "push_again" \in Labels
    BY <1>16 DEF Labels, EvictRelease
  <2>2. /\ t \in Flushers /\ t \notin Producers /\ t \notin Consumers
        /\ pc[t] = "evicted"
        /\ offered' = offered /\ flushes' = flushes /\ dropOldest' = dropOldest
        /\ head' = head /\ tail' = tail
        /\ items' = items
        /\ Count("dropped")
    BY <1>16, <1>w, WhoIsWho, ReleaseFacts
       DEF EvictRelease, callVars
  <2>3. /\ Publishing(pc') = P /\ Offering(pc') = O /\ Carrying(pc') = C - 1
        /\ Accepting(pc') = A /\ Flushing(pc') = F - 1
    BY <1>b, <2>1, <2>2, SMT DEF One
  <2>4. /\ stats'["flush_injected"] = fi /\ stats'["dequeued"] = de
        /\ stats'["dropped"] = dr + 1 /\ stats'["enqueued"] = en
        /\ offered' = o /\ flushes' = fl /\ Len(items') = L
    BY <1>0, <2>2, CountTyped DEF StatFields
  <2>5. Accounted'
    <3>1. o + fi + P = de + (dr + 1) + L + O + (C - 1)
      BY <1>a, SMT
    <3>. QED  BY <2>3, <2>4, <3>1, BooksUnfoldNext
  <2>6. Paid'
    <3>1. ~dropOldest => (dr + 1) + en + A + (F - 1) <= o + fl
      BY <1>p, SMT
    <3>. QED  BY <2>2, <2>3, <2>4, <3>1, BooksUnfoldNext
  <2>7. Counters'
    BY <2>2, ChannelNumbers, SMT DEF Shape, Counters
  <2>8. Roles' /\ NewestKeepsRoom'
    BY <2>1, <2>2, <1>g DEF Shape, Roles, NewestKeepsRoom, Threads
  <2>. QED  BY <2>5, <2>6, <2>7, <2>8 DEF Books, Shape
<1>17. CASE EvictRelease(t) /\ t \notin Flushers
  <2>1. Goto(t, "push_again") /\ "push_again" \in Labels
    BY <1>17 DEF Labels, EvictRelease
  <2>2. /\ t \in Producers /\ t \notin Flushers /\ t \notin Consumers
        /\ pc[t] = "evicted" /\ dropOldest
        /\ offered' = offered /\ flushes' = flushes /\ dropOldest' = dropOldest
        /\ head' = head /\ tail' = tail
        /\ items' = items
        /\ Count("dropped")
    BY <1>17, <1>w, WhoIsWho, ReleaseFacts
       DEF EvictRelease, callVars
  <2>3. /\ Publishing(pc') = P /\ Offering(pc') = O /\ Carrying(pc') = C - 1
    BY <1>b, <2>1, <2>2, SMT DEF One
  <2>4. /\ stats'["flush_injected"] = fi /\ stats'["dequeued"] = de
        /\ stats'["dropped"] = dr + 1 /\ stats'["enqueued"] = en
        /\ offered' = o /\ flushes' = fl /\ Len(items') = L
    BY <1>0, <2>2, CountTyped DEF StatFields
  <2>5. Accounted'
    <3>1. o + fi + P = de + (dr + 1) + L + O + (C - 1)
      BY <1>a, SMT
    <3>. QED  BY <2>3, <2>4, <3>1, BooksUnfoldNext
  <2>6. Paid'
    BY <2>2, BooksUnfoldNext
  <2>7. Counters'
    BY <2>2, ChannelNumbers, SMT DEF Shape, Counters
  <2>8. Roles' /\ NewestKeepsRoom'
    BY <2>1, <2>2, <1>g DEF Shape, Roles, NewestKeepsRoom, Threads
  <2>. QED  BY <2>5, <2>6, <2>7, <2>8 DEF Books, Shape
<1>18. CASE EvictNothing(t) /\ t \in Flushers
  <2>1. Goto(t, "push_again") /\ "push_again" \in Labels
    BY <1>18 DEF Labels, EvictNothing
  <2>2. /\ t \in Flushers /\ t \notin Producers /\ t \notin Consumers
        /\ pc[t] = "evict"
        /\ offered' = offered /\ flushes' = flushes /\ dropOldest' = dropOldest
        /\ head' = head /\ tail' = tail
        /\ items' = items
        /\ stats' = stats
    BY <1>18, <1>w, WhoIsWho
       DEF EvictNothing, callVars, Queue!FailPop
  <2>3. /\ Publishing(pc') = P /\ Offering(pc') = O /\ Carrying(pc') = C
        /\ Accepting(pc') = A /\ Flushing(pc') = F - 1
    BY <1>b, <2>1, <2>2, SMT DEF One
  <2>4. /\ stats'["flush_injected"] = fi /\ stats'["dequeued"] = de
        /\ stats'["dropped"] = dr /\ stats'["enqueued"] = en
        /\ offered' = o /\ flushes' = fl /\ Len(items') = L
    BY <1>0, <2>2 DEF StatFields
  <2>5. Accounted'
    <3>1. o + fi + P = de + dr + L + O + C
      BY <1>a, SMT
    <3>. QED  BY <2>3, <2>4, <3>1, BooksUnfoldNext
  <2>6. Paid'
    <3>1. ~dropOldest => dr + en + A + (F - 1) <= o + fl
      BY <1>p, SMT
    <3>. QED  BY <2>2, <2>3, <2>4, <3>1, BooksUnfoldNext
  <2>7. Counters'
    BY <2>2, ChannelNumbers, SMT DEF Shape, Counters
  <2>8. Roles' /\ NewestKeepsRoom'
    BY <2>1, <2>2, <1>g DEF Shape, Roles, NewestKeepsRoom, Threads
  <2>. QED  BY <2>5, <2>6, <2>7, <2>8 DEF Books, Shape
<1>19. CASE EvictNothing(t) /\ t \notin Flushers
  <2>1. Goto(t, "push_again") /\ "push_again" \in Labels
    BY <1>19 DEF Labels, EvictNothing
  <2>2. /\ t \in Producers /\ t \notin Flushers /\ t \notin Consumers
        /\ pc[t] = "evict" /\ dropOldest
        /\ offered' = offered /\ flushes' = flushes /\ dropOldest' = dropOldest
        /\ head' = head /\ tail' = tail
        /\ items' = items
        /\ stats' = stats
    BY <1>19, <1>w, WhoIsWho
       DEF EvictNothing, callVars, Queue!FailPop
  <2>3. /\ Publishing(pc') = P /\ Offering(pc') = O /\ Carrying(pc') = C
    BY <1>b, <2>1, <2>2, SMT DEF One
  <2>4. /\ stats'["flush_injected"] = fi /\ stats'["dequeued"] = de
        /\ stats'["dropped"] = dr /\ stats'["enqueued"] = en
        /\ offered' = o /\ flushes' = fl /\ Len(items') = L
    BY <1>0, <2>2 DEF StatFields
  <2>5. Accounted'
    <3>1. o + fi + P = de + dr + L + O + C
      BY <1>a, SMT
    <3>. QED  BY <2>3, <2>4, <3>1, BooksUnfoldNext
  <2>6. Paid'
    BY <2>2, BooksUnfoldNext
  <2>7. Counters'
    BY <2>2, ChannelNumbers, SMT DEF Shape, Counters
  <2>8. Roles' /\ NewestKeepsRoom'
    BY <2>1, <2>2, <1>g DEF Shape, Roles, NewestKeepsRoom, Threads
  <2>. QED  BY <2>5, <2>6, <2>7, <2>8 DEF Books, Shape
<1>20. CASE DequeueTake(t)
  <2>1. Goto(t, "taken") /\ "taken" \in Labels
    BY <1>20 DEF Labels, DequeueTake
  <2>2. /\ t \in Consumers /\ t \notin Producers /\ t \notin Flushers
        /\ pc[t] = "idle"
        /\ offered' = offered /\ flushes' = flushes /\ dropOldest' = dropOldest
        /\ head' = head /\ tail' = tail + 1
        /\ Len(items') = Len(items) - 1 /\ Len(items) \in Nat
        /\ stats' = stats
    BY <1>20, <1>w, WhoIsWho, TakeFacts
       DEF DequeueTake, callVars
  <2>3. /\ Publishing(pc') = P /\ Offering(pc') = O /\ Carrying(pc') = C + 1
        /\ Accepting(pc') = A /\ Flushing(pc') = F
    BY <1>b, <2>1, <2>2, SMT DEF One
  <2>4. /\ stats'["flush_injected"] = fi /\ stats'["dequeued"] = de
        /\ stats'["dropped"] = dr /\ stats'["enqueued"] = en
        /\ offered' = o /\ flushes' = fl /\ Len(items') = L - 1
    BY <1>0, <2>2 DEF StatFields
  <2>5. Accounted'
    <3>1. o + fi + P = de + dr + (L - 1) + O + (C + 1)
      BY <1>a, SMT
    <3>. QED  BY <2>3, <2>4, <3>1, BooksUnfoldNext
  <2>6. Paid'
    <3>1. ~dropOldest => dr + en + A + F <= o + fl
      BY <1>p, SMT
    <3>. QED  BY <2>2, <2>3, <2>4, <3>1, BooksUnfoldNext
  <2>7. Counters'
    BY <2>2, ChannelNumbers, SMT DEF Shape, Counters
  <2>8. Roles' /\ NewestKeepsRoom'
    BY <2>1, <2>2, <1>g DEF Shape, Roles, NewestKeepsRoom, Threads
  <2>. QED  BY <2>5, <2>6, <2>7, <2>8 DEF Books, Shape
<1>21. CASE DequeueRelease(t)
  <2>1. Goto(t, "was") /\ "was" \in Labels
    BY <1>21 DEF Labels, DequeueRelease
  <2>2. /\ pc[t] = "taken"
        /\ offered' = offered /\ flushes' = flushes /\ dropOldest' = dropOldest
        /\ head' = head /\ tail' = tail
        /\ items' = items
        /\ Count("dequeued")
    BY <1>21, <1>w, WhoIsWho, ReleaseFacts
       DEF DequeueRelease, callVars
  <2>3. /\ Publishing(pc') = P /\ Offering(pc') = O /\ Carrying(pc') = C - 1
        /\ Accepting(pc') = A /\ Flushing(pc') = F
    BY <1>b, <2>1, <2>2, SMT DEF One
  <2>4. /\ stats'["flush_injected"] = fi /\ stats'["dequeued"] = de + 1
        /\ stats'["dropped"] = dr /\ stats'["enqueued"] = en
        /\ offered' = o /\ flushes' = fl /\ Len(items') = L
    BY <1>0, <2>2, CountTyped DEF StatFields
  <2>5. Accounted'
    <3>1. o + fi + P = (de + 1) + dr + L + O + (C - 1)
      BY <1>a, SMT
    <3>. QED  BY <2>3, <2>4, <3>1, BooksUnfoldNext
  <2>6. Paid'
    <3>1. ~dropOldest => dr + en + A + F <= o + fl
      BY <1>p, SMT
    <3>. QED  BY <2>2, <2>3, <2>4, <3>1, BooksUnfoldNext
  <2>7. Counters'
    BY <2>2, ChannelNumbers, SMT DEF Shape, Counters
  <2>8. Roles' /\ NewestKeepsRoom'
    BY <2>1, <2>2, <1>g DEF Shape, Roles, NewestKeepsRoom, Threads
  <2>. QED  BY <2>5, <2>6, <2>7, <2>8 DEF Books, Shape
<1>. QED  BY <1>1, <1>2, <1>3, <1>4, <1>5, <1>6, <1>7, <1>8, <1>9, <1>10, <1>11,
             <1>12, <1>13, <1>14, <1>15, <1>16, <1>17, <1>18, <1>19, <1>20, <1>21
             DEF PushClaim

\* Steps of UpdateBackpressure and of the rest of Pipeline::Enqueue, and a pop
\* that finds nothing, leave the books and the roles alone.
LEMMA FlagStep ==
    ASSUME TypeOK, Books, Shape, NEW t \in Threads,
           \/ UpdateLoadWas(t) \/ UpdateLoadHead(t) \/ UpdateLoadTail(t)
           \/ UpdateRaise(t) \/ UpdateClear(t)
           \/ EnqueueLoadBp(t) \/ EnqueueCompare(t)
           \/ EnqueueStore(t) \/ EnqueueTell(t)
    PROVE  Books' /\ Shape'
<1>1. /\ items' = items /\ head' = head /\ tail' = tail
      /\ dropOldest' = dropOldest /\ offered' = offered /\ flushes' = flushes
  BY DEF UpdateLoadWas, UpdateLoadHead, UpdateLoadTail, UpdateRaise, UpdateClear,
         EnqueueLoadBp, EnqueueCompare, EnqueueStore, EnqueueTell,
         Queue!Begin, queueVars, callVars
<1>2. pc[t] \in Neutral
  BY DEF UpdateLoadWas, UpdateLoadHead, UpdateLoadTail, UpdateRaise, UpdateClear,
         EnqueueLoadBp, EnqueueCompare, EnqueueStore, EnqueueTell, Neutral
<1>3. \E l \in Neutral : Goto(t, l)
  BY DEF UpdateLoadWas, UpdateLoadHead, UpdateLoadTail, UpdateRaise, UpdateClear,
         EnqueueLoadBp, EnqueueCompare, EnqueueStore, EnqueueTell, Neutral,
         AfterUpdate
<1>4. stats' = stats \/ Count("backpressure_events")
  BY DEF UpdateLoadWas, UpdateLoadHead, UpdateLoadTail, UpdateRaise, UpdateClear,
         EnqueueLoadBp, EnqueueCompare, EnqueueStore, EnqueueTell
<1>5. \A k \in StatFields : k # "backpressure_events" => stats'[k] = stats[k]
  BY <1>4, CountTyped DEF StatFields
<1>. QED  BY <1>1, <1>2, <1>3, <1>5, NeutralStep

\* A thread outside SizeApprox leaves what the others saw justified: tail_ only
\* grows, and nobody touches another thread's locals.
LEMMA SeenKept ==
    ASSUME TypeOK, HeadSeen, RaiseJustified, NEW t \in Threads, NEW l \in Labels,
           Goto(t, l), l # "size_tail", l # "raise",
           tail' = tail \/ tail' = tail + 1,
           \A u \in Threads : u # t => h'[u] = h[u] /\ fill'[u] = fill[u]
    PROVE  HeadSeen' /\ RaiseJustified'
<1>1. \A u \in Threads : pc'[u] = IF u = t THEN l ELSE pc[u]
  BY GotoTyped
<1>2. HeadSeen'
  <2>. SUFFICES ASSUME NEW u \in Threads, pc'[u] = "size_tail"
       PROVE  h'[u] <= tail' + fill'[u]
    BY DEF HeadSeen
  <2>1. u # t /\ pc[u] = "size_tail"
    BY <1>1
  <2>2. h[u] <= tail + fill[u]
    BY <2>1 DEF HeadSeen
  <2>3. h[u] \in Nat /\ fill[u] \in Nat /\ tail \in Nat
    BY DEF TypeOK
  <2>4. h'[u] = h[u] /\ fill'[u] = fill[u]
    BY <2>1
  <2>. QED  BY <2>2, <2>3, <2>4, SMT
<1>3. RaiseJustified'
  BY <1>1 DEF RaiseJustified
<1>. QED  BY <1>2, <1>3

\* What the threads saw stays justified in every step.
LEMMA SeenStep ==
    ASSUME ChannelInv, NEW t \in Threads,
           \/ EnqueueBegin(t) \/ FlushBegin(t)
           \/ PushClaim(t) \/ PushPublish(t) \/ PushFull(t)
           \/ EvictTake(t) \/ EvictRelease(t) \/ EvictNothing(t)
           \/ PushAgainFull(t)
           \/ DequeueTake(t) \/ DequeueRelease(t) \/ DequeueNothing(t)
           \/ UpdateLoadWas(t) \/ UpdateLoadHead(t) \/ UpdateLoadTail(t)
           \/ UpdateRaise(t) \/ UpdateClear(t)
           \/ EnqueueLoadBp(t) \/ EnqueueCompare(t)
           \/ EnqueueStore(t) \/ EnqueueTell(t)
    PROVE  HeadSeen' /\ RaiseJustified'
<1>0. TypeOK /\ HeadSeen /\ RaiseJustified /\ Counters
  BY DEF ChannelInv, ChannelSound
<1>1. CASE \/ EnqueueBegin(t) \/ FlushBegin(t)
           \/ PushClaim(t) \/ PushPublish(t) \/ PushFull(t) \/ PushAgainFull(t)
  <2>1. h' = h /\ fill' = fill /\ tail' = tail
    BY <1>1 DEF EnqueueBegin, FlushBegin, PushClaim, PushPublish, PushFull,
                PushAgainFull, localVars, queueVars
  <2>2. \E l \in Labels : Goto(t, l) /\ l # "size_tail" /\ l # "raise"
    BY <1>1 DEF EnqueueBegin, FlushBegin, PushClaim, PushPublish, PushFull,
                PushAgainFull, Labels
  <2>. QED  BY <1>0, <2>1, <2>2, SeenKept
<1>2. CASE \/ EvictTake(t) \/ EvictRelease(t) \/ EvictNothing(t)
           \/ DequeueTake(t) \/ DequeueRelease(t)
  <2>1. h' = h /\ fill' = fill /\ (tail' = tail \/ tail' = tail + 1)
    BY <1>2 DEF EvictTake, EvictRelease, EvictNothing, DequeueTake,
                DequeueRelease, localVars
  <2>2. \E l \in Labels : Goto(t, l) /\ l # "size_tail" /\ l # "raise"
    BY <1>2 DEF EvictTake, EvictRelease, EvictNothing, DequeueTake,
                DequeueRelease, Labels
  <2>. QED  BY <1>0, <2>1, <2>2, SeenKept
<1>3. CASE DequeueNothing(t)
  <2>1. h' = h /\ fill' = fill /\ tail' = tail /\ pc' = pc
    BY <1>3 DEF DequeueNothing, localVars
  <2>. QED  BY <1>0, <2>1 DEF HeadSeen, RaiseJustified
<1>4. CASE \/ UpdateLoadWas(t) \/ UpdateClear(t) \/ EnqueueLoadBp(t)
           \/ EnqueueCompare(t) \/ EnqueueStore(t) \/ EnqueueTell(t)
  <2>1. h' = h /\ fill' = fill /\ tail' = tail
    BY <1>4 DEF UpdateLoadWas, UpdateClear, EnqueueLoadBp, EnqueueCompare,
                EnqueueStore, EnqueueTell, localVars, queueVars
  <2>2. \E l \in Labels : Goto(t, l) /\ l # "size_tail" /\ l # "raise"
    BY <1>4 DEF UpdateLoadWas, UpdateClear, EnqueueLoadBp, EnqueueCompare,
                EnqueueStore, EnqueueTell, AfterUpdate, Labels
  <2>. QED  BY <1>0, <2>1, <2>2, SeenKept
<1>5. CASE UpdateLoadHead(t)
  <2>1. /\ \A u \in Threads : pc'[u] = IF u = t THEN "size_tail" ELSE pc[u]
        /\ \A u \in Threads : h'[u] = IF u = t THEN head ELSE h[u]
        /\ \A u \in Threads : fill'[u] = IF u = t THEN Len(items) ELSE fill[u]
        /\ tail' = tail
    BY <1>0, <1>5 DEF UpdateLoadHead, Goto, TypeOK, queueVars
  <2>2. head <= tail + Len(items)
    BY <1>0, ChannelNumbers, SMT DEF Counters
  <2>3. HeadSeen'
    BY <1>0, <2>1, <2>2 DEF HeadSeen
  <2>4. RaiseJustified'
    BY <1>0, <2>1 DEF RaiseJustified
  <2>. QED  BY <2>3, <2>4
<1>6. CASE UpdateLoadTail(t)
  <2>. DEFINE l == CASE ~was[t] /\ SizeSeen(t) > HighMark -> "raise"
                     [] was[t] /\ SizeSeen(t) < LowMark   -> "clear"
                     [] OTHER                             -> AfterUpdate(t)
  <2>1. /\ l \in Labels /\ l # "size_tail"
        /\ l = "raise" => SizeSeen(t) > HighMark
    BY DEF Labels, AfterUpdate
  <2>2. Goto(t, l) /\ tail' = tail
    BY <1>6 DEF UpdateLoadTail, queueVars
  <2>3. /\ \A u \in Threads : u # t => h'[u] = h[u] /\ fill'[u] = fill[u]
        /\ pc'[t] = "raise" => fill' = fill
    BY <1>0, <1>6 DEF UpdateLoadTail, TypeOK
  <2>. HIDE DEF l
  <2>4. CASE l # "raise"
    BY <1>0, <2>1, <2>2, <2>3, <2>4, SeenKept
  <2>5. CASE l = "raise"
    <3>1. \A u \in Threads : pc'[u] = IF u = t THEN "raise" ELSE pc[u]
      BY <1>0, <2>1, <2>2, <2>5, GotoTyped
    <3>2. fill[t] > HighMark
      <4>1. h[t] <= tail + fill[t]
        BY <1>0, <1>6 DEF HeadSeen, UpdateLoadTail
      <4>2. h[t] \in Nat /\ fill[t] \in Nat /\ tail \in Nat /\ HighMark \in Nat
        BY <1>0, ChannelAssumption DEF TypeOK
      <4>3. SizeSeen(t) > HighMark
        BY <2>1, <2>5
      <4>. QED  BY <4>1, <4>2, <4>3, SMT DEF SizeSeen
    <3>3. fill' = fill
      BY <2>3, <3>1
    <3>4. RaiseJustified'
      BY <1>0, <3>1, <3>2, <3>3 DEF RaiseJustified
    <3>5. HeadSeen'
      BY <1>0, <2>2, <2>3, <3>1, <3>3 DEF HeadSeen
    <3>. QED  BY <3>4, <3>5
  <2>. QED  BY <2>4, <2>5
<1>7. CASE UpdateRaise(t)
  <2>1. /\ tail' = tail
        /\ \A u \in Threads : u # t => h'[u] = h[u] /\ fill'[u] = fill[u]
    BY <1>0, <1>7 DEF UpdateRaise, TypeOK, queueVars
  <2>2. \E l \in Labels : Goto(t, l) /\ l # "size_tail" /\ l # "raise"
    BY <1>7 DEF UpdateRaise, AfterUpdate, Labels
  <2>. QED  BY <1>0, <2>1, <2>2, SeenKept
<1>. QED  BY <1>1, <1>2, <1>3, <1>4, <1>5, <1>6, <1>7

\* The constructor establishes the invariant.
LEMMA ChannelInit == Init => ChannelInv
<1>. SUFFICES ASSUME Init PROVE ChannelInv
  OBVIOUS
<1>1. TypeOK
  BY ChannelTypeInit
<1>2. \A t \in Threads : pc[t] = "idle"
  BY DEF Init
<1>3. /\ Publishing(pc) = 0 /\ Offering(pc) = 0 /\ Carrying(pc) = 0
      /\ Accepting(pc) = 0 /\ Flushing(pc) = 0
  <2>1. \A T \in SUBSET Threads : \A L : "idle" \notin L => {t \in T : pc[t] \in L} = {}
    BY <1>2
  <2>2. \A T \in SUBSET Threads : \A L : "idle" \notin L => Num(pc, T, L) = 0
    BY <2>1, FS_EmptySet DEF Num
  <2>3. /\ Producers \in SUBSET Threads /\ Flushers \in SUBSET Threads
        /\ Threads \in SUBSET Threads
    BY DEF Threads
  <2>. QED  BY <2>2, <2>3 DEF Publishing, Offering, Carrying, Accepting, Flushing
<1>4. /\ stats["enqueued"] = 0 /\ stats["dropped"] = 0 /\ stats["dequeued"] = 0
      /\ stats["flush_injected"] = 0 /\ offered = 0 /\ flushes = 0
      /\ head = 0 /\ tail = 0
  BY DEF Init
<1>5. Len(items) = 0
  BY DEF Init, Queue!Init
<1>6. Accounted /\ Paid
  BY <1>3, <1>4, <1>5, BooksUnfold, SMT
<1>7. Counters
  BY <1>4, <1>5, SMT DEF Counters
<1>8. Roles /\ HeadSeen /\ RaiseJustified /\ NewestKeepsRoom
  BY <1>2 DEF Roles, HeadSeen, RaiseJustified, NewestKeepsRoom, Threads
<1>. QED  BY <1>1, <1>6, <1>7, <1>8 DEF ChannelInv, ChannelSound

\* The invariant holds in every reachable state.
THEOREM ChannelInvariant == Spec => []ChannelInv
<1>1. ChannelInv /\ [Next]_vars => ChannelInv'
  <2>. SUFFICES ASSUME ChannelInv, [Next]_vars PROVE ChannelInv'
    OBVIOUS
  <2>1. CASE UNCHANGED vars
    BY <2>1 DEF vars, queueVars, flagVars, localVars, callVars, ChannelInv,
                ChannelSound, TypeOK, Accounted, At, Counters, Roles, HeadSeen,
                RaiseJustified, NewestKeepsRoom, Paid, Num
  <2>2. CASE Next
    <3>0. TypeOK /\ Books /\ Shape
      BY DEF ChannelInv, ChannelSound, Books, Shape
    <3>1. PICK t \in Threads :
              \/ EnqueueBegin(t) \/ FlushBegin(t)
              \/ PushClaim(t) \/ PushPublish(t) \/ PushFull(t)
              \/ EvictTake(t) \/ EvictRelease(t) \/ EvictNothing(t)
              \/ PushAgainFull(t)
              \/ DequeueTake(t) \/ DequeueRelease(t) \/ DequeueNothing(t)
              \/ UpdateLoadWas(t) \/ UpdateLoadHead(t) \/ UpdateLoadTail(t)
              \/ UpdateRaise(t) \/ UpdateClear(t)
              \/ EnqueueLoadBp(t) \/ EnqueueCompare(t)
              \/ EnqueueStore(t) \/ EnqueueTell(t)
      BY <2>2 DEF Next
    <3>2. TypeOK'
      BY <3>0, <3>1, ChannelTypeStep
    <3>3. HeadSeen' /\ RaiseJustified'
      BY <3>1, SeenStep
    <3>4. Books' /\ Shape'
      <4>1. CASE DequeueNothing(t)
        BY <3>0, <4>1 DEF DequeueNothing, Queue!FailPop, callVars, Books, Shape,
             Accounted, At, Paid, Num, Counters, Roles, NewestKeepsRoom
      <4>. QED  BY <3>0, <3>1, <4>1, QueueStep, FlagStep
    <3>. QED  BY <3>2, <3>3, <3>4 DEF ChannelInv, ChannelSound, Books, Shape
  <2>. QED  BY <2>1, <2>2
<1>. QED  BY ChannelInit, <1>1, PTL DEF Spec

\* Whatever the threads do and whatever the policy, no batch vanishes inside
\* AsyncChannel: what was offered is dequeued, counted as dropped, queued, or in
\* the hands of a thread that is inside a call.
THEOREM BooksBalance == Spec => []ChannelSound
<1>1. ChannelInv => ChannelSound
  BY DEF ChannelInv
<1>. QED  BY <1>1, ChannelInvariant, PTL

\* UpdateBackpressure raises the flag only for a fill level above the high
\* watermark that the queue really had, although SizeApprox loads head_ and
\* tail_ one after the other.
THEOREM RaisedForAReason == Spec => []RaiseJustified
<1>1. ChannelInv => RaiseJustified
  BY DEF ChannelInv
<1>. QED  BY <1>1, ChannelInvariant, PTL

\* Under kDropNewest TryEnqueue never loses a batch it accepted, except to the
\* sentinels of InjectFlush, at most one batch per call.
THEOREM NewestDropsOnlyForFlush == Spec => []LossOnlyToFlush
<1>1. ChannelInv => LossOnlyToFlush
  <2>. SUFFICES ASSUME ChannelInv, ~dropOldest
       PROVE  stats.dropped + stats.enqueued <= offered + flushes
    BY DEF LossOnlyToFlush
  <2>1. PICK o \in Nat, fl \in Nat, en \in Nat, dr \in Nat, A \in Nat, F \in Nat :
          /\ o = offered /\ fl = flushes
          /\ en = stats["enqueued"] /\ dr = stats["dropped"]
          /\ A = Accepting(pc) /\ F = Flushing(pc)
    BY ChannelNumbers, BooksAreNat DEF ChannelInv, ChannelSound
  <2>2. dr + en + A + F <= o + fl
    BY <2>1, BooksUnfold DEF ChannelInv
  <2>3. dr + en <= o + fl
    BY <2>2, SMT
  <2>. QED  BY <2>1, <2>3
<1>. QED  BY <1>1, ChannelInvariant, PTL

\* The channel touches queue_ only through its operations: every behaviour of
\* AsyncChannel is one of BoundedFifo, which LockFreeQueue is shown to implement.
THEOREM ChannelDrivesQueue == Spec => Queue!Spec
<1>1. Init => Queue!Init
  BY DEF Init
<1>2. [Next]_vars => [Queue!Next]_(Queue!vars)
  <2>. SUFFICES ASSUME [Next]_vars PROVE Queue!Next \/ UNCHANGED Queue!vars
    OBVIOUS
  <2>1. CASE UNCHANGED vars
    BY <2>1 DEF vars, queueVars, Queue!vars
  <2>2. ASSUME NEW t \in Threads,
               \/ EnqueueBegin(t) \/ FlushBegin(t)
               \/ UpdateLoadHead(t) \/ UpdateLoadTail(t)
               \/ UpdateRaise(t) \/ UpdateClear(t)
               \/ EnqueueLoadBp(t) \/ EnqueueCompare(t)
               \/ EnqueueStore(t) \/ EnqueueTell(t)
        PROVE  UNCHANGED Queue!vars
    BY <2>2 DEF EnqueueBegin, FlushBegin, UpdateLoadHead, UpdateLoadTail,
                UpdateRaise, UpdateClear, EnqueueLoadBp, EnqueueCompare,
                EnqueueStore, EnqueueTell, queueVars, Queue!vars
  <2>3. ASSUME NEW t \in Threads,
               \/ PushPublish(t) \/ PushFull(t) \/ PushAgainFull(t)
               \/ EvictTake(t) \/ EvictRelease(t) \/ EvictNothing(t)
               \/ DequeueTake(t) \/ DequeueRelease(t) \/ DequeueNothing(t)
               \/ UpdateLoadWas(t)
        PROVE  Queue!Next
    <3>1. \/ Queue!Begin(t) \/ Queue!Publish(t) \/ Queue!FailPush(t)
          \/ Queue!Take(t) \/ Queue!Release(t) \/ Queue!FailPop(t)
      BY <2>3 DEF PushPublish, PushFull, PushAgainFull, EvictTake, EvictRelease,
                  EvictNothing, DequeueTake, DequeueRelease, DequeueNothing,
                  UpdateLoadWas
    <3>. QED  BY <3>1 DEF Queue!Next
  <2>4. ASSUME NEW t \in Threads, PushClaim(t) PROVE Queue!Next
    <3>1. \E v \in Batch \cup {Flush} : Queue!Claim(t, v)
      BY <2>4 DEF PushClaim, Pushed
    <3>. QED  BY <3>1 DEF Queue!Next
  <2>. QED  BY <2>1, <2>2, <2>3, <2>4 DEF Next
<1>. QED  BY <1>1, <1>2, PTL DEF Spec, Queue!Spec
=============================================================================
