--------------------------- MODULE LockFreeQueue ---------------------------
(***************************************************************************)
(* core/memory/lock_free_queue.h: the bounded queue every AsyncChannel is  *)
(* built on.  One action per atomic access: the relaxed loads of head_ and *)
(* tail_, the acquire load of a cell's sequence, each compare_exchange,    *)
(* the plain access to the cell's data and the release store that hands    *)
(* the cell over.  Any thread may push, pop or read the size: AsyncChannel *)
(* pops from producer threads too (drop-oldest, InjectFlush).              *)
(*                                                                         *)
(* Positions are unbounded naturals: the 64-bit counters would need 2^64   *)
(* operations to wrap.  MaxPush bounds the exploration.                    *)
(***************************************************************************)
EXTENDS Integers, Sequences, FiniteSets

CONSTANTS Threads, Value, Capacity, NoValue, NoThread,
          MaxPush   \* no push starts once head_ has reached it

ASSUME CapacityAssumption == Capacity \in Nat \ {0}
ASSUME ValueAssumption == NoValue \notin Value /\ NoThread \notin Threads
ASSUME MaxPushAssumption == MaxPush \in Nat

VARIABLES
    head,    \* head_: next position to push
    tail,    \* tail_: next position to pop
    seq,     \* cells_[i].sequence
    data,    \* cells_[i].data
    pc,      \* where each thread is in its operation
    pos,     \* the local pos (in SizeApprox: the local h)
    val,     \* the argument of TryPush, the out parameter of TryPop
    approx,  \* the last result of SizeApprox
    res      \* how the last TryPush or TryPop ended

vars == <<head, tail, seq, data, pc, pos, val, approx, res>>

Cells == 0..(Capacity - 1)

\* pos & mask_
Slot(p) == p % Capacity

PushPC == {"push_load", "push_seq", "push_cas", "write", "publish"}
PopPC  == {"pop_load", "pop_seq", "pop_cas", "read", "release"}
PC     == {"idle", "size_head", "size_tail"} \cup PushPC \cup PopPC

Init ==
    /\ head = 0
    /\ tail = 0
    /\ seq = [i \in Cells |-> i]
    /\ data = [i \in Cells |-> NoValue]
    /\ pc = [t \in Threads |-> "idle"]
    /\ pos = [t \in Threads |-> 0]
    /\ val = [t \in Threads |-> NoValue]
    /\ approx = [t \in Threads |-> 0]
    /\ res = [t \in Threads |-> "none"]

Goto(t, l) == pc' = [pc EXCEPT ![t] = l]

\* A call starts at label l with argument v; a return leaves the outcome r and
\* lets the locals go out of scope.
Call(t, l, v) ==
    /\ pc[t] = "idle"
    /\ Goto(t, l)
    /\ val' = [val EXCEPT ![t] = v]
    /\ approx' = [approx EXCEPT ![t] = 0]
    /\ res' = [res EXCEPT ![t] = "none"]
    /\ UNCHANGED <<head, tail, seq, data, pos>>

Return(t, r) ==
    /\ Goto(t, "idle")
    /\ pos' = [pos EXCEPT ![t] = 0]
    /\ val' = [val EXCEPT ![t] = NoValue]
    /\ res' = [res EXCEPT ![t] = r]

-----------------------------------------------------------------------------
(* TryPush *)

PushBegin(t, v) ==
    /\ head < MaxPush
    /\ Call(t, "push_load", v)

PushLoad(t) ==
    /\ pc[t] = "push_load"
    /\ pos' = [pos EXCEPT ![t] = head]
    /\ Goto(t, "push_seq")
    /\ UNCHANGED <<head, tail, seq, data, val, approx, res>>

\* Mistake: the test for a full queue is missing.
PushSeqNoFullTest(t) ==
    /\ pc[t] = "push_seq"
    /\ Goto(t, IF seq[Slot(pos[t])] > pos[t] THEN "push_load" ELSE "push_cas")
    /\ UNCHANGED <<head, tail, seq, data, pos, val, approx, res>>

\* Mistake: every mismatch of the sequence is answered with "full".
PushSeqMismatchIsFull(t) ==
    /\ pc[t] = "push_seq"
    /\ IF seq[Slot(pos[t])] = pos[t]
       THEN Goto(t, "push_cas") /\ UNCHANGED <<pos, val, res>>
       ELSE Return(t, "full")
    /\ UNCHANGED <<head, tail, seq, data, approx>>

\* Mistake: a full queue is retried instead of reported.
PushSeqSpins(t) ==
    /\ pc[t] = "push_seq"
    /\ Goto(t, IF seq[Slot(pos[t])] = pos[t] THEN "push_cas" ELSE "push_load")
    /\ UNCHANGED <<head, tail, seq, data, pos, val, approx, res>>

\* The acquire load and the three-way test of diff = seq - pos.
PushSeq(t) ==
    /\ pc[t] = "push_seq"
    /\ LET s == seq[Slot(pos[t])] IN
       \/ /\ s = pos[t]
          /\ Goto(t, "push_cas")
          /\ UNCHANGED <<pos, val, res>>
       \/ /\ s < pos[t]
          /\ Return(t, "full")
       \/ /\ s > pos[t]
          /\ Goto(t, "push_load")
          /\ UNCHANGED <<pos, val, res>>
    /\ UNCHANGED <<head, tail, seq, data, approx>>

PushClaim(t) ==
    /\ pc[t] = "push_cas"
    /\ head = pos[t]
    /\ head' = head + 1
    /\ Goto(t, "write")
    /\ UNCHANGED <<tail, seq, data, pos, val, approx, res>>

\* A failed compare_exchange_weak stores the value it saw in pos; it may
\* also fail spuriously, when head_ equals pos.
PushCasFail(t) ==
    /\ pc[t] = "push_cas"
    /\ pos' = [pos EXCEPT ![t] = head]
    /\ Goto(t, "push_seq")
    /\ UNCHANGED <<head, tail, seq, data, val, approx, res>>

PushWrite(t) ==
    /\ pc[t] = "write"
    /\ data' = [data EXCEPT ![Slot(pos[t])] = val[t]]
    /\ Goto(t, "publish")
    /\ UNCHANGED <<head, tail, seq, pos, val, approx, res>>

PushPublish(t) ==
    /\ pc[t] = "publish"
    /\ seq' = [seq EXCEPT ![Slot(pos[t])] = pos[t] + 1]
    /\ Return(t, "pushed")
    /\ UNCHANGED <<head, tail, data, approx>>

-----------------------------------------------------------------------------
(* TryPop *)

PopBegin(t) == Call(t, "pop_load", NoValue)

PopLoad(t) ==
    /\ pc[t] = "pop_load"
    /\ pos' = [pos EXCEPT ![t] = tail]
    /\ Goto(t, "pop_seq")
    /\ UNCHANGED <<head, tail, seq, data, val, approx, res>>

\* The acquire load and the three-way test of diff = seq - (pos + 1).
PopSeq(t) ==
    /\ pc[t] = "pop_seq"
    /\ LET s == seq[Slot(pos[t])] IN
       \/ /\ s = pos[t] + 1
          /\ Goto(t, "pop_cas")
          /\ UNCHANGED <<pos, val, res>>
       \/ /\ s < pos[t] + 1
          /\ Return(t, "empty")
       \/ /\ s > pos[t] + 1
          /\ Goto(t, "pop_load")
          /\ UNCHANGED <<pos, val, res>>
    /\ UNCHANGED <<head, tail, seq, data, approx>>

PopClaim(t) ==
    /\ pc[t] = "pop_cas"
    /\ tail = pos[t]
    /\ tail' = tail + 1
    /\ Goto(t, "read")
    /\ UNCHANGED <<head, seq, data, pos, val, approx, res>>

PopCasFail(t) ==
    /\ pc[t] = "pop_cas"
    /\ pos' = [pos EXCEPT ![t] = tail]
    /\ Goto(t, "pop_seq")
    /\ UNCHANGED <<head, tail, seq, data, val, approx, res>>

\* value = std::move(cell->data): the cell is left moved-from.
PopRead(t) ==
    /\ pc[t] = "read"
    /\ val' = [val EXCEPT ![t] = data[Slot(pos[t])]]
    /\ data' = [data EXCEPT ![Slot(pos[t])] = NoValue]
    /\ Goto(t, "release")
    /\ UNCHANGED <<head, tail, seq, pos, approx, res>>

\* Mistake: the cell is released for the current lap, not for the next one.
PopReleaseSameLap(t) ==
    /\ pc[t] = "release"
    /\ seq' = [seq EXCEPT ![Slot(pos[t])] = pos[t]]
    /\ Return(t, val[t])
    /\ UNCHANGED <<head, tail, data, approx>>

PopRelease(t) ==
    /\ pc[t] = "release"
    /\ seq' = [seq EXCEPT ![Slot(pos[t])] = pos[t] + Capacity]
    /\ Return(t, val[t])
    /\ UNCHANGED <<head, tail, data, approx>>

-----------------------------------------------------------------------------
(* SizeApprox (Empty and both watermark tests call it): two loads, any     *)
(* number of other steps between them.                                     *)

SizeBegin(t) == Call(t, "size_head", NoValue)

SizeLoadHead(t) ==
    /\ pc[t] = "size_head"
    /\ pos' = [pos EXCEPT ![t] = head]
    /\ Goto(t, "size_tail")
    /\ UNCHANGED <<head, tail, seq, data, val, approx, res>>

\* Mistake: the size is taken from the absolute difference of the two loads.
SizeLoadTailAbsolute(t) ==
    /\ pc[t] = "size_tail"
    /\ approx' = [approx EXCEPT ![t] =
                    IF pos[t] >= tail THEN pos[t] - tail ELSE tail - pos[t]]
    /\ Return(t, "none")
    /\ UNCHANGED <<head, tail, seq, data>>

SizeLoadTail(t) ==
    /\ pc[t] = "size_tail"
    /\ approx' = [approx EXCEPT ![t] =
                    IF pos[t] >= tail THEN pos[t] - tail ELSE 0]
    /\ Return(t, "none")
    /\ UNCHANGED <<head, tail, seq, data>>

-----------------------------------------------------------------------------
\* The steps of an operation under way.
Step(t) ==
    \/ PushLoad(t) \/ PushSeq(t) \/ PushClaim(t) \/ PushCasFail(t)
    \/ PushWrite(t) \/ PushPublish(t)
    \/ PopLoad(t) \/ PopSeq(t) \/ PopClaim(t) \/ PopCasFail(t)
    \/ PopRead(t) \/ PopRelease(t)
    \/ SizeLoadHead(t) \/ SizeLoadTail(t)

Start(t) ==
    \/ \E v \in Value : PushBegin(t, v)
    \/ PopBegin(t)
    \/ SizeBegin(t)

Next == \E t \in Threads : Start(t) \/ Step(t)

Spec == Init /\ [][Next]_vars

-----------------------------------------------------------------------------
(* Safety *)

\* Type invariant.
TypeOK ==
    /\ head \in Nat
    /\ tail \in Nat
    /\ seq \in [Cells -> Nat]
    /\ data \in [Cells -> Value \cup {NoValue}]
    /\ pc \in [Threads -> PC]
    /\ pos \in [Threads -> Nat]
    /\ val \in [Threads -> Value \cup {NoValue}]
    /\ approx \in [Threads -> Nat]
    /\ res \in [Threads -> Value \cup {NoValue, "none", "pushed", "full", "empty"}]

\* A thread between its successful compare-and-swap and its release store.
Pushing(t) == pc[t] \in {"write", "publish"}
Popping(t) == pc[t] \in {"read", "release"}
Holds(t)   == Pushing(t) \/ Popping(t)

\* No two threads are ever inside the same cell: data is a plain, non-atomic
\* member that TryPush assigns (line 100) and TryPop moves out of (line 123)
\* with only the sequence protocol to keep them apart.
NoDataRace ==
    \A t, u \in Threads :
        t # u /\ Holds(t) /\ Holds(u) => Slot(pos[t]) # Slot(pos[u])

\* The ring never holds more claimed elements than it has cells, and no
\* position is popped before it was claimed by a push.
BoundedOccupancy == tail <= head /\ head <= tail + Capacity

\* SizeApprox loads head_ and tail_ separately; its answer still never exceeds
\* the capacity, so the watermark tests never see an impossible fill level.
SizeWithinCapacity == \A t \in Threads : approx[t] <= Capacity

-----------------------------------------------------------------------------
(* The inductive strengthening.  The positions tail .. tail+Capacity-1 name *)
(* every cell once; the sequence number of each tells whether it is full,   *)
(* being filled, free, or still being emptied since the previous lap.       *)

FilledCells ==
    \A p \in tail..(head - 1) :
        \/ seq[Slot(p)] = p + 1
        \/ /\ seq[Slot(p)] = p
           /\ \E t \in Threads : Pushing(t) /\ pos[t] = p

FreeCells ==
    \A p \in head..(tail + Capacity - 1) :
        \/ seq[Slot(p)] = p
        \/ /\ seq[Slot(p)] + Capacity = p + 1
           /\ \E t \in Threads : Popping(t) /\ pos[t] + Capacity = p

Holders ==
    \A t \in Threads :
        /\ Pushing(t) => /\ tail <= pos[t] /\ pos[t] < head
                         /\ seq[Slot(pos[t])] = pos[t]
        /\ Popping(t) => /\ pos[t] < tail /\ head <= pos[t] + Capacity
                         /\ seq[Slot(pos[t])] = pos[t] + 1

\* What a thread knows while it retries: its view of head_ or tail_ is old at
\* worst, and the sequence it compared has not moved backwards since.
Retriers ==
    \A t \in Threads :
        /\ pc[t] = "push_seq" => pos[t] <= head
        /\ pc[t] = "push_cas" => pos[t] <= head /\ pos[t] <= seq[Slot(pos[t])]
        /\ pc[t] = "pop_seq"  => pos[t] <= tail
        /\ pc[t] = "pop_cas"  => pos[t] <= tail /\ pos[t] < seq[Slot(pos[t])]
        /\ pc[t] = "size_tail" => pos[t] <= tail + Capacity

UniqueHolder ==
    \A t, u \in Threads :
        t # u /\ Holds(t) /\ Holds(u) => pos[t] # pos[u]

\* The invariant that is preserved by every step of TryPush, TryPop and
\* SizeApprox when there are at least two cells.
RingInv ==
    /\ BoundedOccupancy
    /\ FilledCells
    /\ FreeCells
    /\ Holders
    /\ Retriers
    /\ UniqueHolder
    /\ SizeWithinCapacity

-----------------------------------------------------------------------------
(* Refinement of BoundedFifo *)

Owner(p) == CHOOSE t \in Threads : Pushing(t) /\ pos[t] = p

ItemAt(p) ==
    IF seq[Slot(p)] = p + 1
    THEN [val |-> data[Slot(p)], owner |-> NoThread]
    ELSE [val |-> val[Owner(p)], owner |-> Owner(p)]

items == [i \in 1..(head - tail) |-> ItemAt(tail + i - 1)]

holding ==
    [t \in Threads |->
        CASE pc[t] = "read"    -> data[Slot(pos[t])]
          [] pc[t] = "release" -> val[t]
          [] OTHER             -> NoValue]

Fifo == INSTANCE BoundedFifo

\* The cells, sequence numbers and retry loops implement a bounded FIFO: every
\* element is delivered once, in claim order; "full" and "empty" are only
\* answered where BoundedFifo allows it.
ImplementsFifo == Fifo!Spec

-----------------------------------------------------------------------------
(* Progress *)

\* Only one thread is scheduled for ever: every other thread may stop in the
\* middle of any operation.  A weak compare-and-swap does not fail spuriously
\* for ever.
LoneFairness(t) ==
    /\ WF_vars(Step(t))
    /\ SF_vars(PushClaim(t))
    /\ SF_vars(PopClaim(t))

\* Lock freedom as the header claims it ("避免传统互斥锁"): an operation ends
\* even when all the other threads have stopped half-way through theirs.
OperationEnds(t) == (pc[t] # "idle") ~> (pc[t] = "idle")

=============================================================================
