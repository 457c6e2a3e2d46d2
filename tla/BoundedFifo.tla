---------------------------- MODULE BoundedFifo ----------------------------
(***************************************************************************)
(* What LockFreeQueue promises its callers, without cells, sequence       *)
(* numbers or compare-and-swap loops.                                      *)
(*                                                                         *)
(* A push is two moments: its place in the order is claimed, and later the *)
(* element is published.  A pop is two moments as well: the oldest element *)
(* is taken, and later its slot is vacated.  The promise is weaker than    *)
(* that of a lock-protected queue in two places, and this module says      *)
(* exactly how much weaker:                                                *)
(*   - TryPop may answer "empty" while published elements are waiting,     *)
(*     but only behind an older element that is still being pushed;        *)
(*   - TryPush may answer "full" below the capacity, but only while some   *)
(*     pop has not vacated its slot yet.                                   *)
(***************************************************************************)
EXTENDS Naturals, Sequences, FiniteSets

CONSTANTS Threads,   \* the threads that call TryPush, TryPop and SizeApprox
          Value,     \* what is queued
          Capacity,  \* capacity_, after rounding up
          NoValue,   \* "no element", not in Value
          NoThread   \* "nobody", not in Threads

VARIABLES items,     \* the elements in claim order: [val, owner]
          holding,   \* per thread, the element it took and did not return yet
          res        \* per thread, the outcome of its last operation

vars == <<items, holding, res>>

\* owner is the pushing thread until the element is published, then NoThread.
Item == [val : Value, owner : Threads \cup {NoThread}]

Vacating == {t \in Threads : holding[t] # NoValue}

Init ==
    /\ items = <<>>
    /\ holding = [t \in Threads |-> NoValue]
    /\ res = [t \in Threads |-> "none"]

Begin(t) ==
    /\ res' = [res EXCEPT ![t] = "none"]
    /\ UNCHANGED <<items, holding>>

Claim(t, v) ==
    /\ Len(items) + Cardinality(Vacating) < Capacity
    /\ items' = Append(items, [val |-> v, owner |-> t])
    /\ UNCHANGED <<holding, res>>

Publish(t) ==
    \E i \in 1..Len(items) :
        /\ items[i].owner = t
        /\ items' = [items EXCEPT ![i].owner = NoThread]
        /\ res' = [res EXCEPT ![t] = "pushed"]
        /\ UNCHANGED holding

FailPush(t) ==
    /\ Len(items) = Capacity \/ Vacating # {}
    /\ res' = [res EXCEPT ![t] = "full"]
    /\ UNCHANGED <<items, holding>>

Take(t) ==
    /\ items # <<>>
    /\ Head(items).owner = NoThread
    /\ items' = Tail(items)
    /\ holding' = [holding EXCEPT ![t] = Head(items).val]
    /\ UNCHANGED res

Release(t) ==
    /\ holding[t] # NoValue
    /\ res' = [res EXCEPT ![t] = holding[t]]
    /\ holding' = [holding EXCEPT ![t] = NoValue]
    /\ UNCHANGED items

FailPop(t) ==
    /\ items # <<>> => Head(items).owner # NoThread
    /\ res' = [res EXCEPT ![t] = "empty"]
    /\ UNCHANGED <<items, holding>>

Next ==
    \E t \in Threads :
        \/ Begin(t)
        \/ \E v \in Value : Claim(t, v)
        \/ Publish(t)
        \/ FailPush(t)
        \/ Take(t)
        \/ Release(t)
        \/ FailPop(t)

Spec == Init /\ [][Next]_vars
=============================================================================
