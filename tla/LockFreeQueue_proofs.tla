----------------------- MODULE LockFreeQueue_proofs ------------------------
(***************************************************************************)
(* Proofs about LockFreeQueue for every number of threads, every capacity  *)
(* of at least two cells and every MaxPush.  The argument is RingInv: the  *)
(* positions tail .. tail + Capacity - 1 name every cell once, and the     *)
(* sequence number of a cell says who may touch it.                        *)
(***************************************************************************)
EXTENDS LockFreeQueue, SequenceTheorems, FiniteSetTheorems, TLAPS

-----------------------------------------------------------------------------
(* Arithmetic of the cell index *)

\* Euclidean division of a position by the capacity.
LEMMA DivMod ==
    ASSUME NEW p \in Nat
    PROVE  /\ Slot(p) \in Cells
           /\ (p \div Capacity) \in Nat
           /\ p = Capacity * (p \div Capacity) + Slot(p)
  BY CapacityAssumption, SMT DEF Slot, Cells

\* Multiples of the capacity that differ are at least a capacity apart.
LEMMA LapDistance ==
    ASSUME NEW x \in Int, NEW y \in Int, x < y
    PROVE  Capacity * x + Capacity <= Capacity * y
  BY CapacityAssumption, SMT

\* pos & mask_ is an index of the ring.
LEMMA SlotInRange == \A p \in Nat : Slot(p) \in Cells
  BY DivMod

\* Two positions less than a capacity apart never share a cell.
LEMMA SlotDistinct ==
    ASSUME NEW p \in Nat, NEW q \in Nat, p < q, q < p + Capacity
    PROVE  Slot(p) # Slot(q)
<1>. DEFINE a == p \div Capacity
            b == q \div Capacity
<1>1. SUFFICES ASSUME Slot(p) = Slot(q) PROVE FALSE
  OBVIOUS
<1>2. /\ a \in Nat /\ b \in Nat
      /\ p = Capacity * a + Slot(p)
      /\ q = Capacity * b + Slot(q)
      /\ Slot(p) \in Cells /\ Slot(q) \in Cells
      /\ Capacity * a \in Int /\ Capacity * b \in Int
      /\ Capacity \in Int
  BY DivMod, CapacityAssumption, SMT
<1>. HIDE DEF a, b
<1>3. CASE a < b
  <2>1. Capacity * a + Capacity <= Capacity * b
    BY <1>2, <1>3, LapDistance
  <2>. QED  BY <1>1, <1>2, <2>1, SMT DEF Cells
<1>4. CASE b < a
  <2>1. Capacity * b + Capacity <= Capacity * a
    BY <1>2, <1>4, LapDistance
  <2>. QED  BY <1>1, <1>2, <2>1, CapacityAssumption, SMT DEF Cells
<1>5. CASE a = b
  BY <1>1, <1>2, <1>5, SMT DEF Cells
<1>. QED  BY <1>2, <1>3, <1>4, <1>5, SMT

\* Positions a capacity apart share their cell.
LEMMA SlotLap ==
    ASSUME NEW p \in Nat
    PROVE  Slot(p + Capacity) = Slot(p)
<1>. DEFINE q == p + Capacity
            a == p \div Capacity
            b == q \div Capacity
<1>1. /\ a \in Nat /\ b \in Nat /\ q \in Nat /\ a + 1 \in Int
      /\ p = Capacity * a + Slot(p)
      /\ q = Capacity * b + Slot(q)
      /\ Slot(p) \in Cells /\ Slot(q) \in Cells
      /\ Capacity * a \in Int /\ Capacity * b \in Int
      /\ Capacity \in Int
  BY DivMod, CapacityAssumption, SMT
<1>2. Capacity * (a + 1) = Capacity * a + Capacity
  BY <1>1, SMT
<1>3. q = p + Capacity
  OBVIOUS
<1>. HIDE DEF a, b, q
<1>4. CASE b < a + 1
  <2>1. Capacity * b + Capacity <= Capacity * (a + 1)
    BY <1>1, <1>4, LapDistance
  <2>. QED  BY <1>1, <1>2, <1>3, <2>1, SMT DEF Cells
<1>5. CASE a + 1 < b
  <2>1. Capacity * (a + 1) + Capacity <= Capacity * b
    BY <1>1, <1>5, LapDistance
  <2>. QED  BY <1>1, <1>2, <1>3, <2>1, SMT DEF Cells
<1>6. CASE b = a + 1
  <2>1. Capacity * b = Capacity * a + Capacity
    BY <1>2, <1>6
  <2>2. Slot(p) \in Int /\ Slot(q) \in Int
    BY <1>1 DEF Cells
  <2>3. Slot(q) = Slot(p)
    BY <1>1, <1>3, <2>1, <2>2, SMT
  <2>. QED  BY <2>3, <1>3
<1>. QED  BY <1>1, <1>4, <1>5, <1>6, SMT

\* In the constructor's state every cell's index is its own position.
LEMMA SlotBelowCapacity ==
    ASSUME NEW p \in Nat, p < Capacity
    PROVE  Slot(p) = p
  BY CapacityAssumption, SMT DEF Slot

\* The remainder of a position is the index of its cell.
LEMMA SlotOf ==
    ASSUME NEW b \in Nat, NEW r \in Cells, NEW q \in Nat, q = Capacity * b + r
    PROVE  Slot(q) = r
<1>. DEFINE a == q \div Capacity
<1>1. /\ a \in Nat /\ q = Capacity * a + Slot(q) /\ Slot(q) \in Cells
      /\ Capacity * a \in Int /\ Capacity * b \in Int /\ Capacity \in Int
  BY DivMod, CapacityAssumption, SMT
<1>. HIDE DEF a
<1>2. CASE a < b
  <2>1. Capacity * a + Capacity <= Capacity * b
    BY <1>1, <1>2, LapDistance
  <2>. QED  BY <1>1, <2>1, SMT DEF Cells
<1>3. CASE b < a
  <2>1. Capacity * b + Capacity <= Capacity * a
    BY <1>1, <1>3, LapDistance
  <2>. QED  BY <1>1, <2>1, SMT DEF Cells
<1>4. CASE a = b
  BY <1>1, <1>4, SMT DEF Cells
<1>. QED  BY <1>1, <1>2, <1>3, <1>4, SMT

\* The cell of a position before m is named again, a lap or more later, by one
\* of the Capacity positions from m on.
LEMMA NextLap ==
    ASSUME NEW p \in Nat, NEW m \in Nat, p < m
    PROVE  \E q \in m..(m + Capacity - 1) : Slot(q) = Slot(p) /\ p + Capacity <= q
<1>. DEFINE a == p \div Capacity
            c == m \div Capacity
<1>1. /\ a \in Nat /\ c \in Nat /\ c + 1 \in Nat
      /\ p = Capacity * a + Slot(p)
      /\ m = Capacity * c + Slot(m)
      /\ Slot(p) \in Cells /\ Slot(m) \in Cells
      /\ Capacity * a \in Int /\ Capacity * c \in Int
      /\ Capacity \in Int
  BY DivMod, CapacityAssumption, SMT
<1>2. Capacity * (c + 1) = Capacity * c + Capacity
  BY <1>1, SMT
<1>. HIDE DEF a, c
<1>3. PICK b \in Nat, q \in Nat :
          /\ q = Capacity * b + Slot(p) /\ Capacity * b \in Int
          /\ m <= q /\ q < m + Capacity
  <2>1. CASE Slot(m) <= Slot(p)
    <3>1. /\ Capacity * c + Slot(p) \in Nat /\ m <= Capacity * c + Slot(p)
          /\ Capacity * c + Slot(p) < m + Capacity
      BY <1>1, <2>1, SMT DEF Cells
    <3>. QED  BY <1>1, <3>1
  <2>2. CASE Slot(p) < Slot(m)
    <3>1. /\ Capacity * (c + 1) + Slot(p) \in Nat
          /\ m <= Capacity * (c + 1) + Slot(p)
          /\ Capacity * (c + 1) + Slot(p) < m + Capacity
          /\ Capacity * (c + 1) \in Int
      BY <1>1, <1>2, <2>2, SMT DEF Cells
    <3>. QED  BY <1>1, <3>1
  <2>. QED  BY <1>1, <2>1, <2>2, SMT DEF Cells
<1>4. Slot(q) = Slot(p)
  BY <1>1, <1>3, SlotOf
<1>5. p + Capacity <= q
  <2>1. CASE a < b
    <3>1. Capacity * a + Capacity <= Capacity * b
      BY <1>1, <2>1, LapDistance
    <3>. QED  BY <1>1, <1>3, <3>1, SMT DEF Cells
  <2>2. CASE b < a
    <3>1. Capacity * b + Capacity <= Capacity * a
      BY <1>1, <2>2, LapDistance
    <3>. QED  BY <1>1, <1>3, <3>1, SMT DEF Cells
  <2>3. CASE a = b
    BY <1>1, <1>3, <2>3, SMT DEF Cells
  <2>. QED  BY <1>1, <1>3, <2>1, <2>2, <2>3, SMT
<1>6. q \in m..(m + Capacity - 1)
  BY <1>1, <1>3, SMT
<1>. QED  BY <1>4, <1>5, <1>6

-----------------------------------------------------------------------------
(* Type correctness *)

\* The constructor leaves every variable in its type.
LEMMA TypeInit == Init => TypeOK
  BY CapacityAssumption, SMT DEF Init, TypeOK, Cells, PC

\* Every step of TryPush, TryPop and SizeApprox keeps the types.
LEMMA TypeStep ==
    ASSUME TypeOK, [Next]_vars
    PROVE  TypeOK'
<1>. USE CapacityAssumption, SlotInRange DEF TypeOK, Goto, Return
<1>1. CASE UNCHANGED vars
  BY <1>1 DEF vars
<1>2. ASSUME NEW t \in Threads, Start(t)
      PROVE  TypeOK'
  <2>1. CASE \E v \in Value : PushBegin(t, v)
    BY <2>1 DEF PushBegin, Call, PC, PushPC
  <2>2. CASE PopBegin(t)
    BY <2>2 DEF PopBegin, Call, PC, PopPC
  <2>3. CASE SizeBegin(t)
    BY <2>3 DEF SizeBegin, Call, PC
  <2>. QED  BY <1>2, <2>1, <2>2, <2>3 DEF Start
<1>3. ASSUME NEW t \in Threads, Step(t)
      PROVE  TypeOK'
  <2>1. CASE PushLoad(t)
    BY <2>1 DEF PushLoad, PC, PushPC
  <2>2. CASE PushSeq(t)
    BY <2>2 DEF PushSeq, PC, PushPC
  <2>3. CASE PushClaim(t)
    BY <2>3 DEF PushClaim, PC, PushPC
  <2>4. CASE PushCasFail(t)
    BY <2>4 DEF PushCasFail, PC, PushPC
  <2>5. CASE PushWrite(t)
    BY <2>5 DEF PushWrite, PC, PushPC
  <2>6. CASE PushPublish(t)
    BY <2>6 DEF PushPublish, PC, PushPC
  <2>7. CASE PopLoad(t)
    BY <2>7 DEF PopLoad, PC, PopPC
  <2>8. CASE PopSeq(t)
    BY <2>8 DEF PopSeq, PC, PopPC
  <2>9. CASE PopClaim(t)
    BY <2>9 DEF PopClaim, PC, PopPC
  <2>10. CASE PopCasFail(t)
    BY <2>10 DEF PopCasFail, PC, PopPC
  <2>11. CASE PopRead(t)
    BY <2>11 DEF PopRead, PC, PopPC
  <2>12. CASE PopRelease(t)
    BY <2>12 DEF PopRelease, PC, PopPC
  <2>13. CASE SizeLoadHead(t)
    BY <2>13 DEF SizeLoadHead, PC
  <2>14. CASE SizeLoadTail(t)
    BY <2>14 DEF SizeLoadTail, PC
  <2>. QED
    BY <1>3, <2>1, <2>2, <2>3, <2>4, <2>5, <2>6, <2>7, <2>8, <2>9, <2>10,
       <2>11, <2>12, <2>13, <2>14 DEF Step
<1>. QED  BY <1>1, <1>2, <1>3 DEF Next

\* Every variable keeps its type in every step of every operation.
THEOREM TypeCorrect == Spec => []TypeOK
  BY TypeInit, TypeStep, PTL DEF Spec

-----------------------------------------------------------------------------
(* The ring invariant *)

\* The constructor numbers the cells so that all of them are free.
LEMMA RingInit == Init => RingInv
<1>. SUFFICES ASSUME Init PROVE RingInv
  OBVIOUS
<1>1. \A t \in Threads : pc[t] = "idle"
  BY DEF Init
<1>2. FreeCells
  BY CapacityAssumption, SlotBelowCapacity, SMT DEF Init, FreeCells, Cells
<1>3. FilledCells
  BY SMT DEF Init, FilledCells
<1>4. Holders /\ Retriers /\ UniqueHolder
  BY <1>1 DEF Holders, Retriers, UniqueHolder, Holds, Pushing, Popping
<1>5. BoundedOccupancy /\ SizeWithinCapacity
  BY CapacityAssumption, SMT DEF Init, BoundedOccupancy, SizeWithinCapacity
<1>. QED  BY <1>2, <1>3, <1>4, <1>5 DEF RingInv

\* A step that touches neither the counters nor a sequence number, and after
\* which the same threads hold the same positions, keeps the cells' part of
\* the invariant.
LEMMA SameHolders ==
    ASSUME TypeOK, TypeOK', RingInv,
           head' = head, tail' = tail, seq' = seq,
           \A u \in Threads : /\ Pushing(u)' <=> Pushing(u)
                              /\ Popping(u)' <=> Popping(u)
                              /\ Holds(u) => pos'[u] = pos[u]
    PROVE  BoundedOccupancy' /\ FilledCells' /\ FreeCells' /\ Holders' /\ UniqueHolder'
<1>. USE DEF RingInv
<1>1. BoundedOccupancy'
  BY DEF BoundedOccupancy
<1>2. FilledCells'
  BY DEF FilledCells, Holds
<1>3. FreeCells'
  BY DEF FreeCells, Holds
<1>4. Holders'
  BY DEF Holders, Holds
<1>5. UniqueHolder'
  BY DEF UniqueHolder, Holds
<1>. QED  BY <1>1, <1>2, <1>3, <1>4, <1>5

\* The cell a push is about to claim is free, and the ring is not full.
LEMMA ClaimedCellIsFree ==
    ASSUME Capacity >= 2, TypeOK, RingInv,
           NEW t \in Threads, pc[t] = "push_cas", head = pos[t]
    PROVE  head < tail + Capacity /\ seq[Slot(head)] = head
<1>. USE CapacityAssumption DEF TypeOK
<1>1. head <= seq[Slot(head)] /\ tail <= head /\ head <= tail + Capacity
  BY DEF RingInv, Retriers, BoundedOccupancy
<1>2. head < tail + Capacity
  <2>1. SUFFICES ASSUME head = tail + Capacity PROVE FALSE
    BY <1>1
  <2>2. Slot(head) = Slot(tail)
    BY <2>1, SlotLap
  <2>3. seq[Slot(tail)] = tail + 1 \/ seq[Slot(tail)] = tail
    BY <2>1 DEF RingInv, FilledCells
  <2>. QED  BY <1>1, <2>1, <2>2, <2>3
<1>3. seq[Slot(head)] \in Nat
  BY SlotInRange
<1>4. seq[Slot(head)] = head \/ seq[Slot(head)] + Capacity = head + 1
  BY <1>1, <1>2 DEF RingInv, FreeCells
<1>. QED  BY <1>1, <1>2, <1>3, <1>4

\* The cell a pop is about to take is published, and the ring is not empty.
LEMMA TakenCellIsFull ==
    ASSUME TypeOK, RingInv,
           NEW t \in Threads, pc[t] = "pop_cas", tail = pos[t]
    PROVE  tail < head /\ seq[Slot(tail)] = tail + 1
<1>. USE CapacityAssumption DEF TypeOK
<1>1. tail < seq[Slot(tail)] /\ tail <= head /\ head <= tail + Capacity
  BY DEF RingInv, Retriers, BoundedOccupancy
<1>2. seq[Slot(tail)] \in Nat
  BY SlotInRange
<1>3. tail < head
  <2>1. SUFFICES ASSUME head = tail PROVE FALSE
    BY <1>1
  <2>2. seq[Slot(tail)] = tail \/ seq[Slot(tail)] + Capacity = tail + 1
    BY <2>1 DEF RingInv, FreeCells
  <2>. QED  BY <1>1, <1>2, <2>2
<1>4. seq[Slot(tail)] = tail + 1 \/ seq[Slot(tail)] = tail
  BY <1>1, <1>3 DEF RingInv, FilledCells
<1>. QED  BY <1>1, <1>3, <1>4

\* The compare-and-swap of TryPush (line 91) keeps the ring invariant: the cell
\* moves from the free ones to those being filled.
LEMMA PushClaimPreserves ==
    ASSUME Capacity >= 2, TypeOK, TypeOK', RingInv,
           NEW t \in Threads, PushClaim(t)
    PROVE  RingInv'
<1>. USE CapacityAssumption DEF TypeOK
<1>1. /\ pc[t] = "push_cas" /\ pos[t] = head /\ head' = head + 1
      /\ UNCHANGED <<tail, seq, pos, approx>>
      /\ pc' = [pc EXCEPT ![t] = "write"]
  BY DEF PushClaim, Goto
<1>2. head < tail + Capacity /\ seq[Slot(head)] = head
  BY <1>1, ClaimedCellIsFree
<1>3. /\ ~Holds(t) /\ Pushing(t)' /\ ~Popping(t)'
      /\ \A u \in Threads \ {t} : /\ Pushing(u)' <=> Pushing(u)
                                  /\ Popping(u)' <=> Popping(u)
                                  /\ Holds(u)' <=> Holds(u)
                                  /\ pc'[u] = pc[u]
  BY <1>1 DEF Holds, Pushing, Popping
<1>4. BoundedOccupancy'
  BY <1>1, <1>2 DEF RingInv, BoundedOccupancy
<1>5. FilledCells'
  <2>1. SUFFICES ASSUME NEW p \in tail..head
                 PROVE  \/ seq[Slot(p)] = p + 1
                        \/ /\ seq[Slot(p)] = p
                           /\ \E u \in Threads : Pushing(u)' /\ pos[u] = p
    BY <1>1 DEF FilledCells
  <2>2. CASE p = head
    BY <1>1, <1>2, <1>3, <2>2
  <2>3. CASE p # head
    <3>1. p \in tail..(head - 1)
      BY <2>3
    <3>. QED  BY <3>1, <1>3 DEF RingInv, FilledCells, Holds
  <2>. QED  BY <2>2, <2>3
<1>6. FreeCells'
  <2>1. SUFFICES ASSUME NEW p \in (head + 1)..(tail + Capacity - 1)
                 PROVE  \/ seq[Slot(p)] = p
                        \/ /\ seq[Slot(p)] + Capacity = p + 1
                           /\ \E u \in Threads : Popping(u)' /\ pos[u] + Capacity = p
    BY <1>1 DEF FreeCells
  <2>2. p \in head..(tail + Capacity - 1)
    OBVIOUS
  <2>. QED  BY <2>2, <1>3 DEF RingInv, FreeCells, Holds
<1>7. \A u \in Threads : Popping(u) => pos[u] + Capacity # head
  <2>1. SUFFICES ASSUME NEW u \in Threads, Popping(u), pos[u] + Capacity = head
                 PROVE  FALSE
    OBVIOUS
  <2>2. Slot(head) = Slot(pos[u])
    BY <2>1, SlotLap
  <2>3. seq[Slot(pos[u])] = pos[u] + 1
    BY <2>1 DEF RingInv, Holders
  <2>. QED  BY <1>2, <2>1, <2>2, <2>3
<1>8. Holders'
  <2>1. SUFFICES ASSUME NEW u \in Threads
                 PROVE  /\ Pushing(u)' => /\ tail <= pos[u] /\ pos[u] < head + 1
                                          /\ seq[Slot(pos[u])] = pos[u]
                        /\ Popping(u)' => /\ pos[u] < tail /\ head + 1 <= pos[u] + Capacity
                                          /\ seq[Slot(pos[u])] = pos[u] + 1
    BY <1>1 DEF Holders
  <2>2. CASE u = t
    BY <2>2, <1>1, <1>2, <1>3 DEF RingInv, BoundedOccupancy
  <2>3. CASE u # t
    BY <2>3, <1>3, <1>7 DEF RingInv, Holders
  <2>. QED  BY <2>2, <2>3
<1>9. UniqueHolder'
  <2>1. \A u \in Threads : Holds(u) => pos[u] < head
    BY DEF RingInv, Holders, Holds, BoundedOccupancy
  <2>. QED  BY <1>1, <1>3, <2>1 DEF RingInv, UniqueHolder
<1>10. Retriers'
  BY <1>1 DEF RingInv, Retriers
<1>11. SizeWithinCapacity'
  BY <1>1 DEF RingInv, SizeWithinCapacity
<1>. QED  BY <1>4, <1>5, <1>6, <1>8, <1>9, <1>10, <1>11 DEF RingInv

\* The compare-and-swap of TryPop (line 114) keeps the ring invariant: the cell
\* moves from the full ones to those being emptied.
LEMMA PopClaimPreserves ==
    ASSUME TypeOK, TypeOK', RingInv,
           NEW t \in Threads, PopClaim(t)
    PROVE  RingInv'
<1>. USE CapacityAssumption DEF TypeOK
<1>1. /\ pc[t] = "pop_cas" /\ pos[t] = tail /\ tail' = tail + 1
      /\ UNCHANGED <<head, seq, pos, approx>>
      /\ pc' = [pc EXCEPT ![t] = "read"]
  BY DEF PopClaim, Goto
<1>2. tail < head /\ seq[Slot(tail)] = tail + 1
  BY <1>1, TakenCellIsFull
<1>3. /\ ~Holds(t) /\ Popping(t)' /\ ~Pushing(t)'
      /\ \A u \in Threads \ {t} : /\ Pushing(u)' <=> Pushing(u)
                                  /\ Popping(u)' <=> Popping(u)
                                  /\ Holds(u)' <=> Holds(u)
                                  /\ pc'[u] = pc[u]
  BY <1>1 DEF Holds, Pushing, Popping
<1>4. BoundedOccupancy'
  BY <1>1, <1>2 DEF RingInv, BoundedOccupancy
<1>5. FilledCells'
  <2>1. SUFFICES ASSUME NEW p \in (tail + 1)..(head - 1)
                 PROVE  \/ seq[Slot(p)] = p + 1
                        \/ /\ seq[Slot(p)] = p
                           /\ \E u \in Threads : Pushing(u)' /\ pos[u] = p
    BY <1>1 DEF FilledCells
  <2>2. p \in tail..(head - 1)
    OBVIOUS
  <2>. QED  BY <2>2, <1>3 DEF RingInv, FilledCells, Holds
<1>6. FreeCells'
  <2>1. SUFFICES ASSUME NEW p \in head..(tail + Capacity)
                 PROVE  \/ seq[Slot(p)] = p
                        \/ /\ seq[Slot(p)] + Capacity = p + 1
                           /\ \E u \in Threads : Popping(u)' /\ pos[u] + Capacity = p
    BY <1>1 DEF FreeCells
  <2>2. CASE p = tail + Capacity
    <3>1. Slot(p) = Slot(tail)
      BY <2>2, SlotLap
    <3>. QED  BY <1>1, <1>2, <1>3, <2>2, <3>1
  <2>3. CASE p # tail + Capacity
    <3>1. p \in head..(tail + Capacity - 1)
      BY <2>3
    <3>. QED  BY <3>1, <1>3 DEF RingInv, FreeCells, Holds
  <2>. QED  BY <2>2, <2>3
<1>7. \A u \in Threads : Pushing(u) => pos[u] # tail
  BY <1>2 DEF RingInv, Holders
<1>8. Holders'
  <2>1. SUFFICES ASSUME NEW u \in Threads
                 PROVE  /\ Pushing(u)' => /\ tail + 1 <= pos[u] /\ pos[u] < head
                                          /\ seq[Slot(pos[u])] = pos[u]
                        /\ Popping(u)' => /\ pos[u] < tail + 1 /\ head <= pos[u] + Capacity
                                          /\ seq[Slot(pos[u])] = pos[u] + 1
    BY <1>1 DEF Holders
  <2>2. CASE u = t
    BY <2>2, <1>1, <1>2, <1>3 DEF RingInv, BoundedOccupancy
  <2>3. CASE u # t
    BY <2>3, <1>3, <1>7 DEF RingInv, Holders
  <2>. QED  BY <2>2, <2>3
<1>9. UniqueHolder'
  <2>1. \A u \in Threads : Holds(u) => pos[u] # tail
    BY <1>7 DEF RingInv, Holders, Holds
  <2>. QED  BY <1>1, <1>3, <2>1 DEF RingInv, UniqueHolder
<1>10. Retriers'
  BY <1>1 DEF RingInv, Retriers
<1>11. SizeWithinCapacity'
  BY <1>1 DEF RingInv, SizeWithinCapacity
<1>. QED  BY <1>4, <1>5, <1>6, <1>8, <1>9, <1>10, <1>11 DEF RingInv

\* The release store of TryPush (line 101) keeps the ring invariant: the cell
\* is full and no thread is inside it any more.
LEMMA PushPublishPreserves ==
    ASSUME TypeOK, TypeOK', RingInv,
           NEW t \in Threads, PushPublish(t)
    PROVE  RingInv'
<1>. DEFINE q == pos[t]
<1>. USE CapacityAssumption DEF TypeOK
<1>1. /\ pc[t] = "publish" /\ UNCHANGED <<head, tail, approx>>
      /\ seq' = [seq EXCEPT ![Slot(q)] = q + 1]
      /\ pc' = [pc EXCEPT ![t] = "idle"]
      /\ pos' = [pos EXCEPT ![t] = 0]
  BY DEF PushPublish, Return, Goto
<1>2. /\ Pushing(t) /\ ~Holds(t)'
      /\ \A u \in Threads \ {t} : /\ Pushing(u)' <=> Pushing(u)
                                  /\ Popping(u)' <=> Popping(u)
                                  /\ Holds(u)' <=> Holds(u)
                                  /\ pc'[u] = pc[u] /\ pos'[u] = pos[u]
  BY <1>1 DEF Holds, Pushing, Popping
<1>3. /\ q \in Nat /\ tail <= q /\ q < head /\ head <= tail + Capacity
      /\ seq[Slot(q)] = q /\ Slot(q) \in Cells
  BY <1>2, SlotInRange DEF RingInv, Holders, BoundedOccupancy
<1>. HIDE DEF q
\* Only the cell of position q changes, among the positions a lap around it.
<1>4. ASSUME NEW p \in Nat, p # q, p < q + Capacity, q < p + Capacity
      PROVE  seq'[Slot(p)] = seq[Slot(p)]
  <2>1. Slot(p) # Slot(q)
    BY <1>3, <1>4, SlotDistinct
  <2>2. Slot(p) \in Cells
    BY SlotInRange
  <2>. QED  BY <1>1, <2>1, <2>2
<1>5. seq'[Slot(q)] = q + 1
  BY <1>1, <1>3
<1>6. FilledCells'
  <2>1. SUFFICES ASSUME NEW p \in tail..(head - 1)
                 PROVE  \/ seq'[Slot(p)] = p + 1
                        \/ /\ seq'[Slot(p)] = p
                           /\ \E u \in Threads : Pushing(u)' /\ pos'[u] = p
    BY <1>1 DEF FilledCells
  <2>2. CASE p = q
    BY <2>2, <1>5
  <2>3. CASE p # q
    <3>1. seq'[Slot(p)] = seq[Slot(p)]
      BY <2>3, <1>3, <1>4
    <3>2. CASE seq[Slot(p)] = p + 1
      BY <3>1, <3>2
    <3>3. CASE seq[Slot(p)] # p + 1
      <4>1. PICK u \in Threads : Pushing(u) /\ pos[u] = p
        BY <3>3 DEF RingInv, FilledCells
      <4>2. u # t
        BY <4>1, <2>3 DEF q
      <4>3. seq[Slot(p)] = p
        BY <3>3 DEF RingInv, FilledCells
      <4>. QED  BY <4>1, <4>2, <4>3, <1>2, <3>1
    <3>. QED  BY <3>2, <3>3
  <2>. QED  BY <2>2, <2>3
<1>7. FreeCells'
  <2>1. SUFFICES ASSUME NEW p \in head..(tail + Capacity - 1)
                 PROVE  \/ seq'[Slot(p)] = p
                        \/ /\ seq'[Slot(p)] + Capacity = p + 1
                           /\ \E u \in Threads : Popping(u)' /\ pos'[u] + Capacity = p
    BY <1>1 DEF FreeCells
  <2>2. seq'[Slot(p)] = seq[Slot(p)]
    BY <1>3, <1>4
  <2>3. \A u \in Threads : Popping(u) => u # t
    BY <1>2 DEF Popping, Pushing
  <2>. QED  BY <1>2, <2>2, <2>3 DEF RingInv, FreeCells
<1>8. Holders'
  <2>1. SUFFICES ASSUME NEW u \in Threads, u # t
                 PROVE  /\ Pushing(u) => /\ tail <= pos[u] /\ pos[u] < head
                                         /\ seq'[Slot(pos[u])] = pos[u]
                        /\ Popping(u) => /\ pos[u] < tail /\ head <= pos[u] + Capacity
                                         /\ seq'[Slot(pos[u])] = pos[u] + 1
    BY <1>1, <1>2 DEF Holders, Holds
  <2>2. CASE Pushing(u)
    <3>1. pos[u] # q
      BY <2>1, <2>2, <1>2 DEF RingInv, UniqueHolder, Holds, q
    <3>. QED  BY <2>2, <3>1, <1>3, <1>4 DEF RingInv, Holders, Pushing, Popping
  <2>3. CASE Popping(u)
    BY <2>3, <1>3, <1>4 DEF RingInv, Holders, Pushing, Popping
  <2>. QED  BY <2>2, <2>3
<1>9. UniqueHolder'
  BY <1>2 DEF RingInv, UniqueHolder
<1>10. Retriers'
  <2>1. \A p \in Nat : seq[Slot(p)] <= seq'[Slot(p)]
    BY <1>1, <1>3, SlotInRange
  <2>2. \A p \in Nat : seq[Slot(p)] \in Nat /\ seq'[Slot(p)] \in Nat
    BY SlotInRange
  <2>. QED  BY <1>1, <1>2, <2>1, <2>2 DEF RingInv, Retriers
<1>11. BoundedOccupancy' /\ SizeWithinCapacity'
  BY <1>1 DEF RingInv, BoundedOccupancy, SizeWithinCapacity
<1>. QED  BY <1>6, <1>7, <1>8, <1>9, <1>10, <1>11 DEF RingInv

\* The release store of TryPop (line 124) keeps the ring invariant: the cell is
\* free for the position one lap later.
LEMMA PopReleasePreserves ==
    ASSUME TypeOK, TypeOK', RingInv,
           NEW t \in Threads, PopRelease(t)
    PROVE  RingInv'
<1>. DEFINE q == pos[t]
<1>. USE CapacityAssumption DEF TypeOK
<1>1. /\ pc[t] = "release" /\ UNCHANGED <<head, tail, approx>>
      /\ seq' = [seq EXCEPT ![Slot(q)] = q + Capacity]
      /\ pc' = [pc EXCEPT ![t] = "idle"]
      /\ pos' = [pos EXCEPT ![t] = 0]
  BY DEF PopRelease, Return, Goto
<1>2. /\ Popping(t) /\ ~Holds(t)'
      /\ \A u \in Threads \ {t} : /\ Pushing(u)' <=> Pushing(u)
                                  /\ Popping(u)' <=> Popping(u)
                                  /\ Holds(u)' <=> Holds(u)
                                  /\ pc'[u] = pc[u] /\ pos'[u] = pos[u]
  BY <1>1 DEF Holds, Pushing, Popping
<1>3. /\ q \in Nat /\ q < tail /\ head <= q + Capacity /\ tail <= head
      /\ seq[Slot(q)] = q + 1 /\ Slot(q) \in Cells
  BY <1>2, SlotInRange DEF RingInv, Holders, BoundedOccupancy
<1>. HIDE DEF q
<1>4. ASSUME NEW p \in Nat, p # q, p < q + Capacity, q < p + Capacity
      PROVE  seq'[Slot(p)] = seq[Slot(p)]
  <2>1. Slot(p) # Slot(q)
    BY <1>3, <1>4, SlotDistinct
  <2>2. Slot(p) \in Cells
    BY SlotInRange
  <2>. QED  BY <1>1, <2>1, <2>2
\* The same one lap later.
<1>5. ASSUME NEW p \in Nat, p # q + Capacity,
             p < q + Capacity + Capacity, q + Capacity < p + Capacity
      PROVE  seq'[Slot(p)] = seq[Slot(p)]
  <2>1. PICK r \in Nat : r = q + Capacity
    BY <1>3
  <2>2. p # r /\ p < r + Capacity /\ r < p + Capacity
    BY <2>1, <1>3, <1>5
  <2>3. Slot(p) # Slot(q)
    <3>1. Slot(p) # Slot(r)
      BY <2>2, SlotDistinct
    <3>2. Slot(r) = Slot(q)
      BY <2>1, <1>3, SlotLap
    <3>. QED  BY <3>1, <3>2
  <2>4. Slot(p) \in Cells
    BY SlotInRange
  <2>. QED  BY <1>1, <2>3, <2>4
<1>6. FilledCells'
  <2>1. SUFFICES ASSUME NEW p \in tail..(head - 1)
                 PROVE  \/ seq'[Slot(p)] = p + 1
                        \/ /\ seq'[Slot(p)] = p
                           /\ \E u \in Threads : Pushing(u)' /\ pos'[u] = p
    BY <1>1 DEF FilledCells
  <2>2. seq'[Slot(p)] = seq[Slot(p)]
    BY <1>3, <1>4
  <2>3. \A u \in Threads : Pushing(u) => u # t
    BY <1>2 DEF Popping, Pushing
  <2>. QED  BY <1>2, <2>2, <2>3 DEF RingInv, FilledCells
<1>7. FreeCells'
  <2>1. SUFFICES ASSUME NEW p \in head..(tail + Capacity - 1)
                 PROVE  \/ seq'[Slot(p)] = p
                        \/ /\ seq'[Slot(p)] + Capacity = p + 1
                           /\ \E u \in Threads : Popping(u)' /\ pos'[u] + Capacity = p
    BY <1>1 DEF FreeCells
  <2>2. CASE p = q + Capacity
    <3>1. Slot(p) = Slot(q)
      BY <2>2, <1>3, SlotLap
    <3>. QED  BY <2>2, <3>1, <1>1, <1>3
  <2>3. CASE p # q + Capacity
    <3>1. seq'[Slot(p)] = seq[Slot(p)]
      BY <2>3, <1>3, <1>5
    <3>2. CASE seq[Slot(p)] = p
      BY <3>1, <3>2
    <3>3. CASE seq[Slot(p)] # p
      <4>1. PICK u \in Threads : Popping(u) /\ pos[u] + Capacity = p
        BY <3>3 DEF RingInv, FreeCells
      <4>2. u # t
        BY <4>1, <2>3 DEF q
      <4>3. seq[Slot(p)] + Capacity = p + 1
        BY <3>3 DEF RingInv, FreeCells
      <4>. QED  BY <4>1, <4>2, <4>3, <1>2, <3>1
    <3>. QED  BY <3>2, <3>3
  <2>. QED  BY <2>2, <2>3
<1>8. Holders'
  <2>1. SUFFICES ASSUME NEW u \in Threads, u # t
                 PROVE  /\ Pushing(u) => /\ tail <= pos[u] /\ pos[u] < head
                                         /\ seq'[Slot(pos[u])] = pos[u]
                        /\ Popping(u) => /\ pos[u] < tail /\ head <= pos[u] + Capacity
                                         /\ seq'[Slot(pos[u])] = pos[u] + 1
    BY <1>1, <1>2 DEF Holders, Holds
  <2>2. CASE Popping(u)
    <3>1. pos[u] # q
      BY <2>1, <2>2, <1>2 DEF RingInv, UniqueHolder, Holds, q
    <3>. QED  BY <2>2, <3>1, <1>3, <1>4 DEF RingInv, Holders, Pushing, Popping
  <2>3. CASE Pushing(u)
    BY <2>3, <1>3, <1>4 DEF RingInv, Holders, Pushing, Popping
  <2>. QED  BY <2>2, <2>3
<1>9. UniqueHolder'
  BY <1>2 DEF RingInv, UniqueHolder
<1>10. Retriers'
  <2>1. ASSUME NEW p \in Nat PROVE seq[Slot(p)] <= seq'[Slot(p)]
    <3>1. Slot(p) \in Cells
      BY SlotInRange
    <3>2. CASE Slot(p) = Slot(q)
      <4>1. seq'[Slot(p)] = q + Capacity
        BY <3>2, <1>1, <1>3
      <4>. QED  BY <3>2, <4>1, <1>3
    <3>3. CASE Slot(p) # Slot(q)
      BY <3>1, <3>3, <1>1
    <3>. QED  BY <3>2, <3>3
  <2>2. \A p \in Nat : seq[Slot(p)] \in Nat /\ seq'[Slot(p)] \in Nat
    BY SlotInRange
  <2>. QED  BY <1>1, <1>2, <2>1, <2>2 DEF RingInv, Retriers
<1>11. BoundedOccupancy' /\ SizeWithinCapacity'
  BY <1>1 DEF RingInv, BoundedOccupancy, SizeWithinCapacity
<1>. QED  BY <1>6, <1>7, <1>8, <1>9, <1>10, <1>11 DEF RingInv

\* Every step of every operation keeps the ring invariant.
LEMMA RingStep ==
    ASSUME Capacity >= 2, TypeOK, TypeOK', RingInv, [Next]_vars
    PROVE  RingInv'
<1>. USE CapacityAssumption
\* What is left to show of a step after which the same threads hold the same
\* positions: the retrying thread's own knowledge, and the size it reports.
<1>1. ASSUME head' = head, tail' = tail, seq' = seq, Retriers', SizeWithinCapacity',
             \A u \in Threads : /\ Pushing(u)' <=> Pushing(u)
                                /\ Popping(u)' <=> Popping(u)
                                /\ Holds(u) => pos'[u] = pos[u]
      PROVE  RingInv'
  BY <1>1, SameHolders DEF RingInv
<1>2. CASE UNCHANGED vars
  <2>1. Retriers' /\ SizeWithinCapacity'
    BY <1>2 DEF vars, RingInv, Retriers, SizeWithinCapacity
  <2>. QED  BY <1>1, <1>2, <2>1 DEF vars, Holds, Pushing, Popping
<1>3. ASSUME NEW t \in Threads, Start(t)
      PROVE  RingInv'
  <2>1. PICK l \in {"push_load", "pop_load", "size_head"}, v \in Value \cup {NoValue} :
            Call(t, l, v)
    BY <1>3 DEF Start, PushBegin, PopBegin, SizeBegin
  <2>2. Retriers' /\ SizeWithinCapacity'
    BY <2>1 DEF Call, Goto, TypeOK, RingInv, Retriers, SizeWithinCapacity
  <2>. QED  BY <1>1, <2>1, <2>2 DEF Call, Goto, TypeOK, Holds, Pushing, Popping
<1>4. ASSUME NEW t \in Threads, Step(t)
      PROVE  RingInv'
  <2>1. CASE PushLoad(t)
    <3>1. Retriers' /\ SizeWithinCapacity'
      BY <2>1 DEF PushLoad, Goto, TypeOK, RingInv, Retriers, SizeWithinCapacity
    <3>. QED  BY <1>1, <2>1, <3>1 DEF PushLoad, Goto, TypeOK, Holds, Pushing, Popping
  <2>2. CASE PushSeq(t)
    <3>1. Retriers' /\ SizeWithinCapacity'
      BY <2>2 DEF PushSeq, Goto, Return, TypeOK, RingInv, Retriers, SizeWithinCapacity
    <3>. QED  BY <1>1, <2>2, <3>1 DEF PushSeq, Goto, Return, TypeOK, Holds, Pushing, Popping
  <2>3. CASE PushClaim(t)
    BY <2>3, PushClaimPreserves
  <2>4. CASE PushCasFail(t)
    <3>1. Retriers' /\ SizeWithinCapacity'
      BY <2>4 DEF PushCasFail, Goto, TypeOK, RingInv, Retriers, SizeWithinCapacity
    <3>. QED  BY <1>1, <2>4, <3>1 DEF PushCasFail, Goto, TypeOK, Holds, Pushing, Popping
  <2>5. CASE PushWrite(t)
    <3>1. Retriers' /\ SizeWithinCapacity'
      BY <2>5 DEF PushWrite, Goto, TypeOK, RingInv, Retriers, SizeWithinCapacity
    <3>. QED  BY <1>1, <2>5, <3>1 DEF PushWrite, Goto, TypeOK, Holds, Pushing, Popping
  <2>6. CASE PushPublish(t)
    BY <2>6, PushPublishPreserves
  <2>7. CASE PopLoad(t)
    <3>1. Retriers' /\ SizeWithinCapacity'
      BY <2>7 DEF PopLoad, Goto, TypeOK, RingInv, Retriers, SizeWithinCapacity
    <3>. QED  BY <1>1, <2>7, <3>1 DEF PopLoad, Goto, TypeOK, Holds, Pushing, Popping
  <2>8. CASE PopSeq(t)
    <3>1. Retriers' /\ SizeWithinCapacity'
      BY <2>8 DEF PopSeq, Goto, Return, TypeOK, RingInv, Retriers, SizeWithinCapacity
    <3>. QED  BY <1>1, <2>8, <3>1 DEF PopSeq, Goto, Return, TypeOK, Holds, Pushing, Popping
  <2>9. CASE PopClaim(t)
    BY <2>9, PopClaimPreserves
  <2>10. CASE PopCasFail(t)
    <3>1. Retriers' /\ SizeWithinCapacity'
      BY <2>10 DEF PopCasFail, Goto, TypeOK, RingInv, Retriers, SizeWithinCapacity
    <3>. QED  BY <1>1, <2>10, <3>1 DEF PopCasFail, Goto, TypeOK, Holds, Pushing, Popping
  <2>11. CASE PopRead(t)
    <3>1. Retriers' /\ SizeWithinCapacity'
      BY <2>11 DEF PopRead, Goto, TypeOK, RingInv, Retriers, SizeWithinCapacity
    <3>. QED  BY <1>1, <2>11, <3>1 DEF PopRead, Goto, TypeOK, Holds, Pushing, Popping
  <2>12. CASE PopRelease(t)
    BY <2>12, PopReleasePreserves
  <2>13. CASE SizeLoadHead(t)
    <3>1. Retriers' /\ SizeWithinCapacity'
      BY <2>13 DEF SizeLoadHead, Goto, TypeOK, RingInv, Retriers, SizeWithinCapacity,
                   BoundedOccupancy
    <3>. QED  BY <1>1, <2>13, <3>1 DEF SizeLoadHead, Goto, TypeOK, Holds, Pushing, Popping
  <2>14. CASE SizeLoadTail(t)
    <3>1. Retriers' /\ SizeWithinCapacity'
      BY <2>14 DEF SizeLoadTail, Goto, Return, TypeOK, RingInv, Retriers, SizeWithinCapacity
    <3>. QED  BY <1>1, <2>14, <3>1 DEF SizeLoadTail, Goto, Return, TypeOK, Holds, Pushing, Popping
  <2>. QED
    BY <1>4, <2>1, <2>2, <2>3, <2>4, <2>5, <2>6, <2>7, <2>8, <2>9, <2>10,
       <2>11, <2>12, <2>13, <2>14 DEF Step
<1>. QED  BY <1>2, <1>3, <1>4 DEF Next

\* With at least two cells, the sequence numbers describe the ring exactly in
\* every reachable state, for any number of threads.
THEOREM RingInvariant ==
    ASSUME Capacity >= 2
    PROVE  Spec => []RingInv
<1>1. Init => RingInv
  BY RingInit
<1>2. TypeOK /\ TypeOK' /\ RingInv /\ [Next]_vars => RingInv'
  BY RingStep
<1>. QED  BY <1>1, <1>2, TypeCorrect, PTL DEF Spec

-----------------------------------------------------------------------------
(* What the callers rely on *)

\* All holders are within one lap of each other, so distinct positions are
\* distinct cells.
LEMMA RingInvExcludesRaces ==
    ASSUME TypeOK, RingInv
    PROVE  NoDataRace
<1>. SUFFICES ASSUME NEW t \in Threads, NEW u \in Threads,
                     t # u, Holds(t), Holds(u)
              PROVE  Slot(pos[t]) # Slot(pos[u])
  BY DEF NoDataRace
<1>1. \A w \in Threads : Holds(w) => /\ pos[w] \in Nat /\ pos[w] < head
                                     /\ head <= pos[w] + Capacity
  BY CapacityAssumption DEF TypeOK, RingInv, Holders, Holds, BoundedOccupancy
<1>2. pos[t] # pos[u]
  BY DEF RingInv, UniqueHolder
<1>3. CASE pos[t] < pos[u]
  <2>1. pos[u] < pos[t] + Capacity
    BY <1>1, CapacityAssumption DEF TypeOK
  <2>. QED  BY <1>1, <1>3, <2>1, SlotDistinct
<1>4. CASE pos[u] < pos[t]
  <2>1. pos[t] < pos[u] + Capacity
    BY <1>1, CapacityAssumption DEF TypeOK
  <2>. QED  BY <1>1, <1>4, <2>1, SlotDistinct
<1>. QED  BY <1>1, <1>2, <1>3, <1>4

\* No two threads are inside the same cell at the same time: the plain data
\* member of a cell is never raced on by TryPush (line 100) and TryPop (123).
THEOREM CellsAreExclusive ==
    ASSUME Capacity >= 2
    PROVE  Spec => []NoDataRace
<1>1. TypeOK /\ RingInv => NoDataRace
  BY RingInvExcludesRaces
<1>. QED  BY <1>1, TypeCorrect, RingInvariant, PTL

\* The ring never holds more elements than cells and never pops an unclaimed
\* position, and SizeApprox never reports more than the capacity.
THEOREM OccupancyIsBounded ==
    ASSUME Capacity >= 2
    PROVE  Spec => [](BoundedOccupancy /\ SizeWithinCapacity)
<1>1. RingInv => BoundedOccupancy /\ SizeWithinCapacity
  BY DEF RingInv
<1>. QED  BY <1>1, RingInvariant, PTL

-----------------------------------------------------------------------------
(* The values in the cells.  RingInv says who may touch a cell; DataInv says *)
(* that the value is really there: a published cell holds an element, the   *)
(* pusher has moved its argument in before it publishes, and the popper has *)
(* moved the element out before it releases.                                *)

PushersCarry ==
    \A t \in Threads : pc[t] \in PushPC => val[t] \in Value

PublishedCells ==
    \A p \in tail..(head - 1) : seq[Slot(p)] = p + 1 => data[Slot(p)] \in Value

WrittenCells ==
    \A t \in Threads : pc[t] = "publish" => data[Slot(pos[t])] = val[t]

PoppersCarry ==
    \A t \in Threads : /\ pc[t] = "read" => data[Slot(pos[t])] \in Value
                       /\ pc[t] = "release" => val[t] \in Value

DataInv ==
    /\ PushersCarry
    /\ PublishedCells
    /\ WrittenCells
    /\ PoppersCarry

\* The cell of a position in the ring is not the one that a popping thread
\* empties.
LEMMA PopperIsOutside ==
    ASSUME TypeOK, RingInv, NEW t \in Threads, Popping(t),
           NEW p \in tail..(head - 1)
    PROVE  Slot(p) # Slot(pos[t])
<1>1. /\ pos[t] \in Nat /\ p \in Nat /\ tail \in Nat /\ head \in Nat
      /\ Capacity \in Nat
      /\ pos[t] < tail /\ head <= pos[t] + Capacity
  BY CapacityAssumption DEF TypeOK, RingInv, Holders
<1>2. pos[t] < p /\ p < pos[t] + Capacity
  BY <1>1
<1>. QED  BY <1>1, <1>2, SlotDistinct

\* Two positions in the ring have cells of their own.
LEMMA RingIsInjective ==
    ASSUME TypeOK, RingInv,
           NEW p \in tail..(head - 1), NEW q \in tail..(head - 1), p # q
    PROVE  Slot(p) # Slot(q)
<1>1. /\ p \in Nat /\ q \in Nat /\ tail \in Nat /\ head \in Nat
      /\ Capacity \in Nat /\ head <= tail + Capacity
  BY CapacityAssumption DEF TypeOK, RingInv, BoundedOccupancy
<1>2. p < q \/ q < p
  BY <1>1
<1>3. p < q => q < p + Capacity
  BY <1>1
<1>4. q < p => p < q + Capacity
  BY <1>1
<1>. QED  BY <1>1, <1>2, <1>3, <1>4, SlotDistinct

\* A step that leaves the counters, the cells and the carried values alone
\* keeps DataInv.
LEMMA SameData ==
    ASSUME TypeOK, DataInv,
           UNCHANGED <<head, tail, seq, data>>,
           \A u \in Threads :
               /\ pc'[u] \in PushPC => val'[u] \in Value
               /\ pc'[u] = "publish" => /\ pc[u] = "publish"
                                        /\ pos'[u] = pos[u] /\ val'[u] = val[u]
               /\ pc'[u] = "read" => pc[u] = "read" /\ pos'[u] = pos[u]
               /\ pc'[u] = "release" => pc[u] = "release" /\ val'[u] = val[u]
    PROVE  DataInv'
<1>1. PushersCarry'
  BY DEF PushersCarry
<1>2. PublishedCells'
  BY DEF DataInv, PublishedCells
<1>3. WrittenCells'
  BY DEF DataInv, WrittenCells
<1>4. PoppersCarry'
  BY DEF DataInv, PoppersCarry
<1>. QED  BY <1>1, <1>2, <1>3, <1>4 DEF DataInv

\* Storing a value in the cell of a holder touches no other holder's cell.
LEMMA HoldersApart ==
    ASSUME TypeOK, RingInv, NEW t \in Threads, Holds(t),
           NEW u \in Threads, Holds(u), u # t
    PROVE  Slot(pos[u]) # Slot(pos[t])
  BY RingInvExcludesRaces DEF NoDataRace

\* The compare-and-swap of TryPush (line 91) claims a cell that is not
\* published, so DataInv asks nothing new.
LEMMA DataPushClaim ==
    ASSUME Capacity >= 2, TypeOK, RingInv, DataInv,
           NEW t \in Threads, PushClaim(t)
    PROVE  DataInv'
<1>1. /\ pc[t] = "push_cas" /\ pos[t] = head /\ head' = head + 1
      /\ UNCHANGED <<tail, seq, data, pos, val>>
      /\ pc' = [pc EXCEPT ![t] = "write"]
      /\ head \in Nat /\ tail \in Nat /\ pc \in [Threads -> PC]
  BY DEF PushClaim, Goto, TypeOK
<1>2. seq[Slot(head)] = head
  BY <1>1, ClaimedCellIsFree
<1>3. PushersCarry'
  BY <1>1 DEF DataInv, PushersCarry, PushPC
<1>4. PublishedCells'
  <2>. SUFFICES ASSUME NEW p \in tail..(head + 1 - 1), seq[Slot(p)] = p + 1
                PROVE  data[Slot(p)] \in Value
    BY <1>1 DEF PublishedCells
  <2>1. p # head
    BY <1>1, <1>2
  <2>2. p \in tail..(head - 1)
    BY <1>1, <2>1
  <2>. QED  BY <2>2 DEF DataInv, PublishedCells
<1>5. WrittenCells'
  BY <1>1 DEF DataInv, WrittenCells
<1>6. PoppersCarry'
  BY <1>1 DEF DataInv, PoppersCarry
<1>. QED  BY <1>3, <1>4, <1>5, <1>6 DEF DataInv

\* The assignment to the cell (line 100) changes the pusher's own cell only.
LEMMA DataPushWrite ==
    ASSUME TypeOK, RingInv, DataInv, NEW t \in Threads, PushWrite(t)
    PROVE  DataInv'
<1>1. /\ pc[t] = "write"
      /\ data' = [data EXCEPT ![Slot(pos[t])] = val[t]]
      /\ UNCHANGED <<head, tail, seq, pos, val>>
      /\ pc' = [pc EXCEPT ![t] = "publish"]
      /\ pc \in [Threads -> PC] /\ data \in [Cells -> Value \cup {NoValue}]
  BY DEF PushWrite, Goto, TypeOK
<1>2. val[t] \in Value /\ Slot(pos[t]) \in Cells
  BY <1>1, SlotInRange DEF DataInv, PushersCarry, PushPC, TypeOK
<1>3. \A u \in Threads : Holds(u) /\ u # t => Slot(pos[u]) # Slot(pos[t])
  BY <1>1, HoldersApart DEF Holds, Pushing
<1>4. \A u \in Threads : Holds(u) => Slot(pos[u]) \in Cells
  BY SlotInRange DEF TypeOK
<1>5. PushersCarry'
  BY <1>1 DEF DataInv, PushersCarry, PushPC
<1>6. PublishedCells'
  <2>. SUFFICES ASSUME NEW p \in tail..(head - 1), seq[Slot(p)] = p + 1
                PROVE  data'[Slot(p)] \in Value
    BY <1>1 DEF PublishedCells
  <2>1. data[Slot(p)] \in Value
    BY DEF DataInv, PublishedCells
  <2>2. Slot(p) \in Cells
    BY SlotInRange DEF TypeOK
  <2>. QED  BY <1>1, <1>2, <2>1, <2>2
<1>7. WrittenCells'
  BY <1>1, <1>2, <1>3, <1>4 DEF DataInv, WrittenCells, Holds, Pushing
<1>8. PoppersCarry'
  BY <1>1, <1>2, <1>3, <1>4 DEF DataInv, PoppersCarry, Holds, Popping
<1>. QED  BY <1>5, <1>6, <1>7, <1>8 DEF DataInv

\* The release store of TryPush publishes a cell that holds its argument.
LEMMA DataPushPublish ==
    ASSUME TypeOK, RingInv, DataInv, NEW t \in Threads, PushPublish(t)
    PROVE  DataInv'
<1>1. /\ pc[t] = "publish"
      /\ seq' = [seq EXCEPT ![Slot(pos[t])] = pos[t] + 1]
      /\ UNCHANGED <<head, tail, data>>
      /\ pc' = [pc EXCEPT ![t] = "idle"]
      /\ pos' = [pos EXCEPT ![t] = 0]
      /\ val' = [val EXCEPT ![t] = NoValue]
      /\ pc \in [Threads -> PC] /\ seq \in [Cells -> Nat]
      /\ pos \in [Threads -> Nat] /\ val \in [Threads -> Value \cup {NoValue}]
  BY DEF PushPublish, Return, Goto, TypeOK
<1>2. data[Slot(pos[t])] \in Value
  BY <1>1 DEF DataInv, PushersCarry, WrittenCells, PushPC
<1>3. PublishedCells'
  <2>. SUFFICES ASSUME NEW p \in tail..(head - 1), seq'[Slot(p)] = p + 1
                PROVE  data[Slot(p)] \in Value
    BY <1>1 DEF PublishedCells
  <2>1. CASE Slot(p) = Slot(pos[t])
    BY <2>1, <1>2
  <2>2. CASE Slot(p) # Slot(pos[t])
    <3>1. Slot(p) \in Cells
      BY SlotInRange DEF TypeOK
    <3>2. seq'[Slot(p)] = seq[Slot(p)]
      BY <1>1, <2>2, <3>1
    <3>. QED  BY <3>2 DEF DataInv, PublishedCells
  <2>. QED  BY <2>1, <2>2
<1>4. PushersCarry'
  BY <1>1 DEF DataInv, PushersCarry, PushPC
<1>5. WrittenCells'
  BY <1>1 DEF DataInv, WrittenCells
<1>6. PoppersCarry'
  BY <1>1 DEF DataInv, PoppersCarry
<1>. QED  BY <1>3, <1>4, <1>5, <1>6 DEF DataInv

\* The compare-and-swap of TryPop (line 114) takes a published cell: there is
\* an element to read.
LEMMA DataPopClaim ==
    ASSUME TypeOK, RingInv, DataInv, NEW t \in Threads, PopClaim(t)
    PROVE  DataInv'
<1>1. /\ pc[t] = "pop_cas" /\ pos[t] = tail /\ tail' = tail + 1
      /\ UNCHANGED <<head, seq, data, pos, val>>
      /\ pc' = [pc EXCEPT ![t] = "read"]
      /\ head \in Nat /\ tail \in Nat /\ pc \in [Threads -> PC]
  BY DEF PopClaim, Goto, TypeOK
<1>2. tail < head /\ seq[Slot(tail)] = tail + 1
  BY <1>1, TakenCellIsFull
<1>3. data[Slot(tail)] \in Value
  <2>1. tail \in tail..(head - 1)
    BY <1>1, <1>2
  <2>. QED  BY <1>2, <2>1 DEF DataInv, PublishedCells
<1>4. PublishedCells'
  <2>1. \A p \in (tail + 1)..(head - 1) : p \in tail..(head - 1)
    BY <1>1
  <2>. QED  BY <1>1, <2>1 DEF DataInv, PublishedCells
<1>5. PushersCarry'
  BY <1>1 DEF DataInv, PushersCarry, PushPC
<1>6. WrittenCells'
  BY <1>1 DEF DataInv, WrittenCells
<1>7. PoppersCarry'
  BY <1>1, <1>3 DEF DataInv, PoppersCarry
<1>. QED  BY <1>4, <1>5, <1>6, <1>7 DEF DataInv

\* The move out of the cell (line 123) empties the popper's own cell only.
LEMMA DataPopRead ==
    ASSUME TypeOK, RingInv, DataInv, NEW t \in Threads, PopRead(t)
    PROVE  DataInv'
<1>1. /\ pc[t] = "read"
      /\ val' = [val EXCEPT ![t] = data[Slot(pos[t])]]
      /\ data' = [data EXCEPT ![Slot(pos[t])] = NoValue]
      /\ UNCHANGED <<head, tail, seq, pos>>
      /\ pc' = [pc EXCEPT ![t] = "release"]
      /\ pc \in [Threads -> PC] /\ data \in [Cells -> Value \cup {NoValue}]
      /\ val \in [Threads -> Value \cup {NoValue}]
  BY DEF PopRead, Goto, TypeOK
<1>2. data[Slot(pos[t])] \in Value /\ Slot(pos[t]) \in Cells
  BY <1>1, SlotInRange DEF DataInv, PoppersCarry, TypeOK
<1>3. \A u \in Threads : Holds(u) /\ u # t => Slot(pos[u]) # Slot(pos[t])
  BY <1>1, HoldersApart DEF Holds, Popping
<1>4. \A u \in Threads : Holds(u) => Slot(pos[u]) \in Cells
  BY SlotInRange DEF TypeOK
<1>5. PushersCarry'
  BY <1>1 DEF DataInv, PushersCarry, PushPC
<1>6. PublishedCells'
  <2>. SUFFICES ASSUME NEW p \in tail..(head - 1), seq[Slot(p)] = p + 1
                PROVE  data'[Slot(p)] \in Value
    BY <1>1 DEF PublishedCells
  <2>1. data[Slot(p)] \in Value
    BY DEF DataInv, PublishedCells
  <2>2. Slot(p) \in Cells
    BY SlotInRange DEF TypeOK
  <2>3. Slot(p) # Slot(pos[t])
    BY <1>1, PopperIsOutside DEF Popping
  <2>. QED  BY <1>1, <2>1, <2>2, <2>3
<1>7. WrittenCells'
  BY <1>1, <1>2, <1>3, <1>4 DEF DataInv, WrittenCells, Holds, Pushing
<1>8. PoppersCarry'
  BY <1>1, <1>2, <1>3, <1>4 DEF DataInv, PoppersCarry, Holds, Popping
<1>. QED  BY <1>5, <1>6, <1>7, <1>8 DEF DataInv

\* The release store of TryPop frees a cell outside of the ring.
LEMMA DataPopRelease ==
    ASSUME TypeOK, RingInv, DataInv, NEW t \in Threads, PopRelease(t)
    PROVE  DataInv'
<1>1. /\ pc[t] = "release"
      /\ seq' = [seq EXCEPT ![Slot(pos[t])] = pos[t] + Capacity]
      /\ UNCHANGED <<head, tail, data>>
      /\ pc' = [pc EXCEPT ![t] = "idle"]
      /\ pos' = [pos EXCEPT ![t] = 0]
      /\ val' = [val EXCEPT ![t] = NoValue]
      /\ pc \in [Threads -> PC] /\ seq \in [Cells -> Nat]
      /\ pos \in [Threads -> Nat] /\ val \in [Threads -> Value \cup {NoValue}]
  BY DEF PopRelease, Return, Goto, TypeOK
<1>2. PublishedCells'
  <2>. SUFFICES ASSUME NEW p \in tail..(head - 1), seq'[Slot(p)] = p + 1
                PROVE  data[Slot(p)] \in Value
    BY <1>1 DEF PublishedCells
  <2>1. Slot(p) # Slot(pos[t])
    BY <1>1, PopperIsOutside DEF Popping
  <2>2. Slot(p) \in Cells
    BY SlotInRange DEF TypeOK
  <2>3. seq'[Slot(p)] = seq[Slot(p)]
    BY <1>1, <2>1, <2>2
  <2>. QED  BY <2>3 DEF DataInv, PublishedCells
<1>3. PushersCarry'
  BY <1>1 DEF DataInv, PushersCarry, PushPC
<1>4. WrittenCells'
  BY <1>1 DEF DataInv, WrittenCells
<1>5. PoppersCarry'
  BY <1>1 DEF DataInv, PoppersCarry
<1>. QED  BY <1>2, <1>3, <1>4, <1>5 DEF DataInv

\* Every step keeps DataInv.
LEMMA DataStep ==
    ASSUME Capacity >= 2, TypeOK, RingInv, DataInv, [Next]_vars
    PROVE  DataInv'
<1>1. CASE UNCHANGED vars
  BY <1>1 DEF vars, DataInv, PushersCarry, PublishedCells, WrittenCells,
              PoppersCarry
<1>2. ASSUME NEW t \in Threads, Start(t)
      PROVE  DataInv'
  <2>1. PICK l \in {"push_load", "pop_load", "size_head"},
             v \in Value \cup {NoValue} :
             Call(t, l, v) /\ (l \in PushPC => v \in Value)
    BY <1>2 DEF Start, PushBegin, PopBegin, SizeBegin, PushPC
  <2>2. /\ UNCHANGED <<head, tail, seq, data, pos>>
        /\ pc' = [pc EXCEPT ![t] = l] /\ val' = [val EXCEPT ![t] = v]
        /\ pc \in [Threads -> PC] /\ val \in [Threads -> Value \cup {NoValue}]
    BY <2>1 DEF Call, Goto, TypeOK
  <2>. QED  BY <2>1, <2>2, SameData DEF DataInv, PushersCarry
<1>3. ASSUME NEW t \in Threads,
             \/ PushLoad(t) \/ PushSeq(t) \/ PushCasFail(t)
             \/ PopLoad(t) \/ PopSeq(t) \/ PopCasFail(t)
             \/ SizeLoadHead(t) \/ SizeLoadTail(t)
      PROVE  DataInv'
  <2>1. /\ UNCHANGED <<head, tail, seq, data>>
        /\ \A u \in Threads \ {t} : /\ pc'[u] = pc[u] /\ val'[u] = val[u]
                                    /\ pos'[u] = pos[u]
        /\ pc'[t] \notin {"publish", "read", "release"}
        /\ pc'[t] \in PushPC => pc[t] \in PushPC /\ val'[t] = val[t]
    BY <1>3 DEF PushLoad, PushSeq, PushCasFail, PopLoad, PopSeq, PopCasFail,
                SizeLoadHead, SizeLoadTail, Goto, Return, TypeOK, PushPC
  <2>. QED  BY <2>1, SameData DEF DataInv, PushersCarry
<1>. QED
  BY <1>1, <1>2, <1>3, DataPushClaim, DataPushWrite, DataPushPublish,
     DataPopClaim, DataPopRead, DataPopRelease DEF Next, Step

\* In every reachable state the published cells hold elements and every thread
\* carries the element it is about to publish or to return.
THEOREM DataInvariant ==
    ASSUME Capacity >= 2
    PROVE  Spec => []DataInv
<1>1. Init => DataInv
  BY SMT DEF Init, DataInv, PushersCarry, PublishedCells, WrittenCells,
             PoppersCarry, PushPC
<1>2. TypeOK /\ RingInv /\ DataInv /\ [Next]_vars => DataInv'
  BY DataStep
<1>. QED  BY <1>1, <1>2, TypeCorrect, RingInvariant, PTL DEF Spec

-----------------------------------------------------------------------------
(* Refinement: the ring is a bounded FIFO *)

\* The thread that is filling position p is the owner of its item.
LEMMA OwnerIsPusher ==
    ASSUME RingInv, NEW t \in Threads, Pushing(t)
    PROVE  Owner(pos[t]) = t
<1>1. \A u \in Threads : Pushing(u) /\ pos[u] = pos[t] => u = t
  BY DEF RingInv, UniqueHolder, Holds
<1>2. \E u \in Threads : Pushing(u) /\ pos[u] = pos[t]
  OBVIOUS
<1>. QED  BY <1>1, <1>2 DEF Owner

\* A position in the ring is published, or its pusher is on its way.
LEMMA ItemCases ==
    ASSUME TypeOK, RingInv, NEW p \in tail..(head - 1)
    PROVE  \/ /\ seq[Slot(p)] = p + 1
              /\ ItemAt(p) = [val |-> data[Slot(p)], owner |-> NoThread]
           \/ \E t \in Threads :
                 /\ Pushing(t) /\ pos[t] = p /\ seq[Slot(p)] = p
                 /\ ItemAt(p) = [val |-> val[t], owner |-> t]
<1>0. p \in Nat
  BY DEF TypeOK
<1>1. CASE seq[Slot(p)] = p + 1
  BY <1>1 DEF ItemAt
<1>2. CASE seq[Slot(p)] # p + 1
  <2>1. PICK t \in Threads : Pushing(t) /\ pos[t] = p /\ seq[Slot(p)] = p
    BY <1>2 DEF RingInv, FilledCells
  <2>2. Owner(p) = t
    BY <2>1, OwnerIsPusher
  <2>. QED  BY <1>2, <2>1, <2>2 DEF ItemAt
<1>. QED  BY <1>1, <1>2

\* The mapped items are a sequence of elements, one per position in the ring.
WellShaped ==
    /\ items \in Seq(Fifo!Item)
    /\ Len(items) = head - tail
    /\ head - tail \in Nat
    /\ \A i \in 1..(head - tail) : tail + i - 1 \in tail..(head - 1)
    /\ \A i \in 1..(head - tail) : \A p \in tail..(head - 1) :
          p = tail + i - 1 => items[i] = ItemAt(p)

\* The ring is well shaped in every reachable state.
LEMMA ItemsShape ==
    ASSUME TypeOK, RingInv, DataInv
    PROVE  WellShaped
<1>1. head \in Nat /\ tail \in Nat /\ head - tail \in Nat
  BY DEF TypeOK, RingInv, BoundedOccupancy
<1>2. \A i \in 1..(head - tail) : tail + i - 1 \in tail..(head - 1)
  BY <1>1
<1>3. \A p \in tail..(head - 1) : ItemAt(p) \in Fifo!Item
  <2>. SUFFICES ASSUME NEW p \in tail..(head - 1) PROVE ItemAt(p) \in Fifo!Item
    OBVIOUS
  <2>1. CASE seq[Slot(p)] = p + 1 /\ ItemAt(p) = [val |-> data[Slot(p)], owner |-> NoThread]
    BY <2>1 DEF DataInv, PublishedCells, Fifo!Item
  <2>2. CASE \E t \in Threads : Pushing(t) /\ ItemAt(p) = [val |-> val[t], owner |-> t]
    BY <2>2 DEF DataInv, PushersCarry, Pushing, PushPC, Fifo!Item
  <2>. QED  BY <2>1, <2>2, ItemCases
<1>4. PICK n \in Nat : n = head - tail
  BY <1>1
<1>5. items \in [1..n -> Fifo!Item]
  BY <1>2, <1>3, <1>4 DEF items
<1>6. items \in Seq(Fifo!Item) /\ Len(items) = n
  BY <1>5
<1>. QED  BY <1>1, <1>2, <1>4, <1>6 DEF items, WellShaped

\* The same in the next state.
LEMMA ItemsShapeNext == TypeOK' /\ RingInv' /\ DataInv' => WellShaped'
<1>1. TypeOK /\ RingInv /\ DataInv => WellShaped
  BY ItemsShape
<1>. QED  BY <1>1, PTL

\* An item stays what it is while its cell, or the pusher that is filling it,
\* is left alone.
LEMMA ItemKept ==
    ASSUME TypeOK, RingInv, TypeOK', RingInv',
           NEW p \in Nat, p \in tail..(head - 1), p \in tail'..(head' - 1),
           seq'[Slot(p)] = seq[Slot(p)],
           seq[Slot(p)] = p + 1 => data'[Slot(p)] = data[Slot(p)],
           \A u \in Threads : Pushing(u) /\ pos[u] = p
                                 => /\ Pushing(u)' /\ pos'[u] = p
                                    /\ val'[u] = val[u]
    PROVE  ItemAt(p)' = ItemAt(p)
<1>1. CASE seq[Slot(p)] = p + 1
  BY <1>1 DEF ItemAt
<1>2. CASE seq[Slot(p)] # p + 1
  <2>1. PICK t \in Threads : Pushing(t) /\ pos[t] = p
    BY <1>2 DEF RingInv, FilledCells
  <2>2. Owner(p) = t
    BY <2>1, OwnerIsPusher
  <2>3. Owner(p)' = t
    <3>1. \A u \in Threads : Pushing(u)' /\ pos'[u] = p => u = t
      BY <2>1 DEF RingInv, UniqueHolder, Holds
    <3>2. Pushing(t)' /\ pos'[t] = p
      BY <2>1
    <3>. QED  BY <3>1, <3>2 DEF Owner
  <2>. QED  BY <1>2, <2>1, <2>2, <2>3 DEF ItemAt
<1>. QED  BY <1>1, <1>2

\* The same for the whole sequence, when the counters do not move.
LEMMA ItemsKept ==
    ASSUME TypeOK, RingInv, TypeOK', RingInv', UNCHANGED <<head, tail>>,
           \A p \in tail..(head - 1) :
               /\ seq'[Slot(p)] = seq[Slot(p)]
               /\ seq[Slot(p)] = p + 1 => data'[Slot(p)] = data[Slot(p)],
           \A u \in Threads : Pushing(u) => /\ Pushing(u)' /\ pos'[u] = pos[u]
                                            /\ val'[u] = val[u]
    PROVE  items' = items
<1>1. head \in Nat /\ tail \in Nat
  BY DEF TypeOK
<1>2. ASSUME NEW p \in tail..(head - 1) PROVE ItemAt(p)' = ItemAt(p)
  <2>1. p \in Nat
    BY <1>1
  <2>. QED  BY <2>1, ItemKept
<1>3. \A i \in 1..(head - tail) : tail + i - 1 \in tail..(head - 1)
  BY <1>1
<1>. QED  BY <1>2, <1>3 DEF items

\* What a thread has taken and not returned yet.
LEMMA HoldingValue ==
    ASSUME NEW t \in Threads
    PROVE  /\ pc[t] = "read" => holding[t] = data[Slot(pos[t])]
           /\ pc[t] = "release" => holding[t] = val[t]
           /\ ~Popping(t) => holding[t] = NoValue
           /\ pc'[t] = "read" => holding'[t] = data'[Slot(pos'[t])]
           /\ pc'[t] = "release" => holding'[t] = val'[t]
           /\ ~Popping(t)' => holding'[t] = NoValue
  BY DEF holding, Popping

\* The popping threads hold what they held while their cells and the values
\* they carry are left alone.
LEMMA HoldingKept ==
    ASSUME \A u \in Threads :
               /\ Popping(u)' <=> Popping(u)
               /\ pc[u] = "read" => \/ /\ pc'[u] = "read"
                                       /\ data'[Slot(pos'[u])] = data[Slot(pos[u])]
                                    \/ /\ pc'[u] = "release"
                                       /\ val'[u] = data[Slot(pos[u])]
               /\ pc[u] = "release" => pc'[u] = "release" /\ val'[u] = val[u]
    PROVE  holding' = holding
<1>1. \A u \in Threads : holding'[u] = holding[u]
  BY HoldingValue DEF Popping
<1>3. holding = [u \in Threads |-> holding[u]]
  BY DEF holding
<1>4. holding' = [u \in Threads |-> holding'[u]]
  BY DEF holding
<1>. QED  BY <1>1, <1>3, <1>4

\* The threads that have not vacated their slot are the popping ones.
LEMMA VacatingArePopping ==
    ASSUME TypeOK, DataInv
    PROVE  Fifo!Vacating = {t \in Threads : Popping(t)}
<1>1. \A t \in Threads : Popping(t) <=> holding[t] # NoValue
  BY HoldingValue, ValueAssumption DEF DataInv, PoppersCarry, Popping
<1>. QED  BY <1>1 DEF Fifo!Vacating

\* A step that moves no element and changes no outcome is a stuttering step.
LEMMA QuietStep ==
    ASSUME TypeOK, RingInv, TypeOK', RingInv', NEW t \in Threads,
           \/ PushLoad(t) \/ PushCasFail(t) \/ PopLoad(t) \/ PopCasFail(t)
           \/ SizeLoadHead(t)
           \/ PushSeq(t) /\ res' = res
           \/ PopSeq(t) /\ res' = res
           \/ PushWrite(t) \/ PopRead(t)
    PROVE  UNCHANGED Fifo!vars
<1>. USE SlotInRange
<1>1. /\ UNCHANGED <<head, tail, seq, res>>
      /\ \A u \in Threads \ {t} : /\ pc'[u] = pc[u] /\ pos'[u] = pos[u]
                                  /\ val'[u] = val[u]
      /\ Pushing(t) => pos'[t] = pos[t] /\ val'[t] = val[t] /\ Pushing(t)'
      /\ Popping(t)' <=> Popping(t)
      /\ data \in [Cells -> Value \cup {NoValue}] /\ pos \in [Threads -> Nat]
  BY DEF PushLoad, PushCasFail, PopLoad, PopCasFail, SizeLoadHead, PushSeq,
         PopSeq, PushWrite, PopRead, Goto, Return, TypeOK, Pushing, Popping
<1>2. CASE PushWrite(t)
  <2>1. /\ pc[t] = "write" /\ data' = [data EXCEPT ![Slot(pos[t])] = val[t]]
        /\ seq[Slot(pos[t])] = pos[t] /\ Holds(t) /\ ~Popping(t)
    BY <1>2 DEF PushWrite, RingInv, Holders, Pushing, Popping, Holds
  <2>2. \A p \in tail..(head - 1) :
           seq[Slot(p)] = p + 1 => data'[Slot(p)] = data[Slot(p)]
    <3>. SUFFICES ASSUME NEW p \in tail..(head - 1), seq[Slot(p)] = p + 1
                  PROVE  data'[Slot(p)] = data[Slot(p)]
      OBVIOUS
    <3>1. pos[t] \in tail..(head - 1) /\ p # pos[t] /\ p \in Nat
      BY <2>1 DEF RingInv, Holders, Pushing, TypeOK
    <3>2. Slot(p) # Slot(pos[t])
      BY <3>1, RingIsInjective
    <3>. QED  BY <1>1, <2>1, <3>1, <3>2
  <2>3. items' = items
    BY <1>1, <2>2, ItemsKept DEF Pushing
  <2>4. holding' = holding
    <3>1. \A u \in Threads : Popping(u) => /\ Slot(pos[u]) # Slot(pos[t]) /\ u # t
                                           /\ Slot(pos[u]) \in Cells
      BY <1>1, <2>1, HoldersApart DEF Holds
    <3>2. \A u \in Threads : Popping(u) => data'[Slot(pos[u])] = data[Slot(pos[u])]
      BY <1>1, <2>1, <3>1
    <3>. QED  BY <1>1, <2>1, <3>1, <3>2, HoldingKept DEF Popping
  <2>. QED  BY <1>1, <2>3, <2>4 DEF Fifo!vars
<1>3. CASE PopRead(t)
  <2>1. /\ pc[t] = "read" /\ data' = [data EXCEPT ![Slot(pos[t])] = NoValue]
        /\ Popping(t) /\ Holds(t) /\ ~Pushing(t)
        /\ pc'[t] = "release" /\ val'[t] = data[Slot(pos[t])]
    BY <1>3 DEF PopRead, Pushing, Popping, Holds, Goto, TypeOK
  <2>2. \A p \in tail..(head - 1) : data'[Slot(p)] = data[Slot(p)]
    <3>. SUFFICES ASSUME NEW p \in tail..(head - 1)
                  PROVE  data'[Slot(p)] = data[Slot(p)]
      OBVIOUS
    <3>1. Slot(p) # Slot(pos[t])
      BY <2>1, PopperIsOutside
    <3>2. Slot(p) \in Cells
      BY DEF TypeOK
    <3>. QED  BY <1>1, <2>1, <3>1, <3>2
  <2>3. items' = items
    BY <1>1, <2>1, <2>2, ItemsKept DEF Pushing
  <2>4. holding' = holding
    <3>1. \A u \in Threads \ {t} : Popping(u) => /\ Slot(pos[u]) # Slot(pos[t])
                                                 /\ Slot(pos[u]) \in Cells
      BY <1>1, <2>1, HoldersApart DEF Holds
    <3>2. \A u \in Threads \ {t} :
             Popping(u) => data'[Slot(pos[u])] = data[Slot(pos[u])]
      BY <1>1, <2>1, <3>1
    <3>. QED  BY <1>1, <2>1, <3>1, <3>2, HoldingKept DEF Popping
  <2>. QED  BY <1>1, <2>3, <2>4 DEF Fifo!vars
<1>4. CASE ~PushWrite(t) /\ ~PopRead(t)
  <2>1. data' = data /\ ~Popping(t)
    BY <1>4 DEF PushLoad, PushCasFail, PopLoad, PopCasFail, SizeLoadHead,
                PushSeq, PopSeq, Popping
  <2>2. items' = items
    BY <1>1, <2>1, ItemsKept DEF Pushing
  <2>3. holding' = holding
    BY <1>1, <2>1, HoldingKept DEF Popping
  <2>. QED  BY <1>1, <2>2, <2>3 DEF Fifo!vars
<1>. QED  BY <1>2, <1>3, <1>4

\* The sequence number of a position that has been popped is beyond it.
LEMMA SeqIsAhead ==
    ASSUME TypeOK, RingInv, NEW p \in Nat, p < tail
    PROVE  p < seq[Slot(p)]
<1>1. /\ head \in Nat /\ tail \in Nat /\ Capacity \in Nat
      /\ tail <= head /\ head <= tail + Capacity
      /\ seq[Slot(p)] \in Nat
  BY SlotInRange, CapacityAssumption DEF TypeOK, RingInv, BoundedOccupancy
<1>2. PICK q \in tail..(tail + Capacity - 1) : Slot(q) = Slot(p) /\ p + Capacity <= q
  BY <1>1, NextLap
<1>3. CASE q \in tail..(head - 1)
  BY <1>1, <1>2, <1>3, CapacityAssumption DEF RingInv, FilledCells
<1>4. CASE q \in head..(tail + Capacity - 1)
  BY <1>1, <1>2, <1>4, CapacityAssumption DEF RingInv, FreeCells
<1>. QED  BY <1>1, <1>2, <1>3, <1>4

\* "full" is answered only when the ring is full or some pop has not vacated
\* its slot.
LEMMA FullIsJustified ==
    ASSUME Capacity >= 2, TypeOK, RingInv, DataInv, NEW t \in Threads,
           pc[t] = "push_seq", seq[Slot(pos[t])] < pos[t]
    PROVE  Len(items) = Capacity \/ Fifo!Vacating # {}
<1>1. /\ head \in Nat /\ tail \in Nat /\ pos[t] \in Nat /\ Capacity \in Nat
      /\ seq \in [Cells -> Nat]
      /\ tail <= head /\ head <= tail + Capacity /\ pos[t] <= head
  BY CapacityAssumption DEF TypeOK, RingInv, BoundedOccupancy, Retriers
<1>2. Len(items) = head - tail
  BY ItemsShape DEF WellShaped
<1>3. SUFFICES ASSUME head - tail # Capacity
               PROVE  \E u \in Threads : Popping(u)
  BY <1>2, VacatingArePopping
<1>4. head < tail + Capacity
  BY <1>1, <1>3
<1>5. CASE pos[t] < tail
  <2>1. pos[t] < seq[Slot(pos[t])]
    BY <1>1, <1>5, SeqIsAhead
  <2>2. seq[Slot(pos[t])] \in Nat
    BY <1>1, SlotInRange
  <2>. QED  BY <1>1, <2>1, <2>2
<1>6. CASE tail <= pos[t] /\ pos[t] < head
  <2>1. pos[t] \in tail..(head - 1)
    BY <1>1, <1>6
  <2>. QED  BY <1>1, <2>1 DEF RingInv, FilledCells
<1>7. CASE pos[t] = head
  <2>1. pos[t] \in head..(tail + Capacity - 1)
    BY <1>1, <1>4, <1>7
  <2>. QED  BY <1>1, <2>1 DEF RingInv, FreeCells
<1>. QED  BY <1>1, <1>5, <1>6, <1>7

\* "empty" is answered only when the ring is empty or its oldest element is
\* still being pushed.
LEMMA EmptyIsJustified ==
    ASSUME Capacity >= 2, TypeOK, RingInv, DataInv, NEW t \in Threads,
           pc[t] = "pop_seq", seq[Slot(pos[t])] < pos[t] + 1
    PROVE  items # <<>> => Head(items).owner # NoThread
<1>1. /\ head \in Nat /\ tail \in Nat /\ pos[t] \in Nat
      /\ tail <= head /\ pos[t] <= tail
  BY DEF TypeOK, RingInv, BoundedOccupancy, Retriers
<1>2. seq[Slot(pos[t])] \in Nat
  BY <1>1, SlotInRange DEF TypeOK
<1>3. pos[t] = tail
  <2>1. pos[t] < tail => pos[t] < seq[Slot(pos[t])]
    BY <1>1, SeqIsAhead
  <2>. QED  BY <1>1, <1>2, <2>1
<1>4. SUFFICES ASSUME items # <<>> PROVE Head(items).owner # NoThread
  OBVIOUS
<1>5. /\ items \in Seq(Fifo!Item) /\ Len(items) = head - tail
      /\ head - tail \in Nat
      /\ \A i \in 1..(head - tail) : \A p \in tail..(head - 1) :
            p = tail + i - 1 => items[i] = ItemAt(p)
  BY ItemsShape DEF WellShaped
<1>6. head - tail >= 1
  <2>1. Len(items) # 0
    BY <1>4, <1>5
  <2>. QED  BY <1>5, <2>1
<1>7. Head(items) = ItemAt(tail)
  <2>1. items[1] = ItemAt(tail)
    <3>1. 1 \in 1..(head - tail) /\ tail = tail + 1 - 1 /\ tail \in tail..(head - 1)
      BY <1>1, <1>6
    <3>. QED  BY <1>5, <3>1
  <2>. QED  BY <2>1, <1>4, <1>5
<1>8. PICK u \in Threads : ItemAt(tail) = [val |-> val[u], owner |-> u]
  <2>1. tail \in tail..(head - 1)
    BY <1>1, <1>6
  <2>2. seq[Slot(tail)] # tail + 1
    BY <1>1, <1>2, <1>3
  <2>. QED  BY <2>1, <2>2, ItemCases
<1>. QED  BY <1>7, <1>8, ValueAssumption

\* The ring has room, and the cell of its next position is vacated, when a push
\* claims it.
LEMMA ClaimHasRoom ==
    ASSUME Capacity >= 2, TypeOK, RingInv, DataInv, NEW t \in Threads, PushClaim(t)
    PROVE  Len(items) + Cardinality(Fifo!Vacating) < Capacity
<1>. DEFINE V == {u \in Threads : Popping(u)}
            lo == head + 1 - Capacity
            f == [u \in V |-> pos[u]]
<1>1. /\ pc[t] = "push_cas" /\ pos[t] = head
      /\ head \in Nat /\ tail \in Nat /\ Capacity \in Nat
      /\ tail <= head /\ head <= tail + Capacity
  BY CapacityAssumption DEF PushClaim, TypeOK, RingInv, BoundedOccupancy
<1>2. head < tail + Capacity /\ seq[Slot(head)] = head
  BY <1>1, ClaimedCellIsFree
<1>3. \A u \in V : pos[u] \in Nat /\ pos[u] < tail /\ head <= pos[u] + Capacity
  BY <1>1 DEF RingInv, Holders, TypeOK
<1>4. \A u \in V : head # pos[u] + Capacity
  <2>. SUFFICES ASSUME NEW u \in V, head = pos[u] + Capacity PROVE FALSE
    OBVIOUS
  <2>1. Slot(head) = Slot(pos[u])
    BY <1>3, SlotLap
  <2>2. seq[Slot(pos[u])] = pos[u] + 1
    BY DEF RingInv, Holders
  <2>. QED  BY <1>1, <1>2, <1>3, <2>1, <2>2
<1>5. \A u \in V : pos[u] \in lo..(tail - 1)
  BY <1>1, <1>3, <1>4
<1>6. f \in Injection(V, lo..(tail - 1))
  <2>1. f \in [V -> lo..(tail - 1)]
    BY <1>5
  <2>2. \A u, w \in V : f[u] = f[w] => u = w
    BY DEF RingInv, UniqueHolder, Holds
  <2>. QED  BY <2>1, <2>2 DEF Injection, IsInjective
<1>7. lo \in Int /\ tail - 1 \in Int
  BY <1>1
<1>8. /\ IsFiniteSet(lo..(tail - 1))
      /\ Cardinality(lo..(tail - 1)) = IF lo > tail - 1 THEN 0 ELSE tail - 1 - lo + 1
  BY <1>7, FS_Interval
<1>. HIDE DEF f, V
<1>9. Cardinality(V) <= Cardinality(lo..(tail - 1)) /\ IsFiniteSet(V)
  BY <1>6, <1>8, FS_Injection
<1>10. Cardinality(V) \in Nat
  BY <1>9, FS_CardinalityType
<1>11. Cardinality(V) <= Capacity - 1 - (head - tail)
  BY <1>1, <1>2, <1>8, <1>9, <1>10
<1>12. Len(items) = head - tail
  BY ItemsShape DEF WellShaped
<1>13. Fifo!Vacating = V
  BY VacatingArePopping DEF V
<1>. QED  BY <1>1, <1>10, <1>11, <1>12, <1>13

\* A step that only sets the outcome of t leaves the abstract queue alone.
LEMMA OutcomeStep ==
    ASSUME TypeOK, RingInv, TypeOK', RingInv', NEW t \in Threads,
           ~Holds(t), ~Holds(t)', UNCHANGED <<head, tail, seq, data>>,
           \A u \in Threads \ {t} : /\ pc'[u] = pc[u] /\ pos'[u] = pos[u]
                                    /\ val'[u] = val[u]
    PROVE  UNCHANGED <<items, holding>>
<1>1. items' = items
  BY ItemsKept DEF Holds, Pushing
<1>2. holding' = holding
  BY HoldingKept DEF Holds, Popping
<1>. QED  BY <1>1, <1>2

\* The compare-and-swap of TryPush (line 91) is the moment an element gets its
\* place in the order.
LEMMA RefineClaim ==
    ASSUME Capacity >= 2, TypeOK, RingInv, DataInv, TypeOK', RingInv', DataInv',
           NEW t \in Threads, PushClaim(t)
    PROVE  Fifo!Claim(t, val[t]) /\ val[t] \in Value
<1>1. /\ pc[t] = "push_cas" /\ pos[t] = head /\ head' = head + 1
      /\ UNCHANGED <<tail, seq, data, pos, val, res>>
      /\ pc' = [pc EXCEPT ![t] = "write"]
      /\ pc \in [Threads -> PC] /\ head \in Nat /\ tail \in Nat
  BY DEF PushClaim, Goto, TypeOK
<1>2. val[t] \in Value
  BY <1>1 DEF DataInv, PushersCarry, PushPC
<1>3. Len(items) + Cardinality(Fifo!Vacating) < Capacity
  BY ClaimHasRoom
<1>4. holding' = holding
  BY <1>1, HoldingKept DEF Popping
<1>5. ASSUME NEW p \in tail..(head - 1) PROVE ItemAt(p)' = ItemAt(p)
  <2>1. p \in Nat /\ p \in tail'..(head' - 1)
    BY <1>1
  <2>2. \A u \in Threads : Pushing(u) => Pushing(u)'
    BY <1>1 DEF Pushing
  <2>. QED  BY <1>1, <2>1, <2>2, ItemKept
<1>0. PICK h \in Nat : h = head
  BY <1>1
<1>6. ItemAt(h)' = [val |-> val[t], owner |-> t]
  <2>1. Pushing(t)' /\ pos'[t] = h
    BY <1>0, <1>1 DEF Pushing
  <2>2. Owner(h)' = t
    <3>1. \A u \in Threads : Pushing(u)' /\ pos'[u] = h => u = t
      BY <2>1 DEF RingInv, UniqueHolder, Holds
    <3>. QED  BY <2>1, <3>1 DEF Owner
  <2>3. seq[Slot(h)] # h + 1
    BY <1>0, <1>1, ClaimedCellIsFree
  <2>. QED  BY <1>1, <2>2, <2>3 DEF ItemAt
<1>7. items' = Append(items, [val |-> val[t], owner |-> t])
  <2>. DEFINE x == [val |-> val[t], owner |-> t]
  <2>1. PICK n \in Nat : n = head - tail
    BY ItemsShape DEF WellShaped
  <2>2. /\ items \in Seq(Fifo!Item) /\ Len(items) = n
        /\ \A i \in 1..n : \A p \in tail..(head - 1) :
              p = tail + i - 1 => items[i] = ItemAt(p)
    BY <2>1, ItemsShape DEF WellShaped
  <2>3. /\ head + 1 - tail = n + 1 /\ h = tail + (n + 1) - 1
        /\ h \in tail..(head + 1 - 1)
        /\ \A i \in 1..n : tail + i - 1 \in tail..(head - 1)
        /\ \A p \in tail..(head - 1) : p \in tail..(head + 1 - 1)
    BY <1>0, <1>1, <2>1
  <2>4. /\ items' \in Seq(Fifo!Item) /\ Len(items') = n + 1
        /\ \A i \in 1..(n + 1) : \A p \in tail..(head + 1 - 1) :
              p = tail + i - 1 => items'[i] = ItemAt(p)'
    BY <1>1, <2>3, ItemsShapeNext DEF WellShaped
  <2>5. x \in Fifo!Item
    BY <1>2 DEF Fifo!Item
  <2>6. ASSUME NEW i \in 1..n PROVE items'[i] = items[i]
    <3>1. PICK p \in tail..(head - 1) : p = tail + i - 1
      BY <2>3
    <3>2. ItemAt(p)' = ItemAt(p)
      BY <1>5
    <3>3. i \in 1..(n + 1) /\ p \in tail..(head + 1 - 1)
      BY <2>3
    <3>. QED  BY <2>2, <2>4, <3>1, <3>2, <3>3
  <2>7. items'[n + 1] = x
    <3>1. n + 1 \in 1..(n + 1)
      OBVIOUS
    <3>. QED  BY <1>6, <2>3, <2>4, <3>1
  <2>8. /\ Append(items, x) \in Seq(Fifo!Item) /\ Len(Append(items, x)) = n + 1
        /\ \A i \in 1..n : Append(items, x)[i] = items[i]
        /\ Append(items, x)[n + 1] = x
    BY <2>2, <2>5
  <2>9. \A i \in 1..(n + 1) : i \in 1..n \/ i = n + 1
    OBVIOUS
  <2>. HIDE DEF x
  <2>10. \A i \in 1..(n + 1) : items'[i] = Append(items, x)[i]
    BY <2>6, <2>7, <2>8, <2>9
  <2>11. items' = Append(items, x)
    BY <2>4, <2>8, <2>10, SeqEqual
  <2>. QED  BY <2>11 DEF x
<1>. QED
  BY <1>1, <1>2, <1>3, <1>4, <1>7 DEF Fifo!Claim, Fifo!Cardinality, Cardinality

\* The release store of TryPush (line 101) publishes the element.
LEMMA RefinePublish ==
    ASSUME Capacity >= 2, TypeOK, RingInv, DataInv, TypeOK', RingInv', DataInv',
           NEW t \in Threads, PushPublish(t)
    PROVE  Fifo!Publish(t)
<1>1. /\ pc[t] = "publish"
      /\ seq' = [seq EXCEPT ![Slot(pos[t])] = pos[t] + 1]
      /\ UNCHANGED <<head, tail, data>>
      /\ pc' = [pc EXCEPT ![t] = "idle"]
      /\ pos' = [pos EXCEPT ![t] = 0]
      /\ val' = [val EXCEPT ![t] = NoValue]
      /\ res' = [res EXCEPT ![t] = "pushed"]
      /\ pc \in [Threads -> PC] /\ seq \in [Cells -> Nat]
      /\ pos \in [Threads -> Nat] /\ val \in [Threads -> Value \cup {NoValue}]
      /\ head \in Nat /\ tail \in Nat
  BY DEF PushPublish, Return, Goto, TypeOK
<1>2. /\ Pushing(t) /\ pos[t] \in tail..(head - 1) /\ pos[t] \in Nat
      /\ seq[Slot(pos[t])] = pos[t] /\ Slot(pos[t]) \in Cells
      /\ data[Slot(pos[t])] = val[t]
  BY <1>1, SlotInRange DEF Pushing, RingInv, Holders, DataInv, WrittenCells
<1>3. holding' = holding
  BY <1>1, HoldingKept DEF Popping
<1>4. ASSUME NEW p \in tail..(head - 1), p # pos[t] PROVE ItemAt(p)' = ItemAt(p)
  <2>1. p \in Nat /\ p \in tail'..(head' - 1) /\ Slot(p) \in Cells
    BY <1>1, SlotInRange
  <2>2. seq'[Slot(p)] = seq[Slot(p)]
    BY <1>1, <1>2, <1>4, <2>1, RingIsInjective
  <2>3. \A u \in Threads : Pushing(u) /\ pos[u] = p
                             => Pushing(u)' /\ pos'[u] = p /\ val'[u] = val[u]
    BY <1>1, <1>4 DEF Pushing
  <2>. QED  BY <1>1, <2>1, <2>2, <2>3, ItemKept
<1>5. /\ ItemAt(pos[t]) = [val |-> val[t], owner |-> t]
      /\ seq'[Slot(pos[t])] = pos[t] + 1
  BY <1>1, <1>2, OwnerIsPusher DEF ItemAt
<1>6. PICK q \in Nat : q = pos[t]
  BY <1>2
<1>7. ItemAt(q)' = [val |-> val[t], owner |-> NoThread]
  BY <1>1, <1>2, <1>5, <1>6 DEF ItemAt
<1>8. PICK k \in 1..(head - tail) : tail + k - 1 = q
  <2>1. q - tail + 1 \in 1..(head - tail) /\ tail + (q - tail + 1) - 1 = q
    BY <1>1, <1>2, <1>6
  <2>. QED  BY <2>1
<1>9. PICK n \in Nat : n = head - tail
  BY ItemsShape DEF WellShaped
<1>10. /\ items \in Seq(Fifo!Item) /\ Len(items) = n
       /\ \A i \in 1..n : tail + i - 1 \in tail..(head - 1)
       /\ \A i \in 1..n : \A p \in tail..(head - 1) :
             p = tail + i - 1 => items[i] = ItemAt(p)
  BY <1>9, ItemsShape DEF WellShaped
<1>11. /\ items' \in Seq(Fifo!Item) /\ Len(items') = n
       /\ \A i \in 1..n : \A p \in tail..(head - 1) :
             p = tail + i - 1 => items'[i] = ItemAt(p)'
  BY <1>1, <1>9, ItemsShapeNext DEF WellShaped
<1>12. items[k] = [val |-> val[t], owner |-> t]
  BY <1>2, <1>5, <1>6, <1>8, <1>9, <1>10
<1>13. items'[k] = [val |-> val[t], owner |-> NoThread]
  BY <1>2, <1>6, <1>7, <1>8, <1>9, <1>11
<1>14. ASSUME NEW i \in 1..n, i # k PROVE items'[i] = items[i]
  <2>1. PICK p \in tail..(head - 1) : p = tail + i - 1
    BY <1>10
  <2>2. p # pos[t]
    BY <1>1, <1>6, <1>8, <1>9, <1>14, <2>1
  <2>3. ItemAt(p)' = ItemAt(p)
    BY <1>4, <2>2
  <2>. QED  BY <1>10, <1>11, <2>1, <2>3
<1>15. items' = [items EXCEPT ![k].owner = NoThread]
  <2>. DEFINE y == [items EXCEPT ![k].owner = NoThread]
  <2>1. [val |-> val[t], owner |-> NoThread] \in Fifo!Item
    BY <1>1 DEF Fifo!Item, DataInv, PushersCarry, PushPC
  <2>2. y = [items EXCEPT ![k] = [val |-> val[t], owner |-> NoThread]]
    <3>1. [items[k] EXCEPT !.owner = NoThread] = [val |-> val[t], owner |-> NoThread]
      BY <1>12
    <3>. QED  BY <3>1
  <2>3. /\ y \in Seq(Fifo!Item) /\ Len(y) = n
        /\ \A i \in 1..n : y[i] = IF i = k THEN [val |-> val[t], owner |-> NoThread]
                                           ELSE items[i]
    BY <1>8, <1>9, <1>10, <2>1, <2>2, ExceptSeq
  <2>. HIDE DEF y
  <2>4. \A i \in 1..n : items'[i] = y[i]
    BY <1>13, <1>14, <2>3
  <2>5. items' = y
    BY <1>11, <2>3, <2>4, SeqEqual
  <2>. QED  BY <2>5 DEF y
<1>16. k \in 1..Len(items) /\ items[k].owner = t
  BY <1>8, <1>9, <1>10, <1>12
<1>. QED  BY <1>1, <1>3, <1>15, <1>16 DEF Fifo!Publish

\* The compare-and-swap of TryPop (line 114) takes the oldest element.
LEMMA RefineTake ==
    ASSUME TypeOK, RingInv, DataInv, TypeOK', RingInv', DataInv',
           NEW t \in Threads, PopClaim(t)
    PROVE  Fifo!Take(t)
<1>1. /\ pc[t] = "pop_cas" /\ pos[t] = tail /\ tail' = tail + 1
      /\ UNCHANGED <<head, seq, data, pos, val, res>>
      /\ pc' = [pc EXCEPT ![t] = "read"]
      /\ head \in Nat /\ tail \in Nat /\ pc \in [Threads -> PC]
  BY DEF PopClaim, Goto, TypeOK
<1>2. tail < head /\ seq[Slot(tail)] = tail + 1 /\ tail \in tail..(head - 1)
  BY <1>1, TakenCellIsFull
<1>3. ItemAt(tail) = [val |-> data[Slot(tail)], owner |-> NoThread]
  BY <1>2 DEF ItemAt
<1>4. PICK n \in Nat : n = head - tail
  BY ItemsShape DEF WellShaped
<1>5. /\ items \in Seq(Fifo!Item) /\ Len(items) = n
      /\ \A i \in 1..n : \A p \in tail..(head - 1) :
            p = tail + i - 1 => items[i] = ItemAt(p)
  BY <1>4, ItemsShape DEF WellShaped
<1>6. n >= 1 /\ head - (tail + 1) = n - 1
  BY <1>1, <1>2, <1>4
<1>7. /\ items' \in Seq(Fifo!Item) /\ Len(items') = n - 1
      /\ \A i \in 1..(n - 1) : \A p \in (tail + 1)..(head - 1) :
            p = tail + 1 + i - 1 => items'[i] = ItemAt(p)'
  BY <1>1, <1>6, ItemsShapeNext DEF WellShaped
<1>8. ASSUME NEW p \in (tail + 1)..(head - 1) PROVE ItemAt(p)' = ItemAt(p)
  <2>1. p \in Nat /\ p \in tail..(head - 1) /\ p \in tail'..(head' - 1)
    BY <1>1
  <2>2. \A u \in Threads : Pushing(u) => Pushing(u)'
    BY <1>1 DEF Pushing
  <2>. QED  BY <1>1, <2>1, <2>2, ItemKept
<1>9. items # <<>>
  BY <1>5, <1>6
<1>10. Head(items) = [val |-> data[Slot(tail)], owner |-> NoThread]
  <2>1. 1 \in 1..n /\ tail = tail + 1 - 1
    BY <1>1, <1>6
  <2>2. items[1] = ItemAt(tail)
    BY <1>2, <1>5, <2>1
  <2>. QED  BY <1>3, <1>5, <1>9, <2>2
<1>11. /\ Tail(items) \in Seq(Fifo!Item) /\ Len(Tail(items)) = n - 1
       /\ \A i \in 1..(n - 1) : Tail(items)[i] = items[i + 1]
  BY <1>5, <1>9, HeadTailProperties
<1>12. ASSUME NEW i \in 1..(n - 1) PROVE items'[i] = items[i + 1]
  <2>1. PICK p \in (tail + 1)..(head - 1) : p = tail + 1 + i - 1
    BY <1>1, <1>4
  <2>2. i + 1 \in 1..n /\ p \in tail..(head - 1) /\ p = tail + (i + 1) - 1
    BY <1>1, <1>6, <2>1
  <2>. QED  BY <1>5, <1>7, <1>8, <2>1, <2>2
<1>13. items' = Tail(items)
  BY <1>7, <1>11, <1>12, SeqEqual
<1>14. holding' = [holding EXCEPT ![t] = data[Slot(tail)]]
  <2>1. holding'[t] = data[Slot(tail)]
    BY <1>1, HoldingValue
  <2>2. \A u \in Threads \ {t} : holding'[u] = holding[u]
    BY <1>1, HoldingValue DEF Popping
  <2>3. holding = [u \in Threads |-> holding[u]]
    BY DEF holding
  <2>4. holding' = [u \in Threads |-> holding'[u]]
    BY DEF holding
  <2>. QED  BY <2>1, <2>2, <2>3, <2>4
<1>15. Head(items).owner = NoThread /\ Head(items).val = data[Slot(tail)]
  BY <1>10
<1>16. holding' = [holding EXCEPT ![t] = Head(items).val]
  BY <1>14, <1>15
<1>. QED  BY <1>1, <1>9, <1>13, <1>15, <1>16 DEF Fifo!Take

\* The release store of TryPop (line 124) vacates the slot and returns the
\* element that was taken.
LEMMA RefineRelease ==
    ASSUME TypeOK, RingInv, DataInv, TypeOK', RingInv',
           NEW t \in Threads, PopRelease(t)
    PROVE  Fifo!Release(t)
<1>1. /\ pc[t] = "release"
      /\ seq' = [seq EXCEPT ![Slot(pos[t])] = pos[t] + Capacity]
      /\ UNCHANGED <<head, tail, data>>
      /\ pc' = [pc EXCEPT ![t] = "idle"]
      /\ pos' = [pos EXCEPT ![t] = 0]
      /\ val' = [val EXCEPT ![t] = NoValue]
      /\ res' = [res EXCEPT ![t] = val[t]]
      /\ pc \in [Threads -> PC] /\ seq \in [Cells -> Nat]
      /\ pos \in [Threads -> Nat] /\ val \in [Threads -> Value \cup {NoValue}]
      /\ head \in Nat /\ tail \in Nat
  BY DEF PopRelease, Return, Goto, TypeOK
<1>2. Popping(t) /\ holding[t] = val[t] /\ val[t] \in Value
  BY <1>1, HoldingValue DEF Popping, DataInv, PoppersCarry
<1>3. \A p \in tail..(head - 1) : seq'[Slot(p)] = seq[Slot(p)]
  <2>. SUFFICES ASSUME NEW p \in tail..(head - 1)
                PROVE  seq'[Slot(p)] = seq[Slot(p)]
    OBVIOUS
  <2>1. Slot(p) # Slot(pos[t])
    BY <1>2, PopperIsOutside
  <2>2. Slot(p) \in Cells
    BY <1>1, SlotInRange
  <2>. QED  BY <1>1, <2>1, <2>2
<1>4. items' = items
  BY <1>1, <1>3, ItemsKept DEF Pushing
<1>5. holding' = [holding EXCEPT ![t] = NoValue]
  <2>1. holding'[t] = NoValue
    BY <1>1, HoldingValue DEF Popping
  <2>2. \A u \in Threads \ {t} : holding'[u] = holding[u]
    BY <1>1, HoldingValue DEF Popping
  <2>3. holding = [u \in Threads |-> holding[u]]
    BY DEF holding
  <2>4. holding' = [u \in Threads |-> holding'[u]]
    BY DEF holding
  <2>. QED  BY <2>1, <2>2, <2>3, <2>4
<1>. QED  BY <1>1, <1>2, <1>4, <1>5, ValueAssumption DEF Fifo!Release

\* Starting a call, and ending SizeApprox, forget the outcome of the last one.
LEMMA RefineBegin ==
    ASSUME TypeOK, RingInv, TypeOK', RingInv',
           NEW t \in Threads, Start(t) \/ SizeLoadTail(t)
    PROVE  Fifo!Begin(t)
<1>1. /\ ~Holds(t) /\ ~Holds(t)' /\ UNCHANGED <<head, tail, seq, data>>
      /\ \A u \in Threads \ {t} : /\ pc'[u] = pc[u] /\ pos'[u] = pos[u]
                                  /\ val'[u] = val[u]
      /\ res' = [res EXCEPT ![t] = "none"]
  BY DEF Start, PushBegin, PopBegin, SizeBegin, Call, SizeLoadTail, Return, Goto,
         TypeOK, Holds, Pushing, Popping
<1>2. UNCHANGED <<items, holding>>
  BY <1>1, OutcomeStep
<1>. QED  BY <1>1, <1>2 DEF Fifo!Begin

\* The answer of TryPush to a sequence number behind its position is "full".
LEMMA RefinePushSeq ==
    ASSUME Capacity >= 2, TypeOK, RingInv, DataInv, TypeOK', RingInv',
           NEW t \in Threads, PushSeq(t)
    PROVE  Fifo!FailPush(t) \/ UNCHANGED Fifo!vars
<1>1. CASE res' = res
  BY <1>1, QuietStep
<1>2. CASE res' # res
  <2>1. /\ pc[t] = "push_seq" /\ seq[Slot(pos[t])] < pos[t]
        /\ res' = [res EXCEPT ![t] = "full"]
        /\ ~Holds(t) /\ ~Holds(t)' /\ UNCHANGED <<head, tail, seq, data>>
        /\ \A u \in Threads \ {t} : /\ pc'[u] = pc[u] /\ pos'[u] = pos[u]
                                    /\ val'[u] = val[u]
    BY <1>2 DEF PushSeq, Return, Goto, TypeOK, Holds, Pushing, Popping
  <2>2. UNCHANGED <<items, holding>>
    BY <2>1, OutcomeStep
  <2>3. Len(items) = Capacity \/ Fifo!Vacating # {}
    BY <2>1, FullIsJustified
  <2>. QED  BY <2>1, <2>2, <2>3 DEF Fifo!FailPush
<1>. QED  BY <1>1, <1>2

\* The answer of TryPop to a sequence number behind its position is "empty".
LEMMA RefinePopSeq ==
    ASSUME Capacity >= 2, TypeOK, RingInv, DataInv, TypeOK', RingInv',
           NEW t \in Threads, PopSeq(t)
    PROVE  Fifo!FailPop(t) \/ UNCHANGED Fifo!vars
<1>1. CASE res' = res
  BY <1>1, QuietStep
<1>2. CASE res' # res
  <2>1. /\ pc[t] = "pop_seq" /\ seq[Slot(pos[t])] < pos[t] + 1
        /\ res' = [res EXCEPT ![t] = "empty"]
        /\ ~Holds(t) /\ ~Holds(t)' /\ UNCHANGED <<head, tail, seq, data>>
        /\ \A u \in Threads \ {t} : /\ pc'[u] = pc[u] /\ pos'[u] = pos[u]
                                    /\ val'[u] = val[u]
    BY <1>2 DEF PopSeq, Return, Goto, TypeOK, Holds, Pushing, Popping
  <2>2. UNCHANGED <<items, holding>>
    BY <2>1, OutcomeStep
  <2>3. items # <<>> => Head(items).owner # NoThread
    BY <2>1, EmptyIsJustified
  <2>. QED  BY <2>1, <2>2, <2>3 DEF Fifo!FailPop
<1>. QED  BY <1>1, <1>2

\* Every step of the ring is a step of the abstract queue or invisible to it.
LEMMA RefineStep ==
    ASSUME Capacity >= 2, TypeOK, RingInv, DataInv, TypeOK', RingInv', DataInv',
           [Next]_vars
    PROVE  [Fifo!Next]_(Fifo!vars)
<1>1. CASE UNCHANGED vars
  <2>1. items' = items
    BY <1>1, ItemsKept DEF vars, Pushing
  <2>2. holding' = holding
    BY <1>1, HoldingKept DEF vars, Popping
  <2>. QED  BY <1>1, <2>1, <2>2 DEF vars, Fifo!vars
<1>2. ASSUME NEW t \in Threads, Start(t) \/ Step(t)
      PROVE  Fifo!Next \/ UNCHANGED Fifo!vars
  <2>1. CASE Start(t) \/ SizeLoadTail(t)
    BY <2>1, RefineBegin DEF Fifo!Next
  <2>2. CASE PushClaim(t)
    BY <2>2, RefineClaim DEF Fifo!Next
  <2>3. CASE PushPublish(t)
    BY <2>3, RefinePublish DEF Fifo!Next
  <2>4. CASE PopClaim(t)
    BY <2>4, RefineTake DEF Fifo!Next
  <2>5. CASE PopRelease(t)
    BY <2>5, RefineRelease DEF Fifo!Next
  <2>6. CASE PushSeq(t)
    BY <2>6, RefinePushSeq DEF Fifo!Next
  <2>7. CASE PopSeq(t)
    BY <2>7, RefinePopSeq DEF Fifo!Next
  <2>8. CASE \/ PushLoad(t) \/ PushCasFail(t) \/ PopLoad(t) \/ PopCasFail(t)
             \/ SizeLoadHead(t) \/ PushWrite(t) \/ PopRead(t)
    BY <2>8, QuietStep
  <2>. QED
    BY <1>2, <2>1, <2>2, <2>3, <2>4, <2>5, <2>6, <2>7, <2>8 DEF Step
<1>. QED  BY <1>1, <1>2 DEF Next

\* With at least two cells LockFreeQueue implements the bounded FIFO, for any
\* number of threads: every element is delivered once and in claim order, "full"
\* and "empty" are only answered where BoundedFifo allows it.
THEOREM RingImplementsFifo ==
    ASSUME Capacity >= 2
    PROVE  Spec => ImplementsFifo
<1>1. Init => Fifo!Init
  <2>. SUFFICES ASSUME Init PROVE Fifo!Init
    OBVIOUS
  <2>1. items = <<>>
    BY DEF Init, items
  <2>2. holding = [t \in Threads |-> NoValue]
    <3>1. \A t \in Threads : holding[t] = NoValue
      BY HoldingValue DEF Init, Popping
    <3>2. holding = [t \in Threads |-> holding[t]]
      BY DEF holding
    <3>. QED  BY <3>1, <3>2
  <2>. QED  BY <2>1, <2>2 DEF Init, Fifo!Init
<1>2. /\ TypeOK /\ RingInv /\ DataInv /\ TypeOK' /\ RingInv' /\ DataInv'
      /\ [Next]_vars
      => [Fifo!Next]_(Fifo!vars)
  BY RefineStep
<1>. QED
  BY <1>1, <1>2, TypeCorrect, RingInvariant, DataInvariant, PTL
     DEF Spec, ImplementsFifo, Fifo!Spec
=============================================================================
