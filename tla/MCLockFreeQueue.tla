-------------------------- MODULE MCLockFreeQueue --------------------------
(* Instances of LockFreeQueue for TLC. *)
EXTENDS LockFreeQueue, TLC

CONSTANTS t1, t2, t3, v1, v2

\* The thread that keeps running in the progress run.
Lone == t1
LoneSpec == Spec /\ LoneFairness(Lone)
LoneOperationEnds == OperationEnds(Lone)

Symmetry == Permutations(Threads) \cup Permutations(Value)
=============================================================================
