------------------------------ MODULE TaskFifo ------------------------------
(***************************************************************************)
(* What a ThreadPool promises and what it asks of its owner, without       *)
(* mutex, condition variable or notifications.                             *)
(*                                                                         *)
(* Promised: a free worker takes the oldest task, one at a time, and the   *)
(* destructor returns only when no task is queued or under way.  Asked:    *)
(* nothing is submitted once the destructor has begun.                     *)
(***************************************************************************)
EXTENDS Sequences

CONSTANTS Workers,  \* threads of the pool
          Task,     \* what is submitted
          None      \* no task

VARIABLES queue,    \* the tasks that wait, oldest first
          hands,    \* per worker, the task it runs, None if it is free
          owner     \* "using" the pool, "destroying" it, or it is "gone"

vars == <<queue, hands, owner>>

Init ==
    /\ queue = <<>>
    /\ hands = [w \in Workers |-> None]
    /\ owner = "using"

Submit(t) ==
    /\ owner = "using"
    /\ queue' = Append(queue, t)
    /\ UNCHANGED <<hands, owner>>

Take(w) ==
    /\ hands[w] = None /\ queue # <<>>
    /\ hands' = [hands EXCEPT ![w] = Head(queue)]
    /\ queue' = Tail(queue)
    /\ UNCHANGED owner

Finish(w) ==
    /\ hands[w] # None
    /\ hands' = [hands EXCEPT ![w] = None]
    /\ UNCHANGED <<queue, owner>>

Destroy ==
    /\ owner = "using"
    /\ owner' = "destroying"
    /\ UNCHANGED <<queue, hands>>

Return ==
    /\ owner = "destroying"
    /\ queue = <<>> /\ \A w \in Workers : hands[w] = None
    /\ owner' = "gone"
    /\ UNCHANGED <<queue, hands>>

Next ==
    \/ \E t \in Task : Submit(t)
    \/ \E w \in Workers : Take(w) \/ Finish(w)
    \/ Destroy \/ Return

Spec == Init /\ [][Next]_vars
=============================================================================
