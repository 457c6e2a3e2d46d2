--------------------------- MODULE Storage_proofs ---------------------------
(***************************************************************************)
(* Proofs about Storage for every number of sinks, SinkPool threads,       *)
(* batches and rows, any number of failing calls and crashes, and Prune    *)
(* running or not.                                                         *)
(*                                                                         *)
(* StorageInv says what an open transaction may hold: whole parts, those   *)
(* of writes that were answered with an error, and the part of the one     *)
(* write that has the mutex.  It covers the paths the code leaves open: a  *)
(* COMMIT that fails without a ROLLBACK, a later write that joins the      *)
(* transaction left behind, and a Close under a running write.             *)
(***************************************************************************)
EXTENDS Storage, TLAPS

-----------------------------------------------------------------------------
(* The inductive invariant *)

\* What the transaction of connection c would add to the file and delete from it.
Ins(c) == IF txn[c] = None THEN {} ELSE txn[c].ins
Del(c) == IF txn[c] = None THEN {} ELSE txn[c].del

\* Worker w is inside the critical section of connection c.
Holds(w, c) == task[w].pc \in {"insert", "commit"} /\ task[w].c = c

Types ==
  /\ phase \in {"down", "up", "stopping"}
  /\ conn \in [Conns -> {"null", "open", "leaked"}]
  /\ txn \in [Conns -> Txn \cup {None}]
  /\ mutex \in [Conns -> Workers \cup {None}]
  /\ task \in [Workers -> Task]
  /\ db \subseteq Row /\ pruned \subseteq Row
  /\ faults \in 0..MaxFaults /\ crashes \in 0..MaxCrashes
  /\ backend \in BOOLEAN /\ pruneTimer \in BOOLEAN
  /\ age \in [Batches -> {"new", "young", "expired"}]
  /\ result \in [Batches -> [Part -> {"none", "ok", "skipped", "error"}]]

\* write_mutex_ of a connection is held by the worker inside, and by nobody else.
Locks ==
  /\ \A w \in Workers : task[w].pc \in {"insert", "commit"} => mutex[task[w].c] = w
  /\ \A c \in Conns : mutex[c] # None => Holds(mutex[c], c)

\* A daemon that is up has all its connections, one that is down writes nothing,
\* and a closed connection has no transaction.
Opened ==
  /\ phase = "up" => \A c \in Conns : conn[c] = "open"
  /\ phase = "down" => \A w \in Workers : task[w] = Idle
  /\ \A c \in Conns : conn[c] = "null" => txn[c] = None

\* The rows a write has inserted are in the transaction of its connection.
Inserted ==
  \A w \in Workers :
    /\ At(w, "insert") =>
         /\ txn[task[w].c] # None
         /\ \A r \in RowsOf(task[w].b, task[w].p) : r.i < task[w].i => r \in Ins(task[w].c)
    /\ At(w, "commit") /\ conn[task[w].c] = "open" =>
         /\ txn[task[w].c] # None
         /\ RowsOf(task[w].b, task[w].p) \subseteq Ins(task[w].c)

\* The transaction of an open connection holds whole parts, but for the one that
\* is being inserted ...
WholeParts ==
  \A c \in Conns : conn[c] = "open" =>
    \A b \in Batches, p \in Part :
      \/ RowsOf(b, p) \cap Ins(c) = {}
      \/ RowsOf(b, p) \subseteq Ins(c)
      \/ \E w \in Workers : At(w, "insert") /\ task[w].c = c /\ task[w].b = b /\ task[w].p = p

\* ... and parts whose write has been answered with an error, but for the one that
\* has the mutex.
Answered ==
  \A c \in Conns : conn[c] = "open" =>
    \A r \in Ins(c) : r.p \in Part =>
      \/ result[r.b][r.p] = "error"
      \/ \E w \in Workers : Holds(w, c) /\ task[w].b = r.b /\ task[w].p = r.p

\* It deletes only what Prune found expired.
Deletes == \A c \in Conns : \A r \in Del(c) : r \in pruned /\ age[r.b] = "expired"

\* A batch is written by one worker, whose parts to come have no answer yet.
Pending ==
  /\ \A w \in Workers : task[w] # Idle =>
       /\ task[w].p \notin task[w].rest /\ age[task[w].b] # "new"
       /\ task[w].pc = "mutex" => task[w].i = 1
       /\ \A p \in {task[w].p} \cup task[w].rest : result[task[w].b][p] = "none"
  /\ \A v, w \in Workers : task[v] # Idle /\ task[w] # Idle /\ task[v].b = task[w].b => v = w
  /\ \A b \in Batches : age[b] = "new" => \A p \in Part : result[b][p] = "none"

StorageInv ==
  /\ Types /\ Locks /\ Opened /\ Inserted /\ WholeParts /\ Answered /\ Deletes /\ Pending
  /\ AllOrNothing /\ OkIsStored

-----------------------------------------------------------------------------
(* Steps of the workers, in terms of what they change *)

\* A task that is not idle has its parts.
LEMMA TaskParts ==
  ASSUME Types, NEW w \in Workers, task[w] # Idle
  PROVE  /\ task[w].c \in Conns /\ task[w].b \in Batches /\ task[w].p \in Part
         /\ task[w].rest \subseteq {"smp"} /\ task[w].i \in 1..NumRows
         /\ task[w].pc \in {"mutex", "insert", "commit"}
BY DEF Types, Task, Idle

\* A worker at one of the three places is not idle.
LEMMA BusyAt ==
  ASSUME NEW w \in Workers, task[w].pc \in {"mutex", "insert", "commit"}
  PROVE  task[w] # Idle
BY DEF Idle

\* The worker is at the mutex of the next part of ps, or its write has ended.
PartsCalled(w, c, b, ps, res) ==
  \E t \in Task, R \in [Part -> {"none", "ok", "skipped", "error"}] :
    /\ task' = [task EXCEPT ![w] = t]
    /\ result' = [result EXCEPT ![b] = R]
    /\ \A p \in Part \ ps : R[p] = res[p]
    /\ \A p \in ps : R[p] \in {res[p], "skipped"}
    /\ t # Idle => /\ t.pc = "mutex" /\ t.c = c /\ t.b = b /\ t.p \in ps
                   /\ t.rest = ps \ {t.p} /\ t.i = 1 /\ R = res

\* CallParts sends the worker to the mutex of the next part, or ends the write.
LEMMA CallPartsEffect ==
  ASSUME Types, NEW w \in Workers, NEW c \in Conns, NEW b \in Batches,
         NEW ps \in SUBSET Part, NEW res \in [Part -> {"none", "ok", "skipped", "error"}],
         CallParts(w, c, b, ps, res)
  PROVE  PartsCalled(w, c, b, ps, res)
<1> USE DEF PartsCalled
<1>1. CASE ps = {} \/ conn[c] # "open"
  <2> DEFINE R == [p \in Part |-> IF p \in ps THEN "skipped" ELSE res[p]]
  <2>1. task' = [task EXCEPT ![w] = Idle] /\ result' = [result EXCEPT ![b] = R]
    BY <1>1 DEF CallParts
  <2>2. R \in [Part -> {"none", "ok", "skipped", "error"}]
    OBVIOUS
  <2>3. \A p \in Part : R[p] = IF p \in ps THEN "skipped" ELSE res[p]
    OBVIOUS
  <2>4. Idle \in Task
    BY DEF Task
  <2> HIDE DEF R
  <2>5. /\ \A p \in Part \ ps : R[p] = res[p]
        /\ \A p \in ps : R[p] \in {res[p], "skipped"}
    BY <2>3
  <2> QED  BY <2>1, <2>2, <2>4, <2>5, Zenon
<1>2. CASE ~(ps = {} \/ conn[c] # "open")
  <2> DEFINE first == IF "rec" \in ps THEN "rec" ELSE "smp"
             t == [pc |-> "mutex", c |-> c, b |-> b, p |-> first, rest |-> ps \ {first}, i |-> 1]
  <2>1. task' = [task EXCEPT ![w] = t] /\ result' = [result EXCEPT ![b] = res]
    BY <1>2 DEF CallParts
  <2>2. first \in ps /\ first \in Part /\ ps \ {first} \subseteq {"smp"}
    BY <1>2 DEF Part
  <2>3. 1 \in 1..NumRows
    BY StorageAssumption
  <2> HIDE DEF first
  <2>4. t \in Task
    BY <2>2, <2>3 DEF Task
  <2>5. t.pc = "mutex" /\ t.c = c /\ t.b = b /\ t.p = first /\ t.rest = ps \ {first} /\ t.i = 1
    OBVIOUS
  <2> HIDE DEF t
  <2> QED  BY <2>1, <2>2, <2>4, <2>5, Zenon
<1> QED  BY <1>1, <1>2

\* What the end of a part does: the mutex is free again, the part has its answer, a
\* part to come has none yet or is skipped, and the worker is idle or on its way to
\* the mutex of that part.
Answers(w, res) ==
  /\ mutex' = [mutex EXCEPT ![task[w].c] = None]
  /\ task' \in [Workers -> Task]
  /\ \A v \in Workers \ {w} : task'[v] = task[v]
  /\ task'[w] # Idle =>
       /\ task'[w].pc = "mutex" /\ task'[w].b = task[w].b /\ task'[w].i = 1
       /\ task'[w].p \in task[w].rest /\ task'[w].p \notin task'[w].rest
       /\ task'[w].rest \subseteq task[w].rest
       /\ \A p \in {task'[w].p} \cup task'[w].rest : result'[task[w].b][p] = "none"
  /\ result' \in [Batches -> [Part -> {"none", "ok", "skipped", "error"}]]
  /\ result'[task[w].b][task[w].p] = res
  /\ \A a \in Batches, q \in Part :
       \/ a = task[w].b /\ q = task[w].p
       \/ result'[a][q] = result[a][q]
       \/ a = task[w].b /\ result[a][q] = "none" /\ result'[a][q] = "skipped"

\* Answer does that.
LEMMA AnswerEffect ==
  ASSUME Types, Pending, NEW w \in Workers, task[w] # Idle,
         NEW res \in {"ok", "error"}, Answer(w, res)
  PROVE  Answers(w, res)
<1> DEFINE ps == IF res = "ok" THEN task[w].rest ELSE {}
           old == [result[task[w].b] EXCEPT ![task[w].p] = res]
<1>1. /\ task[w].c \in Conns /\ task[w].b \in Batches /\ task[w].p \in Part
      /\ task[w].rest \subseteq {"smp"}
  BY TaskParts
<1>2. task[w].p \notin task[w].rest /\ \A p \in {task[w].p} \cup task[w].rest : result[task[w].b][p] = "none"
  BY DEF Pending
<1>3. mutex' = [mutex EXCEPT ![task[w].c] = None] /\ CallParts(w, task[w].c, task[w].b, ps, old)
  BY DEF Answer, Unlock
<1>4. ps \in SUBSET Part /\ ps \subseteq task[w].rest
  BY <1>1 DEF Part
<1>5. old \in [Part -> {"none", "ok", "skipped", "error"}]
  BY <1>1 DEF Types
<1>6. old[task[w].p] = res /\ \A q \in Part : q # task[w].p => old[q] = result[task[w].b][q]
  BY <1>1 DEF Types
<1> HIDE DEF ps, old
<1>7. PICK t \in Task, R \in [Part -> {"none", "ok", "skipped", "error"}] :
           /\ task' = [task EXCEPT ![w] = t]
           /\ result' = [result EXCEPT ![task[w].b] = R]
           /\ \A p \in Part \ ps : R[p] = old[p]
           /\ \A p \in ps : R[p] \in {old[p], "skipped"}
           /\ t # Idle => /\ t.pc = "mutex" /\ t.c = task[w].c /\ t.b = task[w].b /\ t.p \in ps
                          /\ t.rest = ps \ {t.p} /\ t.i = 1 /\ R = old
  <2>1. PICK c \in Conns, b \in Batches, qs \in SUBSET Part,
            o \in [Part -> {"none", "ok", "skipped", "error"}] :
          c = task[w].c /\ b = task[w].b /\ qs = ps /\ o = old
    BY <1>1, <1>4, <1>5, Zenon
  <2>2. CallParts(w, c, b, qs, o)
    BY <1>3, <2>1, Zenon
  <2>3. PartsCalled(w, c, b, qs, o)
    BY <2>2, CallPartsEffect
  <2> QED  BY <2>1, <2>3, Zenon DEF PartsCalled
<1>8. /\ task' \in [Workers -> Task] /\ task'[w] = t
      /\ \A v \in Workers \ {w} : task'[v] = task[v]
  BY <1>7 DEF Types
<1>9. /\ result' \in [Batches -> [Part -> {"none", "ok", "skipped", "error"}]]
      /\ result'[task[w].b] = R
      /\ \A a \in Batches : a # task[w].b => result'[a] = result[a]
  BY <1>1, <1>7 DEF Types
<1>10. /\ \A p \in Part \ ps : R[p] = old[p]
       /\ \A p \in ps : R[p] \in {old[p], "skipped"}
       /\ t # Idle => /\ t.pc = "mutex" /\ t.b = task[w].b /\ t.p \in ps
                      /\ t.rest = ps \ {t.p} /\ t.i = 1 /\ R = old
  BY <1>7
<1>11. result'[task[w].b][task[w].p] = res
  BY <1>1, <1>2, <1>4, <1>6, <1>9, <1>10
<1>12. ASSUME NEW a \in Batches, NEW q \in Part
       PROVE  \/ a = task[w].b /\ q = task[w].p
              \/ result'[a][q] = result[a][q]
              \/ a = task[w].b /\ result[a][q] = "none" /\ result'[a][q] = "skipped"
  BY <1>1, <1>2, <1>4, <1>6, <1>9, <1>10
<1>13. t # Idle => \A p \in {t.p} \cup t.rest : R[p] = "none"
  BY <1>1, <1>2, <1>4, <1>6, <1>10
<1>14. t # Idle => t.p \in task[w].rest /\ t.p \notin t.rest /\ t.rest \subseteq task[w].rest
  BY <1>4, <1>10
<1> QED  BY <1>3, <1>8, <1>9, <1>10, <1>11, <1>12, <1>13, <1>14 DEF Answers

\* Answers keeps errors, answers one part Ok at most, and the books of Pending.
LEMMA AnswersPending ==
  ASSUME Types, Pending, NEW w \in Workers, task[w] # Idle,
         NEW res \in {"ok", "error"}, Answers(w, res), age' = age
  PROVE  /\ Pending'
         /\ \A a \in Batches, q \in Part : result[a][q] = "error" => result'[a][q] = "error"
         /\ \A a \in Batches, q \in Part : result'[a][q] = "ok" =>
              result[a][q] = "ok" \/ (res = "ok" /\ a = task[w].b /\ q = task[w].p)
<1>1. /\ task[w].b \in Batches /\ task[w].p \in Part /\ task[w].rest \subseteq {"smp"}
  BY TaskParts
<1>2. result[task[w].b][task[w].p] = "none"
  BY DEF Pending
<1>3. \A a \in Batches, q \in Part : result[a][q] = "error" => result'[a][q] = "error"
  BY <1>1, <1>2 DEF Answers
<1>4. \A a \in Batches, q \in Part : result'[a][q] = "ok" =>
              result[a][q] = "ok" \/ (res = "ok" /\ a = task[w].b /\ q = task[w].p)
  BY <1>1 DEF Answers
<1>5. ASSUME NEW v \in Workers, task'[v] # Idle
      PROVE  /\ task'[v].p \notin task'[v].rest /\ age[task'[v].b] # "new"
             /\ task'[v].pc = "mutex" => task'[v].i = 1
             /\ \A p \in {task'[v].p} \cup task'[v].rest : result'[task'[v].b][p] = "none"
  <2>1. CASE v = w
    BY <2>1, <1>5 DEF Answers, Pending
  <2>2. CASE v # w
    <3>1. task'[v] = task[v] /\ task[v] # Idle
      BY <2>2, <1>5 DEF Answers
    <3>2. task[v].b # task[w].b
      BY <3>1, <2>2 DEF Pending
    <3>3. task[v].b \in Batches /\ task[v].p \in Part /\ task[v].rest \subseteq Part
      BY <3>1, TaskParts DEF Part
    <3>4. \A q \in Part : result'[task[v].b][q] = result[task[v].b][q]
      BY <3>2, <3>3 DEF Answers
    <3> QED  BY <3>1, <3>3, <3>4 DEF Pending
  <2> QED  BY <2>1, <2>2
<1>6. ASSUME NEW u \in Workers, NEW v \in Workers, task'[u] # Idle, task'[v] # Idle,
             task'[u].b = task'[v].b
      PROVE  u = v
  <2>1. \A x \in Workers : task'[x] # Idle => task[x] # Idle /\ task'[x].b = task[x].b
    BY DEF Answers
  <2> QED  BY <1>6, <2>1 DEF Pending
<1>7. ASSUME NEW b \in Batches, age[b] = "new", NEW p \in Part
      PROVE  result'[b][p] = "none"
  <2>1. b # task[w].b
    BY <1>7 DEF Pending
  <2> QED  BY <1>7, <2>1 DEF Answers, Pending
<1> QED  BY <1>3, <1>4, <1>5, <1>6, <1>7 DEF Pending

\* Answers by a worker that has the mutex, or finds it free, keeps Locks.
LEMMA AnswersLocks ==
  ASSUME Types, Locks, NEW w \in Workers, task[w] # Idle,
         NEW res \in {"ok", "error"}, Answers(w, res),
         task[w].pc = "mutex" => mutex[task[w].c] = None
  PROVE  Locks' /\ mutex' \in [Conns -> Workers \cup {None}]
<1>1. task[w].c \in Conns /\ task[w].pc \in {"mutex", "insert", "commit"}
  BY TaskParts
<1>2. /\ mutex' \in [Conns -> Workers \cup {None}] /\ mutex'[task[w].c] = None
      /\ \A c \in Conns : c # task[w].c => mutex'[c] = mutex[c]
  BY <1>1 DEF Types, Answers
<1>3. \A v \in Workers : task'[v].pc \in {"insert", "commit"} => v # w /\ task'[v] = task[v]
  BY DEF Answers, Idle
<1>4. ASSUME NEW v \in Workers, task'[v].pc \in {"insert", "commit"}
      PROVE  mutex'[task'[v].c] = v
  <2>1. v # w /\ task'[v] = task[v] /\ mutex[task[v].c] = v
    BY <1>3, <1>4 DEF Locks
  <2>2. task[v].c \in Conns
    BY <1>4, <2>1, BusyAt, TaskParts
  <2>3. task[v].c # task[w].c
    <3>1. CASE task[w].pc = "mutex"
      BY <3>1, <2>1, NoneAssumption DEF Workers
    <3>2. CASE task[w].pc \in {"insert", "commit"}
      BY <3>2, <2>1 DEF Locks
    <3> QED  BY <1>1, <3>1, <3>2
  <2> QED  BY <1>2, <2>1, <2>2, <2>3
<1>5. ASSUME NEW c \in Conns, mutex'[c] # None
      PROVE  task'[mutex'[c]].pc \in {"insert", "commit"} /\ task'[mutex'[c]].c = c
  <2>1. c # task[w].c /\ mutex'[c] = mutex[c] /\ mutex[c] \in Workers
    BY <1>2, <1>5 DEF Types
  <2>2. task[mutex[c]].pc \in {"insert", "commit"} /\ task[mutex[c]].c = c
    BY <1>5, <2>1 DEF Locks, Holds
  <2>3. mutex[c] # w
    BY <2>1, <2>2
  <2> QED  BY <2>1, <2>2, <2>3 DEF Answers
<1> QED  BY <1>2, <1>4, <1>5 DEF Locks, Holds

\* Two workers are not inside one connection, and nobody is inside one whose mutex
\* is free.
LEMMA Alone ==
  ASSUME Types, Locks, NEW v \in Workers, NEW w \in Workers, v # w,
         task[v].pc \in {"insert", "commit"},
         \/ task[w].pc \in {"insert", "commit"}
         \/ task[w].pc = "mutex" /\ mutex[task[w].c] = None
  PROVE  task[v].c # task[w].c
<1>1. mutex[task[v].c] = v
  BY DEF Locks
<1>2. CASE task[w].pc \in {"insert", "commit"}
  BY <1>1, <1>2 DEF Locks
<1>3. CASE task[w].pc = "mutex" /\ mutex[task[w].c] = None
  BY <1>1, <1>3, NoneAssumption DEF Workers
<1> QED  BY <1>2, <1>3

\* What nothing but the daemon, Prune and the clock change.
Still == phase' = phase /\ conn' = conn /\ age' = age /\ pruned' = pruned

\* The transaction of one connection is as it was, or it is gone.
Dropped(c) ==
  /\ txn' \in [Conns -> Txn \cup {None}]
  /\ \A d \in Conns \ {c} : txn'[d] = txn[d]
  /\ txn'[c] \in {txn[c], None}

\* The part of the invariant that is about the file and the open transactions.
Data == Opened /\ Inserted /\ WholeParts /\ Answered /\ Deletes /\ AllOrNothing /\ OkIsStored

\* A part that ends with an error leaves the file alone; what it had inserted is
\* rolled back, or it had inserted all of it.
LEMMA ErrorKeepsData ==
  ASSUME Types, Locks, Pending, Data, NEW w \in Workers, task[w] # Idle,
         task[w].pc = "mutex" => mutex[task[w].c] = None,
         NEW c \in Conns, c = task[w].c,
         Answers(w, "error"), Still, db' = db, Dropped(c),
         conn[c] = "open" => txn'[c] = None \/ task[w].pc = "commit"
  PROVE  Data'
<1>1. /\ task[w].b \in Batches /\ task[w].p \in Part
      /\ task[w].pc \in {"mutex", "insert", "commit"}
  BY TaskParts
<1>2. \A v \in Workers : task'[v].pc \in {"insert", "commit"} =>
        v # w /\ task'[v] = task[v] /\ task[v].c # c /\ task[v].c \in Conns
  <2>1. \A v \in Workers : task'[v].pc \in {"insert", "commit"} => v # w /\ task'[v] = task[v]
    BY DEF Answers, Idle
  <2>2. \A v \in Workers : task'[v].pc \in {"insert", "commit"} => task[v].c \in Conns
    BY <2>1, BusyAt, TaskParts
  <2> QED  BY <1>1, <2>1, <2>2, Alone
<1>3. /\ \A a \in Batches, q \in Part : result[a][q] = "error" => result'[a][q] = "error"
      /\ \A a \in Batches, q \in Part : result'[a][q] = "ok" => result[a][q] = "ok"
      /\ result'[task[w].b][task[w].p] = "error"
  BY AnswersPending DEF Still, Answers
<1>4. /\ \A d \in Conns \ {c} : txn'[d] = txn[d] /\ Ins(d)' = Ins(d) /\ Del(d)' = Del(d)
      /\ txn'[c] = None => Ins(c)' = {} /\ Del(c)' = {}
      /\ txn'[c] # None => txn'[c] = txn[c] /\ Ins(c)' = Ins(c) /\ Del(c)' = Del(c)
  BY DEF Dropped, Ins, Del
<1>5. Opened'
  BY <1>1, <1>4 DEF Data, Opened, Still, Dropped
<1>6. Inserted'
  <2> SUFFICES ASSUME NEW v \in Workers, task'[v].pc \in {"insert", "commit"}
               PROVE  /\ At(v, "insert")' =>
                           /\ txn'[task'[v].c] # None
                           /\ \A r \in RowsOf(task'[v].b, task'[v].p) : r.i < task'[v].i => r \in Ins(task[v].c)'
                      /\ At(v, "commit")' /\ conn'[task'[v].c] = "open" =>
                           /\ txn'[task'[v].c] # None
                           /\ RowsOf(task'[v].b, task'[v].p) \subseteq Ins(task[v].c)'
    BY DEF Inserted, At
  <2>1. v # w /\ task'[v] = task[v] /\ task[v].c # c /\ task[v].c \in Conns
    BY <1>2
  <2>2. PICK e \in Conns : e = task[v].c
    BY <2>1
  <2>3. txn'[e] = txn[e] /\ Ins(e)' = Ins(e)
    BY <1>4, <2>1, <2>2
  <2>4. Ins(task[v].c) = Ins(e) /\ Ins(task[v].c)' = Ins(e)'
    BY <2>1, <2>2
  <2> QED  BY <2>1, <2>2, <2>3, <2>4 DEF Data, Inserted, At, Still
<1>7. WholeParts'
  <2> SUFFICES ASSUME NEW d \in Conns, conn[d] = "open", NEW b \in Batches, NEW p \in Part
               PROVE  \/ RowsOf(b, p) \cap Ins(d)' = {}
                      \/ RowsOf(b, p) \subseteq Ins(d)'
                      \/ \E v \in Workers : task'[v].pc = "insert" /\ task'[v].c = d /\ task'[v].b = b /\ task'[v].p = p
    BY DEF WholeParts, At, Still
  <2>1. CASE txn'[d] = None
    BY <2>1 DEF Ins
  <2>2. CASE txn'[d] # None
    <3>1. Ins(d)' = Ins(d)
      BY <1>4, <2>2
    <3>2. d = c => task[w].pc = "commit"
      BY <2>2
    <3>3. ASSUME NEW v \in Workers, task[v].pc = "insert", task[v].c = d
          PROVE  task'[v] = task[v]
      <4>1. v # w
        BY <3>2, <3>3
      <4> QED  BY <4>1 DEF Answers
    <3> QED  BY <3>1, <3>3 DEF Data, WholeParts, At
  <2> QED  BY <2>1, <2>2
<1>8. Answered'
  <2> SUFFICES ASSUME NEW d \in Conns, conn[d] = "open", NEW r \in Ins(d)', r.p \in Part
               PROVE  \/ result'[r.b][r.p] = "error"
                      \/ \E v \in Workers : /\ task'[v].pc \in {"insert", "commit"} /\ task'[v].c = d
                                            /\ task'[v].b = r.b /\ task'[v].p = r.p
    BY DEF Answered, Holds, Still
  <2>1. r \in Ins(d)
    BY <1>4
  <2>2. r \in Row /\ r.b \in Batches
    BY <2>1 DEF Types, Txn, Ins, Row
  <2>3. CASE result[r.b][r.p] = "error"
    BY <2>2, <2>3, <1>3
  <2>4. ASSUME NEW v \in Workers, Holds(v, d), task[v].b = r.b, task[v].p = r.p
        PROVE  result'[r.b][r.p] = "error" \/ (v # w /\ task'[v] = task[v])
    BY <2>4, <1>3 DEF Answers
  <2> QED  BY <2>1, <2>3, <2>4 DEF Data, Answered, Holds
<1>9. Deletes'
  <2>1. \A d \in Conns : Del(d)' \subseteq Del(d)
    BY <1>4
  <2> QED  BY <2>1 DEF Data, Deletes, Still
<1>10. AllOrNothing' /\ OkIsStored'
  BY <1>3 DEF Data, AllOrNothing, OkIsStored, Still
<1> QED  BY <1>5, <1>6, <1>7, <1>8, <1>9, <1>10 DEF Data

\* A COMMIT moves the transaction, whole parts, to the file.
LEMMA CommitKeepsData ==
  ASSUME Types, Locks, Pending, Data, NEW w \in Workers, task[w].pc = "commit",
         NEW c \in Conns, c = task[w].c, conn[c] = "open",
         Answers(w, "ok"), Still, db' = (db \cup Ins(c)) \ Del(c), Dropped(c), txn'[c] = None
  PROVE  Data'
<1>1. task[w] # Idle /\ task[w].b \in Batches /\ task[w].p \in Part
  BY BusyAt, TaskParts
<1>2. \A v \in Workers : task'[v].pc \in {"insert", "commit"} =>
        v # w /\ task'[v] = task[v] /\ task[v].c # c /\ task[v].c \in Conns
  <2>1. \A v \in Workers : task'[v].pc \in {"insert", "commit"} => v # w /\ task'[v] = task[v]
    BY DEF Answers, Idle
  <2>2. \A v \in Workers : task'[v].pc \in {"insert", "commit"} => task[v].c \in Conns
    BY <2>1, BusyAt, TaskParts
  <2> QED  BY <2>1, <2>2, Alone
<1>3. /\ \A a \in Batches, q \in Part : result[a][q] = "error" => result'[a][q] = "error"
      /\ \A a \in Batches, q \in Part : result'[a][q] = "ok" =>
           result[a][q] = "ok" \/ (a = task[w].b /\ q = task[w].p)
  BY <1>1, AnswersPending DEF Still
<1>4. /\ \A d \in Conns \ {c} : txn'[d] = txn[d] /\ Ins(d)' = Ins(d) /\ Del(d)' = Del(d)
      /\ Ins(c)' = {} /\ Del(c)' = {}
  BY DEF Dropped, Ins, Del
<1>5. Opened'
  BY <1>1, <1>4 DEF Data, Opened, Still, Dropped
<1>6. Inserted'
  <2> SUFFICES ASSUME NEW v \in Workers, task'[v].pc \in {"insert", "commit"}
               PROVE  /\ At(v, "insert")' =>
                           /\ txn'[task'[v].c] # None
                           /\ \A r \in RowsOf(task'[v].b, task'[v].p) : r.i < task'[v].i => r \in Ins(task[v].c)'
                      /\ At(v, "commit")' /\ conn'[task'[v].c] = "open" =>
                           /\ txn'[task'[v].c] # None
                           /\ RowsOf(task'[v].b, task'[v].p) \subseteq Ins(task[v].c)'
    BY DEF Inserted, At
  <2>1. v # w /\ task'[v] = task[v] /\ task[v].c # c /\ task[v].c \in Conns
    BY <1>2
  <2>2. PICK e \in Conns : e = task[v].c
    BY <2>1
  <2>3. txn'[e] = txn[e] /\ Ins(e)' = Ins(e)
    BY <1>4, <2>1, <2>2
  <2>4. Ins(task[v].c) = Ins(e) /\ Ins(task[v].c)' = Ins(e)'
    BY <2>1, <2>2
  <2> QED  BY <2>1, <2>2, <2>3, <2>4 DEF Data, Inserted, At, Still
<1>7. WholeParts'
  <2> SUFFICES ASSUME NEW d \in Conns, conn[d] = "open", NEW b \in Batches, NEW p \in Part
               PROVE  \/ RowsOf(b, p) \cap Ins(d)' = {}
                      \/ RowsOf(b, p) \subseteq Ins(d)'
                      \/ \E v \in Workers : task'[v].pc = "insert" /\ task'[v].c = d /\ task'[v].b = b /\ task'[v].p = p
    BY DEF WholeParts, At, Still
  <2>1. CASE d = c
    BY <1>4, <2>1
  <2>2. CASE d # c
    <3>1. \A v \in Workers : task[v].pc = "insert" => task'[v] = task[v]
      BY DEF Answers
    <3> QED  BY <2>2, <3>1, <1>4 DEF Data, WholeParts, At
  <2> QED  BY <2>1, <2>2
<1>8. Answered'
  <2> SUFFICES ASSUME NEW d \in Conns, conn[d] = "open", NEW r \in Ins(d)', r.p \in Part
               PROVE  \/ result'[r.b][r.p] = "error"
                      \/ \E v \in Workers : /\ task'[v].pc \in {"insert", "commit"} /\ task'[v].c = d
                                            /\ task'[v].b = r.b /\ task'[v].p = r.p
    BY DEF Answered, Holds, Still
  <2>1. d # c /\ r \in Ins(d)
    BY <1>4
  <2>2. r \in Row /\ r.b \in Batches
    BY <2>1 DEF Types, Txn, Ins, Row
  <2>3. CASE result[r.b][r.p] = "error"
    BY <2>2, <2>3, <1>3
  <2>4. ASSUME NEW v \in Workers, Holds(v, d), task[v].b = r.b, task[v].p = r.p
        PROVE  v # w /\ task'[v] = task[v]
    BY <2>1, <2>4 DEF Answers, Holds
  <2> QED  BY <2>1, <2>3, <2>4 DEF Data, Answered, Holds
<1>9. Deletes'
  <2>1. \A d \in Conns : Del(d)' \subseteq Del(d)
    BY <1>4
  <2> QED  BY <2>1 DEF Data, Deletes, Still
<1>10. Del(c) \subseteq pruned /\ pruned' = pruned /\ db \cup pruned \subseteq db' \cup pruned
  BY DEF Data, Deletes, Still
<1>11. AllOrNothing'
  <2> SUFFICES ASSUME NEW b \in Batches, NEW p \in Part
               PROVE  RowsOf(b, p) \cap db' = {} \/ RowsOf(b, p) \subseteq db' \cup pruned
    BY <1>10 DEF AllOrNothing
  <2>1. RowsOf(b, p) \cap Ins(c) = {} \/ RowsOf(b, p) \subseteq Ins(c)
    <3>1. \A v \in Workers : task[v].pc = "insert" => task[v].c # c
      BY Alone
    <3> QED  BY <3>1 DEF Data, WholeParts, At
  <2>2. RowsOf(b, p) \cap db = {} \/ RowsOf(b, p) \subseteq db \cup pruned
    BY DEF Data, AllOrNothing
  <2> QED  BY <1>10, <2>1, <2>2
<1>12. OkIsStored'
  <2> SUFFICES ASSUME NEW b \in Batches, NEW p \in Part, result'[b][p] = "ok"
               PROVE  RowsOf(b, p) \subseteq db' \cup pruned
    BY <1>10 DEF OkIsStored
  <2>1. CASE result[b][p] = "ok"
    BY <2>1, <1>10 DEF Data, OkIsStored
  <2>2. CASE b = task[w].b /\ p = task[w].p
    <3>1. RowsOf(b, p) \subseteq Ins(c)
      BY <2>2 DEF Data, Inserted, At
    <3> QED  BY <3>1, <1>10
  <2> QED  BY <1>3, <2>1, <2>2
<1> QED  BY <1>5, <1>6, <1>7, <1>8, <1>9, <1>11, <1>12 DEF Data

\* The invariant in the order in which the proofs go through it.
LEMMA Regroup == StorageInv <=> Types /\ Locks /\ Pending /\ Data
BY DEF StorageInv, Data

\* The same about the next state.
LEMMA RegroupNext == StorageInv' <=> (Types /\ Locks /\ Pending /\ Data)'
BY Regroup, PTL

\* A call that fails counts as a fault, within the bound.
LEMMA FaultCounted == ASSUME Types, IoError PROVE faults' \in 0..MaxFaults
BY StorageAssumption DEF Types, IoError

\* An answer with an error keeps the invariant.
LEMMA ErrorKeeps ==
  ASSUME StorageInv, NEW w \in Workers, task[w] # Idle,
         task[w].pc = "mutex" => mutex[task[w].c] = None,
         Answer(w, "error"), UNCHANGED <<daemon, conn, db, ghosts>>,
         Dropped(task[w].c), faults' \in 0..MaxFaults,
         conn[task[w].c] = "open" => txn'[task[w].c] = None \/ task[w].pc = "commit"
  PROVE  StorageInv'
<1>0. Types /\ Locks /\ Pending /\ Data
  BY Regroup
<1>1. PICK c \in Conns : c = task[w].c
  BY <1>0, TaskParts
<1>2. "error" \in {"ok", "error"}
  OBVIOUS
<1>3. Answers(w, "error")
  BY <1>0, <1>2, AnswerEffect
<1>4. Locks' /\ mutex' \in [Conns -> Workers \cup {None}]
  BY <1>0, <1>2, <1>3, AnswersLocks
<1>5. Still /\ db' = db
  BY DEF Still, daemon, ghosts
<1>6. Pending'
  BY <1>0, <1>2, <1>3, <1>5, AnswersPending DEF Still
<1>7. Dropped(c)
  BY <1>1
<1>8. Data'
  BY <1>0, <1>1, <1>3, <1>5, <1>7, ErrorKeepsData
<1>9. Types'
  BY <1>0, <1>3, <1>4, <1>7 DEF Types, Answers, Dropped, daemon, ghosts
<1> QED  BY <1>4, <1>6, <1>8, <1>9, RegroupNext

\* ROLLBACK drops the transaction of an open connection and nothing else.
LEMMA RollbackDrops ==
  ASSUME Types, NEW c \in Conns, Rollback(c)
  PROVE  Dropped(c) /\ (conn[c] = "open" => txn'[c] = None)
BY DEF Types, Rollback, Dropped

\* A statement that cannot be prepared.
LEMMA UnpreparedKeeps ==
  ASSUME StorageInv, NEW w \in Workers, WriteUnprepared(w)
  PROVE  StorageInv'
<1>0. Types
  BY Regroup
<1>1. /\ task[w].pc = "mutex" /\ mutex[task[w].c] = None /\ Answer(w, "error")
      /\ UNCHANGED <<daemon, conn, db, ghosts>> /\ Rollback(task[w].c)
      /\ Misuse(task[w].c) \/ IoError
  BY DEF WriteUnprepared, At
<1>2. task[w] # Idle
  BY <1>1, BusyAt
<1>3. PICK c \in Conns : c = task[w].c
  BY <1>0, <1>2, TaskParts
<1>4. Dropped(c) /\ (conn[c] = "open" => txn'[c] = None)
  BY <1>0, <1>1, <1>3, RollbackDrops
<1>5. faults' \in 0..MaxFaults
  BY <1>0, <1>1, FaultCounted DEF Misuse, Types
<1> QED  BY <1>1, <1>2, <1>3, <1>4, <1>5, ErrorKeeps

\* An INSERT that fails.
LEMMA FailedKeeps ==
  ASSUME StorageInv, NEW w \in Workers, WriteFailed(w)
  PROVE  StorageInv'
<1>0. Types
  BY Regroup
<1>1. /\ task[w].pc = "insert" /\ Answer(w, "error")
      /\ UNCHANGED <<daemon, conn, db, ghosts>> /\ Rollback(task[w].c)
      /\ Busy(task[w].c) \/ IoError
  BY DEF WriteFailed, At
<1>2. task[w] # Idle
  BY <1>1, BusyAt
<1>3. PICK c \in Conns : c = task[w].c
  BY <1>0, <1>2, TaskParts
<1>4. Dropped(c) /\ (conn[c] = "open" => txn'[c] = None)
  BY <1>0, <1>1, <1>3, RollbackDrops
<1>5. faults' \in 0..MaxFaults
  BY <1>0, <1>1, FaultCounted DEF Busy, Types
<1> QED  BY <1>1, <1>2, <1>3, <1>4, <1>5, ErrorKeeps

\* A COMMIT that fails, with its transaction left open or not.
LEMMA CommitFailedKeeps ==
  ASSUME StorageInv, NEW w \in Workers, WriteCommitFailed(w)
  PROVE  StorageInv'
<1>0. Types
  BY Regroup
<1>1. /\ task[w].pc = "commit" /\ Answer(w, "error")
      /\ UNCHANGED <<daemon, conn, db, ghosts>>
      /\ UNCHANGED faults \/ IoError
      /\ txn' = txn \/ txn' = [txn EXCEPT ![task[w].c] = None]
  BY DEF WriteCommitFailed, At
<1>2. task[w] # Idle
  BY <1>1, BusyAt
<1>3. PICK c \in Conns : c = task[w].c
  BY <1>0, <1>2, TaskParts
<1>4. Dropped(c)
  BY <1>0, <1>1, <1>3 DEF Types, Dropped
<1>5. faults' \in 0..MaxFaults
  BY <1>0, <1>1, FaultCounted DEF Types
<1> QED  BY <1>1, <1>2, <1>3, <1>4, <1>5, ErrorKeeps

\* A COMMIT.
LEMMA CommitKeeps ==
  ASSUME StorageInv, NEW w \in Workers, WriteCommit(w)
  PROVE  StorageInv'
<1>0. Types /\ Locks /\ Pending /\ Data
  BY Regroup
<1>1. /\ task[w].pc = "commit" /\ conn[task[w].c] = "open" /\ Answer(w, "ok")
      /\ UNCHANGED <<daemon, conn, faults, ghosts>>
      /\ db' = Visible(task[w].c) /\ txn' = [txn EXCEPT ![task[w].c] = None]
  BY DEF WriteCommit, At
<1>2. task[w] # Idle
  BY <1>1, BusyAt
<1>3. PICK c \in Conns : c = task[w].c
  BY <1>0, <1>2, TaskParts
<1>4. "ok" \in {"ok", "error"}
  OBVIOUS
<1>5. Answers(w, "ok")
  BY <1>0, <1>1, <1>2, <1>4, AnswerEffect
<1>6. Locks' /\ mutex' \in [Conns -> Workers \cup {None}]
  BY <1>0, <1>1, <1>2, <1>4, <1>5, AnswersLocks
<1>7. Still
  BY <1>1 DEF Still, daemon, ghosts
<1>8. Pending'
  BY <1>0, <1>2, <1>4, <1>5, <1>7, AnswersPending DEF Still
<1>9. Dropped(c) /\ txn'[c] = None
  BY <1>0, <1>1, <1>3 DEF Types, Dropped
<1>10. db' = (db \cup Ins(c)) \ Del(c)
  BY <1>1, <1>3 DEF Visible, Ins, Del
<1>11. Data'
  BY <1>0, <1>1, <1>3, <1>5, <1>7, <1>9, <1>10, CommitKeepsData
<1>12. Ins(c) \subseteq Row
  BY <1>0 DEF Types, Txn, Ins
<1>13. Types'
  BY <1>0, <1>1, <1>5, <1>6, <1>9, <1>10, <1>12 DEF Types, Answers, Dropped, daemon, ghosts
<1> QED  BY <1>6, <1>8, <1>11, <1>13, RegroupNext

\* BEGIN: the worker has the mutex, and a transaction, new or left open.
LEMMA BeginKeeps ==
  ASSUME StorageInv, NEW w \in Workers, WriteBegin(w)
  PROVE  StorageInv'
<1>0. Types /\ Locks /\ Pending /\ Data
  BY Regroup
<1>1. /\ task[w].pc = "mutex" /\ mutex[task[w].c] = None /\ conn[task[w].c] = "open"
      /\ mutex' = [mutex EXCEPT ![task[w].c] = w]
      /\ txn' = IF txn[task[w].c] = None THEN [txn EXCEPT ![task[w].c] = [ins |-> {}, del |-> {}]] ELSE txn
      /\ task' = [task EXCEPT ![w].pc = "insert"]
      /\ UNCHANGED <<daemon, conn, db, faults, result, ghosts>>
  BY DEF WriteBegin, At
<1>2. task[w] # Idle
  BY <1>1, BusyAt
<1>3. /\ task[w].b \in Batches /\ task[w].p \in Part /\ task[w].c \in Conns
      /\ task[w].rest \subseteq {"smp"} /\ task[w].i \in 1..NumRows
  BY <1>0, <1>2, TaskParts
<1>4. PICK c \in Conns : c = task[w].c
  BY <1>3
<1>5. /\ task' \in [Workers -> Task]
      /\ \A v \in Workers \ {w} : task'[v] = task[v]
      /\ task'[w].pc = "insert" /\ task'[w].c = c /\ task'[w].b = task[w].b
      /\ task'[w].p = task[w].p /\ task'[w].rest = task[w].rest /\ task'[w].i = task[w].i
  <2>1. PICK t : t = [task[w] EXCEPT !.pc = "insert"]
    OBVIOUS
  <2>2. task[w] \in Task /\ task[w] # Idle
    BY <1>0, <1>2 DEF Types
  <2>3. /\ t \in Task /\ t.pc = "insert" /\ t.c = task[w].c /\ t.b = task[w].b
        /\ t.p = task[w].p /\ t.rest = task[w].rest /\ t.i = task[w].i
    BY <2>1, <2>2 DEF Task
  <2>4. task' = [task EXCEPT ![w] = t]
    BY <1>1, <2>1
  <2>5. task' \in [Workers -> Task] /\ task'[w] = t /\ \A v \in Workers \ {w} : task'[v] = task[v]
    BY <2>3, <2>4, <1>0 DEF Types
  <2> QED  BY <2>3, <2>5, <1>4
<1>6. /\ txn' \in [Conns -> Txn \cup {None}] /\ txn'[c] # None
      /\ \A d \in Conns \ {c} : txn'[d] = txn[d]
  BY <1>0, <1>1, <1>4, NoneAssumption DEF Types, Txn
<1>7. \A d \in Conns : Ins(d)' = Ins(d) /\ Del(d)' = Del(d)
  <2>1. Ins(c)' = Ins(c) /\ Del(c)' = Del(c)
    <3>1. CASE txn[c] = None
      <4>1. txn'[c] = [ins |-> {}, del |-> {}]
        BY <3>1, <1>0, <1>1, <1>4 DEF Types
      <4> QED  BY <3>1, <4>1, <1>6 DEF Ins, Del
    <3>2. CASE txn[c] # None
      BY <3>2, <1>1, <1>4 DEF Ins, Del
    <3> QED  BY <3>1, <3>2
  <2> QED  BY <2>1, <1>6 DEF Ins, Del
<1>8. /\ mutex' \in [Conns -> Workers \cup {None}] /\ mutex'[c] = w
      /\ \A d \in Conns \ {c} : mutex'[d] = mutex[d]
  BY <1>0, <1>1, <1>4 DEF Types
<1>9. /\ conn' = conn /\ phase' = phase /\ db' = db /\ result' = result /\ age' = age /\ pruned' = pruned
      /\ conn[c] = "open" /\ mutex[c] = None
  BY <1>1, <1>4 DEF daemon, ghosts
<1>10. Types'
  BY <1>0, <1>1, <1>5, <1>6, <1>8 DEF Types, daemon, ghosts
<1>11. \A v \in Workers : v # w /\ task[v].pc \in {"insert", "commit"} => task[v].c # c /\ task[v].c \in Conns
  BY <1>0, <1>1, <1>4, Alone, BusyAt, TaskParts
<1>12. Locks'
  <2>1. \A v \in Workers : task'[v].pc \in {"insert", "commit"} => mutex'[task'[v].c] = v
    BY <1>0, <1>5, <1>8, <1>11 DEF Locks
  <2>2. ASSUME NEW d \in Conns, mutex'[d] # None
        PROVE  task'[mutex'[d]].pc \in {"insert", "commit"} /\ task'[mutex'[d]].c = d
    <3>1. CASE d = c
      BY <3>1, <1>5, <1>8
    <3>2. CASE d # c
      BY <3>2, <2>2, <1>0, <1>1, <1>5, <1>8 DEF Locks, Holds, Types
    <3> QED  BY <3>1, <3>2
  <2> QED  BY <2>1, <2>2 DEF Locks, Holds
<1>13. Pending'
  <2>1. \A v \in Workers : /\ task'[v] # Idle => task[v] # Idle
                           /\ task'[v] # Idle => /\ task'[v].b = task[v].b /\ task'[v].p = task[v].p
                                                 /\ task'[v].rest = task[v].rest
                                                 /\ task'[v].pc = "mutex" => task[v].pc = "mutex" /\ task'[v].i = task[v].i
    BY <1>2, <1>5
  <2> QED  BY <2>1, <1>0, <1>9 DEF Pending
<1>14. Opened'
  BY <1>0, <1>2, <1>6, <1>9 DEF Data, Opened
<1>15. Inserted'
  <2> SUFFICES ASSUME NEW v \in Workers
               PROVE  /\ At(v, "insert")' =>
                           /\ txn'[task'[v].c] # None
                           /\ \A r \in RowsOf(task'[v].b, task'[v].p) : r.i < task'[v].i => r \in Ins(task[v].c)'
                      /\ At(v, "commit")' /\ conn'[task'[v].c] = "open" =>
                           /\ txn'[task'[v].c] # None
                           /\ RowsOf(task'[v].b, task'[v].p) \subseteq Ins(task[v].c)'
    BY DEF Inserted, At
  <2>1. CASE v = w
    <3>1. task[w].i = 1
      BY <1>0, <1>1, <1>2 DEF Pending
    <3>2. \A r \in Row : ~(r.i < 1)
      BY DEF Row
    <3> QED  BY <2>1, <3>1, <3>2, <1>5, <1>6 DEF At, RowsOf
  <2>2. CASE v # w
    <3>1. CASE task[v].pc \in {"insert", "commit"}
      <4>1. PICK e \in Conns : e = task[v].c
        BY <1>11, <2>2, <3>1
      <4>2. Ins(task[v].c) = Ins(e) /\ Ins(task[v].c)' = Ins(e)' /\ e # c /\ task'[v] = task[v]
        BY <4>1, <2>2, <1>5, <1>11, <3>1
      <4> QED  BY <4>1, <4>2, <1>0, <1>6, <1>7, <1>9 DEF Data, Inserted, At
    <3>2. CASE task[v].pc \notin {"insert", "commit"}
      BY <3>2, <2>2, <1>5 DEF At
    <3> QED  BY <3>1, <3>2
  <2> QED  BY <2>1, <2>2
<1>16. WholeParts'
  <2>1. \A v \in Workers : task[v].pc = "insert" => task'[v] = task[v]
    BY <1>1, <1>5
  <2> QED  BY <2>1, <1>0, <1>7, <1>9 DEF Data, WholeParts, At
<1>17. Answered'
  <2>1. \A v \in Workers : task[v].pc \in {"insert", "commit"} => task'[v] = task[v]
    BY <1>1, <1>5
  <2> QED  BY <2>1, <1>0, <1>7, <1>9 DEF Data, Answered, Holds
<1>18. Deletes' /\ AllOrNothing' /\ OkIsStored'
  BY <1>0, <1>7, <1>9 DEF Data, Deletes, AllOrNothing, OkIsStored
<1> QED  BY <1>10, <1>12, <1>13, <1>14, <1>15, <1>16, <1>17, <1>18, RegroupNext DEF Data

\* An INSERT adds one row of the part to the transaction.
LEMMA InsertKeeps ==
  ASSUME StorageInv, NEW w \in Workers, WriteInsert(w)
  PROVE  StorageInv'
<1>0. Types /\ Locks /\ Pending /\ Data
  BY Regroup
<1>1. /\ task[w].pc = "insert"
      /\ txn' = [txn EXCEPT ![task[w].c].ins = @ \cup {[b |-> task[w].b, p |-> task[w].p, i |-> task[w].i]}]
      /\ task' = [task EXCEPT ![w] = IF task[w].i < NumRows THEN [task[w] EXCEPT !.i = @ + 1]
                                     ELSE [task[w] EXCEPT !.pc = "commit"]]
      /\ UNCHANGED <<daemon, conn, mutex, db, faults, result, ghosts>>
  BY DEF WriteInsert, At
<1>2. task[w] # Idle
  BY <1>1, BusyAt
<1>3. /\ task[w].b \in Batches /\ task[w].p \in Part /\ task[w].c \in Conns
      /\ task[w].rest \subseteq {"smp"} /\ task[w].i \in 1..NumRows
  BY <1>0, <1>2, TaskParts
<1>4. PICK c \in Conns, b \in Batches, p \in Part, i \in 1..NumRows :
        c = task[w].c /\ b = task[w].b /\ p = task[w].p /\ i = task[w].i
  BY <1>3
<1>5. PICK t : t = IF i < NumRows THEN [task[w] EXCEPT !.i = i + 1] ELSE [task[w] EXCEPT !.pc = "commit"]
  OBVIOUS
<1>6. /\ t \in Task /\ t # Idle /\ t.c = c /\ t.b = b /\ t.p = p /\ t.rest = task[w].rest
      /\ i < NumRows => t.pc = "insert" /\ t.i = i + 1
      /\ ~(i < NumRows) => t.pc = "commit"
      /\ t.pc \in {"insert", "commit"}
  <2>1. task[w] \in Task /\ task[w] # Idle
    BY <1>0, <1>2 DEF Types
  <2>2. i < NumRows => i + 1 \in 1..NumRows
    BY StorageAssumption
  <2>3. CASE i < NumRows
    BY <2>1, <2>2, <2>3, <1>1, <1>4, <1>5 DEF Task, Idle
  <2>4. CASE ~(i < NumRows)
    BY <2>1, <2>4, <1>4, <1>5 DEF Task, Idle
  <2> QED  BY <2>3, <2>4
<1>7. /\ task' \in [Workers -> Task] /\ task'[w] = t
      /\ \A v \in Workers \ {w} : task'[v] = task[v]
  <2>1. task' = [task EXCEPT ![w] = t]
    BY <1>1, <1>4, <1>5
  <2> QED  BY <2>1, <1>0, <1>6 DEF Types
<1>8. PICK row \in Row : row = [b |-> b, p |-> p, i |-> i]
  BY DEF Row, Table
<1>9. row.b = b /\ row.p = p /\ row.i = i
  BY <1>8
<1>10. txn[c] # None /\ txn[c] \in Txn
  BY <1>0, <1>1, <1>4 DEF Data, Inserted, At, Types
<1>11. /\ txn' \in [Conns -> Txn \cup {None}] /\ txn'[c] # None
       /\ txn'[c].ins = txn[c].ins \cup {row} /\ txn'[c].del = txn[c].del
       /\ \A d \in Conns \ {c} : txn'[d] = txn[d]
  <2>1. PICK x : x = [txn[c] EXCEPT !.ins = txn[c].ins \cup {row}]
    OBVIOUS
  <2>2. x \in Txn /\ x.ins = txn[c].ins \cup {row} /\ x.del = txn[c].del
    BY <2>1, <1>8, <1>10 DEF Txn
  <2>3. txn' = [txn EXCEPT ![c] = x]
    BY <2>1, <1>1, <1>4, <1>8
  <2> QED  BY <2>2, <2>3, <1>0, NoneAssumption DEF Types
<1>12. /\ Ins(c)' = Ins(c) \cup {row} /\ Del(c)' = Del(c)
       /\ \A d \in Conns \ {c} : Ins(d)' = Ins(d) /\ Del(d)' = Del(d)
  BY <1>10, <1>11 DEF Ins, Del
<1>13. /\ conn' = conn /\ phase' = phase /\ db' = db /\ result' = result /\ age' = age /\ pruned' = pruned
       /\ mutex' = mutex
  BY <1>1 DEF daemon, ghosts
<1>14. Types'
  BY <1>0, <1>1, <1>7, <1>11 DEF Types, daemon, ghosts
<1>15. \A v \in Workers : v # w /\ task[v].pc \in {"insert", "commit"} => task[v].c # c /\ task[v].c \in Conns
  BY <1>0, <1>1, <1>4, Alone, BusyAt, TaskParts
<1>16. Locks'
  <2>1. \A v \in Workers : /\ task'[v].pc \in {"insert", "commit"} <=> task[v].pc \in {"insert", "commit"}
                           /\ task[v].pc \in {"insert", "commit"} => task'[v].c = task[v].c
    BY <1>1, <1>4, <1>6, <1>7
  <2> QED  BY <2>1, <1>0, <1>13 DEF Locks, Holds, Types
<1>17. Pending'
  <2>1. \A v \in Workers : task'[v] # Idle =>
          /\ task[v] # Idle /\ task'[v].b = task[v].b /\ task'[v].p = task[v].p
          /\ task'[v].rest = task[v].rest
          /\ task'[v].pc = "mutex" => task[v].pc = "mutex" /\ task'[v].i = task[v].i
    BY <1>2, <1>4, <1>6, <1>7
  <2> QED  BY <2>1, <1>0, <1>13 DEF Pending
<1>18. Opened'
  <2>1. conn[c] # "null"
    BY <1>0, <1>10 DEF Data, Opened
  <2> QED  BY <2>1, <1>0, <1>2, <1>11, <1>13 DEF Data, Opened
<1>19. \A r \in RowsOf(b, p) : r.i < i + 1 => r \in Ins(c)'
  <2> SUFFICES ASSUME NEW r \in RowsOf(b, p), r.i < i + 1 PROVE r \in Ins(c)'
    OBVIOUS
  <2>1. r \in Row /\ r.b = b /\ r.p = p /\ r.i \in 1..NumRows
    BY DEF RowsOf, Row
  <2>2. CASE r.i = i
    <3>1. r = row
      BY <2>1, <2>2, <1>8 DEF Row
    <3> QED  BY <3>1, <1>12
  <2>3. CASE r.i < i
    BY <2>3, <1>0, <1>1, <1>4, <1>12 DEF Data, Inserted, At
  <2> QED  BY <2>1, <2>2, <2>3
<1>20. ~(i < NumRows) => RowsOf(b, p) \subseteq Ins(c)'
  <2>1. ~(i < NumRows) => \A r \in RowsOf(b, p) : r.i < i + 1
    BY StorageAssumption DEF RowsOf, Row
  <2> QED  BY <2>1, <1>19
<1>21. Inserted'
  <2> SUFFICES ASSUME NEW v \in Workers
               PROVE  /\ At(v, "insert")' =>
                           /\ txn'[task'[v].c] # None
                           /\ \A r \in RowsOf(task'[v].b, task'[v].p) : r.i < task'[v].i => r \in Ins(task[v].c)'
                      /\ At(v, "commit")' /\ conn'[task'[v].c] = "open" =>
                           /\ txn'[task'[v].c] # None
                           /\ RowsOf(task'[v].b, task'[v].p) \subseteq Ins(task[v].c)'
    BY DEF Inserted, At
  <2>1. CASE v = w
    <3>1. Ins(task[v].c)' = Ins(c)'
      BY <2>1, <1>6, <1>7
    <3>2. task'[v] = t
      BY <2>1, <1>7
    <3> QED  BY <3>1, <3>2, <1>6, <1>11, <1>19, <1>20 DEF At
  <2>2. CASE v # w
    <3>1. CASE task[v].pc \in {"insert", "commit"}
      <4>1. PICK e \in Conns : e = task[v].c
        BY <1>15, <2>2, <3>1
      <4>2. Ins(task[v].c) = Ins(e) /\ Ins(task[v].c)' = Ins(e)' /\ e # c /\ task'[v] = task[v]
        BY <4>1, <2>2, <1>7, <1>15, <3>1
      <4> QED  BY <4>1, <4>2, <1>0, <1>11, <1>12, <1>13 DEF Data, Inserted, At
    <3>2. CASE task[v].pc \notin {"insert", "commit"}
      BY <3>2, <2>2, <1>7 DEF At
    <3> QED  BY <3>1, <3>2
  <2> QED  BY <2>1, <2>2
<1>22. WholeParts'
  <2> SUFFICES ASSUME NEW d \in Conns, conn[d] = "open", NEW a \in Batches, NEW q \in Part
               PROVE  \/ RowsOf(a, q) \cap Ins(d)' = {}
                      \/ RowsOf(a, q) \subseteq Ins(d)'
                      \/ \E v \in Workers : task'[v].pc = "insert" /\ task'[v].c = d /\ task'[v].b = a /\ task'[v].p = q
    BY <1>13 DEF WholeParts, At
  <2>1. \/ RowsOf(a, q) \cap Ins(d) = {}
        \/ RowsOf(a, q) \subseteq Ins(d)
        \/ \E v \in Workers : task[v].pc = "insert" /\ task[v].c = d /\ task[v].b = a /\ task[v].p = q
    BY <1>0 DEF Data, WholeParts, At
  <2>2. CASE d = c /\ a = b /\ q = p
    BY <2>2, <1>6, <1>7, <1>20
  <2>3. CASE d = c /\ ~(a = b /\ q = p)
    <3>1. row \notin RowsOf(a, q)
      BY <2>3, <1>9 DEF RowsOf
    <3>2. \A v \in Workers : task[v].pc = "insert" /\ task[v].c = c => v = w
      BY <1>15
    <3> QED  BY <2>1, <2>3, <3>1, <3>2, <1>4, <1>12
  <2>4. CASE d # c
    <3>1. \A v \in Workers : task[v].pc = "insert" /\ task[v].c = d => task'[v] = task[v]
      BY <2>4, <1>4, <1>7
    <3> QED  BY <2>1, <2>4, <3>1, <1>12
  <2> QED  BY <2>2, <2>3, <2>4
<1>23. Answered'
  <2> SUFFICES ASSUME NEW d \in Conns, conn[d] = "open", NEW r \in Ins(d)', r.p \in Part
               PROVE  \/ result[r.b][r.p] = "error"
                      \/ \E v \in Workers : /\ task'[v].pc \in {"insert", "commit"} /\ task'[v].c = d
                                            /\ task'[v].b = r.b /\ task'[v].p = r.p
    BY <1>13 DEF Answered, Holds
  <2>1. CASE r \in Ins(d)
    <3>1. \A v \in Workers : task[v].pc \in {"insert", "commit"} =>
            /\ task'[v].pc \in {"insert", "commit"} /\ task'[v].c = task[v].c
            /\ task'[v].b = task[v].b /\ task'[v].p = task[v].p
      BY <1>4, <1>6, <1>7
    <3> QED  BY <2>1, <3>1, <1>0 DEF Data, Answered, Holds
  <2>2. CASE d = c /\ r = row
    BY <2>2, <1>6, <1>7, <1>9
  <2> QED  BY <2>1, <2>2, <1>12
<1>24. Deletes' /\ AllOrNothing' /\ OkIsStored'
  BY <1>0, <1>12, <1>13 DEF Data, Deletes, AllOrNothing, OkIsStored
<1> QED  BY <1>14, <1>16, <1>17, <1>18, <1>21, <1>22, <1>23, <1>24, RegroupNext DEF Data

\* Write: a worker takes a batch that nobody has written.
LEMMA WriteKeeps ==
  ASSUME StorageInv, NEW w \in Workers, NEW c \in Conns, NEW b \in Batches, Write(w, c, b)
  PROVE  StorageInv'
<1>0. Types /\ Locks /\ Pending /\ Data
  BY Regroup
<1>1. PICK ps \in SUBSET Part : CallParts(w, c, b, ps, result[b])
  BY DEF Write, Part
<1>2. /\ task[w] = Idle /\ age[b] = "new" /\ age' = [age EXCEPT ![b] = "young"]
      /\ UNCHANGED <<daemon, conn, txn, mutex, db, faults, pruned>>
  BY DEF Write, Free, Fresh
<1>3. PICK res \in [Part -> {"none", "ok", "skipped", "error"}] : res = result[b]
  BY <1>0 DEF Types
<1>4. PartsCalled(w, c, b, ps, res)
  BY <1>0, <1>1, <1>3, CallPartsEffect
<1>5. PICK t \in Task, R \in [Part -> {"none", "ok", "skipped", "error"}] :
         /\ task' = [task EXCEPT ![w] = t]
         /\ result' = [result EXCEPT ![b] = R]
         /\ \A p \in Part \ ps : R[p] = res[p]
         /\ \A p \in ps : R[p] \in {res[p], "skipped"}
         /\ t # Idle => /\ t.pc = "mutex" /\ t.c = c /\ t.b = b /\ t.p \in ps
                        /\ t.rest = ps \ {t.p} /\ t.i = 1 /\ R = res
  BY <1>4, Zenon DEF PartsCalled
<1>6. \A p \in Part : res[p] = "none"
  BY <1>0, <1>2, <1>3 DEF Pending
<1>7. \A p \in Part : R[p] \in {"none", "skipped"}
  BY <1>5, <1>6
<1>8. /\ task' \in [Workers -> Task] /\ task'[w] = t
      /\ \A v \in Workers \ {w} : task'[v] = task[v]
  BY <1>0, <1>5 DEF Types
<1>9. /\ result' \in [Batches -> [Part -> {"none", "ok", "skipped", "error"}]] /\ result'[b] = R
      /\ \A a \in Batches \ {b} : result'[a] = result[a]
  BY <1>0, <1>5 DEF Types
<1>10. /\ age' \in [Batches -> {"new", "young", "expired"}] /\ age'[b] = "young"
       /\ \A a \in Batches \ {b} : age'[a] = age[a]
  BY <1>0, <1>2 DEF Types
<1>11. /\ conn' = conn /\ phase' = phase /\ db' = db /\ pruned' = pruned /\ mutex' = mutex /\ txn' = txn
  BY <1>2 DEF daemon
<1>12. t # Idle => /\ t.pc = "mutex" /\ t.b = b /\ t.p \in Part /\ t.rest \subseteq Part
                   /\ t.p \notin t.rest /\ t.i = 1 /\ R = res
  BY <1>5
<1>13. Types'
  BY <1>0, <1>2, <1>8, <1>9, <1>10 DEF Types, daemon
<1>14. \A v \in Workers : /\ task'[v].pc \in {"insert", "commit"} <=> task[v].pc \in {"insert", "commit"}
                          /\ task[v].pc \in {"insert", "commit"} => task'[v] = task[v]
  BY <1>2, <1>8, <1>12 DEF Idle
<1>15. Locks'
  BY <1>0, <1>11, <1>14 DEF Locks, Holds, Types
<1>16. \A v \in Workers \ {w} : task[v] # Idle => task[v].b # b /\ task[v].b \in Batches
                                                   /\ task[v].p \in Part /\ task[v].rest \subseteq Part
  <2>1. \A v \in Workers : task[v] # Idle => task[v].b # b
    BY <1>0, <1>2 DEF Pending
  <2> QED  BY <2>1, <1>0, TaskParts DEF Part
<1>17. Pending'
  <2>1. ASSUME NEW v \in Workers, task'[v] # Idle
        PROVE  /\ task'[v].p \notin task'[v].rest /\ age'[task'[v].b] # "new"
               /\ task'[v].pc = "mutex" => task'[v].i = 1
               /\ \A p \in {task'[v].p} \cup task'[v].rest : result'[task'[v].b][p] = "none"
    <3>1. CASE v = w
      BY <2>1, <3>1, <1>6, <1>8, <1>9, <1>10, <1>12
    <3>2. CASE v # w
      <4>1. task'[v] = task[v] /\ task[v] # Idle
        BY <2>1, <3>2, <1>8
      <4>2. result'[task[v].b] = result[task[v].b] /\ age'[task[v].b] = age[task[v].b]
        BY <3>2, <4>1, <1>9, <1>10, <1>16
      <4> QED  BY <4>1, <4>2, <1>0 DEF Pending
    <3> QED  BY <3>1, <3>2
  <2>2. ASSUME NEW u \in Workers, NEW v \in Workers, task'[u] # Idle, task'[v] # Idle,
               task'[u].b = task'[v].b
        PROVE  u = v
    <3>1. \A x \in Workers : task'[x] # Idle => (x = w <=> task'[x].b = b)
      BY <1>8, <1>12, <1>16
    <3> QED  BY <2>2, <3>1, <1>0, <1>8 DEF Pending
  <2>3. \A a \in Batches : age'[a] = "new" => \A p \in Part : result'[a][p] = "none"
    BY <1>0, <1>9, <1>10 DEF Pending
  <2> QED  BY <2>1, <2>2, <2>3 DEF Pending
<1>18. \A d \in Conns : Ins(d)' = Ins(d) /\ Del(d)' = Del(d)
  BY <1>11 DEF Ins, Del
<1>19. Opened'
  <2>1. phase # "down"
    BY DEF Write
  <2> QED  BY <2>1, <1>0, <1>11 DEF Data, Opened
<1>20. Inserted'
  <2>1. \A v \in Workers : At(v, "insert")' \/ At(v, "commit")' => task'[v] = task[v] /\ Ins(task[v].c)' = Ins(task[v].c)
    BY <1>11, <1>14 DEF At, Ins
  <2> QED  BY <2>1, <1>0, <1>11 DEF Data, Inserted, At
<1>21. WholeParts'
  BY <1>0, <1>11, <1>14, <1>18 DEF Data, WholeParts, At
<1>22. \A a \in Batches, q \in Part : /\ result[a][q] = "error" => result'[a][q] = "error"
                                      /\ result'[a][q] = "ok" => result[a][q] = "ok"
  BY <1>3, <1>6, <1>7, <1>9
<1>23. Answered'
  <2>1. \A d \in Conns : \A r \in Ins(d) : r.b \in Batches
    BY <1>0 DEF Types, Txn, Ins, Row
  <2> QED  BY <2>1, <1>0, <1>11, <1>14, <1>18, <1>22 DEF Data, Answered, Holds
<1>24. Deletes'
  <2>1. \A d \in Conns : \A r \in Del(d) : r.b \in Batches
    BY <1>0 DEF Types, Txn, Del, Row
  <2> QED  BY <2>1, <1>0, <1>2, <1>10, <1>11, <1>18 DEF Data, Deletes
<1>25. AllOrNothing' /\ OkIsStored'
  BY <1>0, <1>11, <1>22 DEF Data, AllOrNothing, OkIsStored
<1> QED  BY <1>13, <1>15, <1>17, <1>19, <1>20, <1>21, <1>23, <1>24, <1>25, RegroupNext DEF Data

-----------------------------------------------------------------------------
(* The other steps *)

\* The profile of a batch is a row of no part.
LEMMA ProfileRow ==
  ASSUME NEW b \in Batches, NEW row, row = [b |-> b, p |-> "prof", i |-> 1]
  PROVE  /\ row \in Row /\ row.p \notin Part
         /\ \A a \in Batches, q \in Part : row \notin RowsOf(a, q)
BY StorageAssumption DEF Row, RowsOf, Table, Part

\* WriteProfile adds a row that belongs to no part, to the file or to a transaction
\* left open.
LEMMA ProfileKeeps ==
  ASSUME StorageInv, NEW w \in Workers, NEW c \in Conns, NEW b \in Batches, WriteProfile(w, c, b)
  PROVE  StorageInv'
<1>0. Types /\ Locks /\ Pending /\ Data
  BY Regroup
<1>1. PICK row : row = [b |-> b, p |-> "prof", i |-> 1]
  OBVIOUS
<1>2. row \in Row /\ row.p \notin Part /\ \A a \in Batches, q \in Part : row \notin RowsOf(a, q)
  BY <1>1, ProfileRow
<1>3. /\ age[b] = "new" /\ age' = [age EXCEPT ![b] = "young"] /\ conn[c] = "open"
      /\ \/ txn[c] = None /\ db' = db \cup {row} /\ txn' = txn
         \/ txn[c] # None /\ txn' = [txn EXCEPT ![c].ins = @ \cup {row}] /\ db' = db
      /\ UNCHANGED <<daemon, conn, mutex, task, faults, result, pruned>>
  BY <1>1 DEF WriteProfile, Fresh
<1>4. /\ age' \in [Batches -> {"new", "young", "expired"}] /\ age'[b] = "young"
      /\ \A a \in Batches \ {b} : age'[a] = age[a]
  BY <1>0, <1>3 DEF Types
<1>5. /\ conn' = conn /\ phase' = phase /\ pruned' = pruned /\ mutex' = mutex /\ task' = task /\ result' = result
  BY <1>3 DEF daemon
<1>6. /\ txn' \in [Conns -> Txn \cup {None}]
      /\ \A d \in Conns : (txn'[d] = None <=> txn[d] = None)
      /\ \A d \in Conns : Ins(d) \subseteq Ins(d)' /\ Ins(d)' \subseteq Ins(d) \cup {row} /\ Del(d)' = Del(d)
  <2>1. CASE txn' = txn
    BY <2>1, <1>0 DEF Types, Ins, Del
  <2>2. CASE txn[c] # None /\ txn' = [txn EXCEPT ![c].ins = @ \cup {row}]
    <3>1. txn[c] \in Txn
      BY <2>2, <1>0 DEF Types
    <3>2. PICK x : x = [txn[c] EXCEPT !.ins = txn[c].ins \cup {row}]
      OBVIOUS
    <3>3. x \in Txn /\ x.ins = txn[c].ins \cup {row} /\ x.del = txn[c].del
      BY <1>2, <3>1, <3>2 DEF Txn
    <3>4. txn' = [txn EXCEPT ![c] = x]
      BY <2>2, <3>2
    <3>5. /\ txn' \in [Conns -> Txn \cup {None}] /\ txn'[c] = x /\ x # None
          /\ \A d \in Conns \ {c} : txn'[d] = txn[d]
      BY <1>0, <3>3, <3>4, NoneAssumption DEF Types
    <3>6. Ins(c)' = Ins(c) \cup {row} /\ Del(c)' = Del(c)
      BY <2>2, <3>3, <3>5 DEF Ins, Del
    <3>7. \A d \in Conns \ {c} : Ins(d)' = Ins(d) /\ Del(d)' = Del(d)
      BY <3>5 DEF Ins, Del
    <3> QED  BY <2>2, <3>5, <3>6, <3>7
  <2> QED  BY <1>3, <2>1, <2>2
<1>7. db \subseteq db' /\ db' \subseteq db \cup {row}
  BY <1>3
<1>8. Types'
  BY <1>0, <1>2, <1>3, <1>4, <1>6, <1>7 DEF Types, daemon
<1>9. Locks'
  BY <1>0, <1>5 DEF Locks, Holds
<1>10. Pending'
  <2>1. \A v \in Workers : task[v] # Idle => age'[task[v].b] # "new"
    <3>1. \A v \in Workers : task[v] # Idle => task[v].b \in Batches /\ age[task[v].b] # "new"
      BY <1>0, TaskParts DEF Pending
    <3> QED  BY <3>1, <1>4
  <2>2. \A a \in Batches : age'[a] = "new" => age[a] = "new"
    BY <1>4
  <2> QED  BY <2>1, <2>2, <1>0, <1>5 DEF Pending
<1>11. Opened'
  BY <1>0, <1>5, <1>6 DEF Data, Opened
<1>12. Inserted'
  <2>1. ASSUME NEW v \in Workers, task[v].pc \in {"insert", "commit"}
        PROVE  /\ Ins(task[v].c) \subseteq Ins(task[v].c)'
               /\ txn'[task[v].c] = None <=> txn[task[v].c] = None
    <3>1. PICK e \in Conns : e = task[v].c
      BY <2>1, <1>0, BusyAt, TaskParts
    <3>2. Ins(task[v].c) = Ins(e) /\ Ins(task[v].c)' = Ins(e)'
      BY <3>1, <1>5
    <3> QED  BY <3>1, <3>2, <1>6
  <2> QED  BY <2>1, <1>0, <1>5 DEF Data, Inserted, At
<1>13. WholeParts'
  <2> SUFFICES ASSUME NEW d \in Conns, conn[d] = "open", NEW a \in Batches, NEW q \in Part
               PROVE  \/ RowsOf(a, q) \cap Ins(d)' = {}
                      \/ RowsOf(a, q) \subseteq Ins(d)'
                      \/ \E v \in Workers : At(v, "insert") /\ task[v].c = d /\ task[v].b = a /\ task[v].p = q
    BY <1>5 DEF WholeParts, At
  <2>1. row \notin RowsOf(a, q) /\ Ins(d) \subseteq Ins(d)' /\ Ins(d)' \subseteq Ins(d) \cup {row}
    BY <1>2, <1>6
  <2> QED  BY <2>1, <1>0 DEF Data, WholeParts
<1>14. Answered'
  BY <1>0, <1>2, <1>5, <1>6 DEF Data, Answered, Holds
<1>15. Deletes'
  <2>1. \A d \in Conns : \A r \in Del(d) : r.b \in Batches /\ age[r.b] = "expired"
    BY <1>0 DEF Types, Txn, Del, Row, Data, Deletes
  <2> QED  BY <2>1, <1>0, <1>3, <1>4, <1>5, <1>6 DEF Data, Deletes
<1>16. AllOrNothing'
  <2> SUFFICES ASSUME NEW a \in Batches, NEW q \in Part
               PROVE  RowsOf(a, q) \cap db' = {} \/ RowsOf(a, q) \subseteq db' \cup pruned
    BY <1>5 DEF AllOrNothing
  <2>1. row \notin RowsOf(a, q)
    BY <1>2
  <2> QED  BY <2>1, <1>0, <1>7 DEF Data, AllOrNothing
<1>17. OkIsStored'
  BY <1>0, <1>5, <1>7 DEF Data, OkIsStored
<1> QED  BY <1>8, <1>9, <1>10, <1>11, <1>12, <1>13, <1>14, <1>15, <1>16, <1>17, RegroupNext DEF Data

\* What Prune deletes is expired, and goes from the file or with the transaction.
LEMMA PruneEffect ==
  ASSUME Types, NEW w \in Workers, Prune(w)
  PROVE  \E E \in SUBSET Row :
           /\ \A r \in E : age[r.b] = "expired"
           /\ \/ txn[QueryConn] = None /\ db' = db \ E /\ txn' = txn
              \/ /\ txn[QueryConn] # None /\ db' = db
                 /\ txn' = [txn EXCEPT ![QueryConn].del = @ \cup E]
           /\ pruned' = pruned \cup E
           /\ faults' \in 0..MaxFaults
<1>1. PICK done \in SUBSET Table :
       /\ IF done = Table THEN UNCHANGED faults ELSE IoError
       /\ IF txn[QueryConn] = None
          THEN db' = db \ Expired(done) /\ UNCHANGED txn
          ELSE txn' = [txn EXCEPT ![QueryConn].del = @ \cup Expired(done)] /\ UNCHANGED db
       /\ pruned' = pruned \cup Expired(done)
  BY DEF Prune
<1>2. PICK E : E = Expired(done)
  OBVIOUS
<1>3. QueryConn \in Conns
  BY StorageAssumption DEF QueryConn, Conns
<1>4. E \in SUBSET Row /\ \A r \in E : age[r.b] = "expired"
  BY <1>2, <1>3 DEF Expired, Visible, Types, Txn
<1>5. faults' \in 0..MaxFaults
  BY <1>1, FaultCounted DEF Types
<1> QED  BY <1>1, <1>2, <1>4, <1>5

\* Prune.
LEMMA PruneKeeps ==
  ASSUME StorageInv, NEW w \in Workers, Prune(w)
  PROVE  StorageInv'
<1>0. Types /\ Locks /\ Pending /\ Data
  BY Regroup
<1>1. PICK c \in Conns : c = QueryConn
  BY StorageAssumption DEF QueryConn, Conns
<1>2. PICK E \in SUBSET Row :
           /\ \A r \in E : age[r.b] = "expired"
           /\ \/ txn[c] = None /\ db' = db \ E /\ txn' = txn
              \/ txn[c] # None /\ db' = db /\ txn' = [txn EXCEPT ![c].del = @ \cup E]
           /\ pruned' = pruned \cup E
           /\ faults' \in 0..MaxFaults
  BY <1>0, <1>1, PruneEffect
<1>3. UNCHANGED <<daemon, conn, mutex, task, result, age>>
  BY DEF Prune
<1>4. /\ conn' = conn /\ phase' = phase /\ age' = age /\ mutex' = mutex /\ task' = task /\ result' = result
  BY <1>3 DEF daemon
<1>5. /\ txn' \in [Conns -> Txn \cup {None}]
      /\ \A d \in Conns : (txn'[d] = None <=> txn[d] = None)
      /\ \A d \in Conns : Ins(d)' = Ins(d) /\ Del(d)' \subseteq Del(d) \cup E
  <2>1. CASE txn' = txn
    BY <2>1, <1>0 DEF Types, Ins, Del
  <2>2. CASE txn[c] # None /\ txn' = [txn EXCEPT ![c].del = @ \cup E]
    <3>1. txn[c] \in Txn
      BY <2>2, <1>0 DEF Types
    <3>2. PICK x : x = [txn[c] EXCEPT !.del = txn[c].del \cup E]
      OBVIOUS
    <3>3. x \in Txn /\ x.del = txn[c].del \cup E /\ x.ins = txn[c].ins
      BY <1>2, <3>1, <3>2 DEF Txn
    <3>4. txn' = [txn EXCEPT ![c] = x]
      BY <2>2, <3>2
    <3>5. /\ txn' \in [Conns -> Txn \cup {None}] /\ txn'[c] = x /\ x # None
          /\ \A d \in Conns \ {c} : txn'[d] = txn[d]
      BY <1>0, <3>3, <3>4, NoneAssumption DEF Types
    <3>6. Ins(c)' = Ins(c) /\ Del(c)' = Del(c) \cup E
      BY <2>2, <3>3, <3>5 DEF Ins, Del
    <3>7. \A d \in Conns \ {c} : Ins(d)' = Ins(d) /\ Del(d)' = Del(d)
      BY <3>5 DEF Ins, Del
    <3> QED  BY <2>2, <3>5, <3>6, <3>7
  <2> QED  BY <1>2, <2>1, <2>2
<1>6. /\ db' \subseteq db /\ db \cup pruned \subseteq db' \cup pruned'
      /\ pruned' = pruned \cup E /\ \A r \in E : age[r.b] = "expired"
  BY <1>2
<1>7. Types'
  BY <1>0, <1>2, <1>3, <1>5, <1>6 DEF Types, daemon
<1>8. Locks' /\ Pending'
  BY <1>0, <1>4 DEF Locks, Holds, Pending
<1>9. Opened'
  BY <1>0, <1>4, <1>5 DEF Data, Opened
<1>10. Inserted'
  <2>1. ASSUME NEW v \in Workers, task[v].pc \in {"insert", "commit"}
        PROVE  /\ Ins(task[v].c) = Ins(task[v].c)'
               /\ txn'[task[v].c] = None <=> txn[task[v].c] = None
    <3>1. PICK e \in Conns : e = task[v].c
      BY <2>1, <1>0, BusyAt, TaskParts
    <3>2. Ins(task[v].c) = Ins(e) /\ Ins(task[v].c)' = Ins(e)'
      BY <3>1, <1>4
    <3> QED  BY <3>1, <3>2, <1>5
  <2> QED  BY <2>1, <1>0, <1>4 DEF Data, Inserted, At
<1>11. WholeParts' /\ Answered'
  BY <1>0, <1>4, <1>5 DEF Data, WholeParts, Answered, Holds, At
<1>12. Deletes'
  BY <1>0, <1>4, <1>5, <1>6 DEF Data, Deletes
<1>13. AllOrNothing' /\ OkIsStored'
  BY <1>0, <1>4, <1>6 DEF Data, AllOrNothing, OkIsStored
<1> QED  BY <1>7, <1>8, <1>9, <1>10, <1>11, <1>12, <1>13, RegroupNext DEF Data

\* The tasks, the mutexes and the answers are as they were.
Tasks == task' = task /\ mutex' = mutex /\ result' = result

\* The daemon opens the connection of a sink, which has no transaction.
LEMMA StartSinkKeeps ==
  ASSUME StorageInv, NEW c \in Conns, StartSink(c)
  PROVE  StorageInv'
<1>0. Types /\ Locks /\ Pending /\ Data
  BY Regroup
<1>1. /\ phase = "down" /\ conn[c] = "null" /\ conn' = [conn EXCEPT ![c] = "open"]
      /\ UNCHANGED <<daemon, txn, mutex, task, db, faults, result, ghosts>>
  BY DEF StartSink
<1>2. /\ Tasks /\ txn' = txn /\ db' = db /\ age' = age /\ pruned' = pruned /\ phase' = "down"
  BY <1>1 DEF Tasks, daemon, ghosts
<1>3. /\ conn' \in [Conns -> {"null", "open", "leaked"}] /\ conn'[c] = "open"
      /\ \A d \in Conns \ {c} : conn'[d] = conn[d]
  BY <1>0, <1>1 DEF Types
<1>4. txn[c] = None /\ Ins(c) = {}
  BY <1>0, <1>1 DEF Data, Opened, Ins
<1>5. \A d \in Conns : Ins(d)' = Ins(d) /\ Del(d)' = Del(d)
  BY <1>2 DEF Ins, Del
<1>6. Types'
  BY <1>0, <1>1, <1>3 DEF Types, daemon, ghosts
<1>7. Locks' /\ Pending' /\ Deletes' /\ AllOrNothing' /\ OkIsStored'
  BY <1>0, <1>2, <1>5 DEF Locks, Holds, Pending, Data, Deletes, AllOrNothing, OkIsStored, Tasks
<1>8. Opened'
  BY <1>0, <1>1, <1>2, <1>3 DEF Data, Opened, Tasks
<1>9. Inserted'
  <2>1. \A v \in Workers : task'[v] = Idle
    BY <1>0, <1>1, <1>2 DEF Data, Opened, Tasks
  <2> QED  BY <2>1 DEF Inserted, At, Idle
<1>10. WholeParts' /\ Answered'
  BY <1>0, <1>2, <1>3, <1>4, <1>5 DEF Data, WholeParts, Answered, Holds, At, Tasks
<1> QED  BY <1>6, <1>7, <1>8, <1>9, <1>10, RegroupNext DEF Data

\* The daemon changes its phase, and nothing that is written.
LEMMA PhaseKeeps ==
  ASSUME StorageInv, UNCHANGED <<conn, txn, mutex, task, db, faults, crashes, result, ghosts>>,
         phase' \in {"down", "up", "stopping"}, backend' \in BOOLEAN, pruneTimer' \in BOOLEAN,
         phase' = "up" => \A c \in Conns : conn[c] = "open",
         phase' = "down" => phase = "down"
  PROVE  StorageInv'
<1>0. Types /\ Locks /\ Pending /\ Data
  BY Regroup
<1>1. Types'
  BY <1>0 DEF Types, ghosts
<1>2. Locks' /\ Pending'
  BY <1>0 DEF Locks, Holds, Pending, ghosts
<1>3. Opened'
  BY <1>0 DEF Data, Opened
<1>4. Inserted' /\ WholeParts'
  BY <1>0 DEF Data, Inserted, WholeParts, At, Ins
<1>5. Answered' /\ Deletes'
  BY <1>0 DEF Data, Answered, Deletes, Holds, Ins, Del, ghosts
<1>6. AllOrNothing' /\ OkIsStored'
  BY <1>0 DEF Data, AllOrNothing, OkIsStored, ghosts
<1> QED  BY <1>1, <1>2, <1>3, <1>4, <1>5, <1>6, RegroupNext DEF Data

\* StartAll, SetStorageBackend and BeginStop.
LEMMA DaemonKeeps ==
  ASSUME StorageInv, StartAll \/ SetStorageBackend \/ BeginStop
  PROVE  StorageInv'
<1>0. Types /\ Opened
  BY Regroup DEF Data
<1>1. CASE StartAll
  BY <1>0, <1>1, PhaseKeeps DEF StartAll, Types
<1>2. CASE SetStorageBackend
  BY <1>0, <1>2, PhaseKeeps DEF SetStorageBackend, Types, Opened
<1>3. CASE BeginStop
  BY <1>0, <1>3, PhaseKeeps DEF BeginStop, Types
<1> QED  BY <1>1, <1>2, <1>3

\* Close, which takes no mutex: a live statement keeps the transaction, and without
\* one it is rolled back.
LEMMA StopSinkKeeps ==
  ASSUME StorageInv, NEW c \in Conns, StopSink(c)
  PROVE  StorageInv'
<1>0. Types /\ Locks /\ Pending /\ Data
  BY Regroup
<1>1. /\ phase = "stopping" /\ conn[c] = "open"
      /\ \/ LiveStatement(c) /\ conn' = [conn EXCEPT ![c] = "leaked"] /\ txn' = txn
         \/ ~LiveStatement(c) /\ conn' = [conn EXCEPT ![c] = "null"] /\ txn' = [txn EXCEPT ![c] = None]
      /\ UNCHANGED <<daemon, mutex, task, db, faults, result, ghosts>>
  BY DEF StopSink
<1>2. /\ Tasks /\ db' = db /\ age' = age /\ pruned' = pruned /\ phase' = "stopping"
  BY <1>1 DEF Tasks, daemon, ghosts
<1>3. /\ conn' \in [Conns -> {"null", "open", "leaked"}] /\ conn'[c] # "open"
      /\ \A d \in Conns \ {c} : conn'[d] = conn[d]
  BY <1>0, <1>1 DEF Types
<1>4. /\ txn' \in [Conns -> Txn \cup {None}]
      /\ \A d \in Conns \ {c} : txn'[d] = txn[d]
      /\ conn'[c] = "null" => txn'[c] = None
      /\ LiveStatement(c) => txn'[c] = txn[c]
      /\ txn'[c] \in {txn[c], None}
  BY <1>0, <1>1 DEF Types
<1>5. /\ \A d \in Conns \ {c} : Ins(d)' = Ins(d)
      /\ \A d \in Conns : Del(d)' \subseteq Del(d)
      /\ LiveStatement(c) => Ins(c)' = Ins(c)
  BY <1>4 DEF Ins, Del
<1>6. Types'
  BY <1>0, <1>1, <1>3, <1>4 DEF Types, daemon, ghosts
<1>7. Locks' /\ Pending' /\ AllOrNothing' /\ OkIsStored'
  BY <1>0, <1>2 DEF Locks, Holds, Pending, Data, AllOrNothing, OkIsStored, Tasks
<1>8. Deletes'
  BY <1>0, <1>2, <1>5 DEF Data, Deletes
<1>9. Opened'
  BY <1>0, <1>2, <1>3, <1>4 DEF Data, Opened
<1>10. Inserted'
  <2> SUFFICES ASSUME NEW v \in Workers, task[v].pc \in {"insert", "commit"}
               PROVE  /\ task[v].pc = "insert" =>
                           /\ txn'[task[v].c] # None
                           /\ \A r \in RowsOf(task[v].b, task[v].p) : r.i < task[v].i => r \in Ins(task[v].c)'
                      /\ task[v].pc = "commit" /\ conn'[task[v].c] = "open" =>
                           /\ txn'[task[v].c] # None
                           /\ RowsOf(task[v].b, task[v].p) \subseteq Ins(task[v].c)'
    BY <1>2 DEF Inserted, At, Tasks
  <2>1. PICK e \in Conns : e = task[v].c
    BY <1>0, BusyAt, TaskParts
  <2>2. Ins(task[v].c) = Ins(e) /\ Ins(task[v].c)' = Ins(e)'
    BY <2>1, <1>2 DEF Tasks
  <2>3. CASE e = c
    <3>1. task[v].pc = "insert" => LiveStatement(c)
      BY <2>1, <2>3 DEF LiveStatement
    <3>2. conn'[task[v].c] # "open"
      BY <2>1, <2>3, <1>3
    <3>3. CASE task[v].pc = "insert"
      <4>1. txn'[e] = txn[e] /\ Ins(e)' = Ins(e)
        BY <2>3, <3>1, <3>3, <1>4, <1>5
      <4>2. /\ txn[task[v].c] # None
            /\ \A r \in RowsOf(task[v].b, task[v].p) : r.i < task[v].i => r \in Ins(task[v].c)
        BY <3>3, <1>0 DEF Data, Inserted, At
      <4> QED  BY <2>1, <2>2, <3>2, <4>1, <4>2
    <3> QED  BY <3>2, <3>3
  <2>4. CASE e # c
    BY <2>1, <2>2, <2>4, <1>0, <1>3, <1>4, <1>5 DEF Data, Inserted, At
  <2> QED  BY <2>3, <2>4
<1>11. WholeParts' /\ Answered'
  BY <1>0, <1>2, <1>3, <1>5 DEF Data, WholeParts, Answered, Holds, At, Tasks
<1> QED  BY <1>6, <1>7, <1>8, <1>9, <1>10, <1>11, RegroupNext DEF Data

\* A crash: the file is as it was, and no transaction is left.
LEMMA CrashKeeps ==
  ASSUME StorageInv, Crash
  PROVE  StorageInv'
<1>0. Types /\ Locks /\ Pending /\ Data
  BY Regroup
<1>1. /\ phase' = "down" /\ crashes < MaxCrashes /\ crashes' = crashes + 1
      /\ conn' = [c \in Conns |-> "null"] /\ txn' = [c \in Conns |-> None]
      /\ mutex' = [c \in Conns |-> None] /\ task' = [w \in Workers |-> Idle]
      /\ backend' = FALSE /\ pruneTimer' = FALSE
      /\ db' = db /\ faults' = faults /\ result' = result /\ age' = age /\ pruned' = pruned
  BY DEF Crash, ghosts
<1>2. /\ \A c \in Conns : conn'[c] = "null" /\ txn'[c] = None /\ mutex'[c] = None
      /\ \A w \in Workers : task'[w] = Idle
      /\ Idle.pc = "idle"
  BY <1>1 DEF Idle
<1>3. crashes' \in 0..MaxCrashes
  BY <1>0, <1>1, StorageAssumption DEF Types
<1>4. Types'
  <2>1. Idle \in Task
    BY DEF Task
  <2>2. /\ conn' \in [Conns -> {"null", "open", "leaked"}] /\ txn' \in [Conns -> Txn \cup {None}]
        /\ mutex' \in [Conns -> Workers \cup {None}] /\ task' \in [Workers -> Task]
    BY <1>1, <2>1
  <2> QED  BY <2>2, <1>0, <1>1, <1>3 DEF Types
<1>5. Locks' /\ Opened' /\ Inserted'
  BY <1>1, <1>2 DEF Locks, Opened, Inserted, At
<1>6. Pending'
  BY <1>0, <1>1, <1>2 DEF Pending
<1>7. WholeParts' /\ Answered'
  BY <1>2 DEF WholeParts, Answered
<1>8. Deletes'
  BY <1>2 DEF Deletes, Del
<1>9. AllOrNothing' /\ OkIsStored'
  BY <1>0, <1>1 DEF Data, AllOrNothing, OkIsStored
<1> QED  BY <1>4, <1>5, <1>6, <1>7, <1>8, <1>9, RegroupNext DEF Data

\* Time passes: what is expired stays so.
LEMMA ExpireKeeps ==
  ASSUME StorageInv, NEW b \in Batches, Expire(b)
  PROVE  StorageInv'
<1>0. Types /\ Locks /\ Pending /\ Data
  BY Regroup
<1>1. /\ age[b] = "young" /\ age' = [age EXCEPT ![b] = "expired"]
      /\ UNCHANGED <<daemon, conn, txn, mutex, task, db, faults, result, pruned>>
  BY DEF Expire
<1>2. /\ age' \in [Batches -> {"new", "young", "expired"}] /\ age'[b] = "expired"
      /\ \A a \in Batches \ {b} : age'[a] = age[a]
  BY <1>0, <1>1 DEF Types
<1>3. /\ Tasks /\ conn' = conn /\ phase' = phase /\ txn' = txn /\ db' = db /\ pruned' = pruned
  BY <1>1 DEF Tasks, daemon
<1>4. Types'
  BY <1>0, <1>1, <1>2 DEF Types, daemon
<1>5. Locks' /\ Opened'
  BY <1>0, <1>3 DEF Locks, Holds, Data, Opened, Tasks
<1>6. Inserted' /\ WholeParts' /\ Answered'
  BY <1>0, <1>3 DEF Data, Inserted, WholeParts, Answered, Holds, At, Ins, Tasks
<1>7. Pending'
  <2>1. \A v \in Workers : task[v] # Idle => age'[task[v].b] # "new"
    <3>1. \A v \in Workers : task[v] # Idle => task[v].b \in Batches /\ age[task[v].b] # "new"
      BY <1>0, TaskParts DEF Pending
    <3> QED  BY <3>1, <1>2
  <2>2. \A a \in Batches : age'[a] = "new" => age[a] = "new"
    BY <1>2
  <2> QED  BY <2>1, <2>2, <1>0, <1>3 DEF Pending, Tasks
<1>8. Deletes'
  <2>1. \A d \in Conns : \A r \in Del(d) : r.b \in Batches /\ age[r.b] = "expired"
    BY <1>0 DEF Types, Txn, Del, Row, Data, Deletes
  <2>2. \A d \in Conns : Del(d)' = Del(d)
    BY <1>3 DEF Del
  <2> QED  BY <2>1, <2>2, <1>0, <1>2, <1>3 DEF Data, Deletes
<1>9. AllOrNothing' /\ OkIsStored'
  BY <1>0, <1>3 DEF Data, AllOrNothing, OkIsStored, Tasks
<1> QED  BY <1>4, <1>5, <1>6, <1>7, <1>8, <1>9, RegroupNext DEF Data

-----------------------------------------------------------------------------
(* The theorems *)

\* It holds of an empty file and a daemon that has not started.
LEMMA InitKeeps == Init => StorageInv
<1> SUFFICES ASSUME Init PROVE StorageInv
  OBVIOUS
<1>1. /\ phase = "down" /\ db = {} /\ pruned = {}
      /\ \A c \in Conns : conn[c] = "null" /\ txn[c] = None /\ mutex[c] = None
      /\ \A w \in Workers : task[w] = Idle
      /\ \A b \in Batches : age[b] = "new" /\ \A p \in Part : result[b][p] = "none"
      /\ Idle.pc = "idle"
  BY DEF Init, Idle
<1>2. Types
  <2>1. Idle \in Task
    BY DEF Task
  <2>2. 0 \in 0..MaxFaults /\ 0 \in 0..MaxCrashes
    BY StorageAssumption
  <2>3. result \in [Batches -> [Part -> {"none", "ok", "skipped", "error"}]]
    BY DEF Init
  <2>4. /\ conn \in [Conns -> {"null", "open", "leaked"}] /\ txn \in [Conns -> Txn \cup {None}]
        /\ mutex \in [Conns -> Workers \cup {None}] /\ task \in [Workers -> Task]
        /\ age \in [Batches -> {"new", "young", "expired"}]
    BY <2>1 DEF Init
  <2> QED  BY <2>2, <2>3, <2>4 DEF Init, Types
<1>3. Locks /\ Opened /\ Inserted
  BY <1>1 DEF Locks, Opened, Inserted, At
<1>4. WholeParts /\ Answered
  BY <1>1 DEF WholeParts, Answered
<1>5. Deletes /\ Pending
  BY <1>1 DEF Deletes, Pending, Del
<1>6. AllOrNothing /\ OkIsStored
  BY <1>1 DEF AllOrNothing, OkIsStored
<1> QED  BY <1>2, <1>3, <1>4, <1>5, <1>6 DEF StorageInv

\* Every step of the daemon, of its workers and of the clock keeps it.
LEMMA StepKeeps == StorageInv /\ [Next]_vars => StorageInv'
<1> SUFFICES ASSUME StorageInv, [Next]_vars PROVE StorageInv'
  OBVIOUS
<1>1. ASSUME NEW c \in Conns, StartSink(c) \/ StopSink(c) PROVE StorageInv'
  BY <1>1, StartSinkKeeps, StopSinkKeeps
<1>2. CASE StartAll \/ SetStorageBackend \/ BeginStop
  BY <1>2, DaemonKeeps
<1>3. CASE Crash
  BY <1>3, CrashKeeps
<1>4. ASSUME NEW w \in Workers, NEW c \in Conns, NEW b \in Batches,
             Write(w, c, b) \/ WriteProfile(w, c, b)
      PROVE  StorageInv'
  BY <1>4, WriteKeeps, ProfileKeeps
<1>5. ASSUME NEW w \in Workers, LockStep(w) PROVE StorageInv'
  BY <1>5, BeginKeeps, UnpreparedKeeps DEF LockStep
<1>6. ASSUME NEW w \in Workers, WriteStep(w) PROVE StorageInv'
  BY <1>6, InsertKeeps, FailedKeeps, CommitKeeps, CommitFailedKeeps DEF WriteStep
<1>7. ASSUME NEW w \in Workers, Prune(w) PROVE StorageInv'
  BY <1>7, PruneKeeps
<1>8. ASSUME NEW b \in Batches, Expire(b) PROVE StorageInv'
  BY <1>8, ExpireKeeps
<1>9. CASE UNCHANGED vars
  <2>1. Types /\ Opened
    BY Regroup DEF Data
  <2>2. /\ UNCHANGED <<conn, txn, mutex, task, db, faults, crashes, result, ghosts>>
        /\ phase' = phase /\ backend' = backend /\ pruneTimer' = pruneTimer
    BY <1>9 DEF vars, ghosts
  <2> QED  BY <2>1, <2>2, PhaseKeeps DEF Types, Opened
<1> QED  BY <1>1, <1>2, <1>3, <1>4, <1>5, <1>6, <1>7, <1>8, <1>9 DEF Next

\* StorageInv is an invariant of Storage.
THEOREM StorageInvariant == Spec => []StorageInv
BY InitKeeps, StepKeeps, PTL DEF Spec

\* WriteRecords and WriteStackSamples are transactions, for any number of sinks and
\* workers on the file: it holds all rows of a part or none, whatever call fails,
\* whoever joins a transaction left open, whenever the connection is closed and
\* whenever the process dies.
THEOREM PartsAreWhole == Spec => []RowsSound
<1>1. StorageInv => RowsSound
  BY DEF StorageInv, Types, RowsSound, TypeOK
<1> QED  BY <1>1, StorageInvariant, PTL

\* An Ok of Write that was not the early return of a closed backend means that the
\* rows are in the file, and that they stay there until Prune deletes them.
THEOREM OkIsDurable == Spec => []OkIsStored
<1>1. StorageInv => OkIsStored
  BY DEF StorageInv
<1> QED  BY <1>1, StorageInvariant, PTL

\* A query sees the file, changed by what the transaction of its connection has done.
LEMMA Seen == \A c \in Conns : Visible(c) = (db \cup Ins(c)) \ Del(c)
BY DEF Visible, Ins, Del

\* The same of the next state.
LEMMA SeenNext == (\A c \in Conns : Visible(c) = (db \cup Ins(c)) \ Del(c))'
BY Seen, PTL

\* The rows a step makes disappear, for a query and from the file, go for a reason.
LostFor(r) ==
  \/ r \in pruned'
  \/ r.p = "prof" \/ result'[r.b][r.p] = "error"

\* The transaction of the query connection that a failing write rolls back holds
\* profiles, and parts that were answered with an error or are now.
LEMMA ErrorUnread ==
  ASSUME StorageInv, NEW w \in Workers, task[w] # Idle, phase = "up",
         task[w].pc = "mutex" => mutex[task[w].c] = None,
         Answer(w, "error"), UNCHANGED <<daemon, conn, db, ghosts>>,
         Dropped(task[w].c)
  PROVE  \A r \in Visible(QueryConn) \ Visible(QueryConn)' : LostFor(r)
<1>0. Types /\ Locks /\ Pending /\ Data
  BY Regroup
<1>1. PICK c \in Conns : c = task[w].c
  BY <1>0, TaskParts
<1>2. PICK d \in Conns : d = QueryConn
  BY StorageAssumption DEF QueryConn, Conns
<1>3. Answers(w, "error")
  <2>1. "error" \in {"ok", "error"}
    OBVIOUS
  <2> QED  BY <2>1, <1>0, AnswerEffect
<1>4. /\ \A a \in Batches, q \in Part : result[a][q] = "error" => result'[a][q] = "error"
      /\ result'[task[w].b][task[w].p] = "error"
  <2>1. "error" \in {"ok", "error"} /\ age' = age
    BY DEF ghosts
  <2> QED  BY <2>1, <1>0, <1>3, AnswersPending DEF Answers
<1>5. Dropped(c)
  BY <1>1
<1> SUFFICES ASSUME NEW r \in Visible(d), r \notin Visible(d)' PROVE LostFor(r)
  BY <1>2
<1>6. d = c /\ r \in Ins(c)
  <2>1. txn'[d] # txn[d]
    BY DEF Visible
  <2>2. d = c /\ txn'[c] = None
    BY <2>1, <1>5 DEF Dropped
  <2> QED  BY <2>2 DEF Visible, Ins
<1>7. r \in Row /\ r.b \in Batches /\ r.p \in Part \cup {"prof"}
  BY <1>0, <1>6 DEF Types, Txn, Ins, Row, Table
<1>8. conn[c] = "open"
  BY <1>0 DEF Data, Opened
<1>9. CASE r.p = "prof"
  BY <1>9 DEF LostFor
<1>10. CASE r.p \in Part
  <2>1. ASSUME NEW v \in Workers, Holds(v, c) PROVE v = w
    <3>1. task[w].pc \in {"mutex", "insert", "commit"}
      BY <1>0, TaskParts
    <3> QED  BY <2>1, <3>1, <1>0, <1>1, Alone DEF Holds
  <2>2. \/ result[r.b][r.p] = "error"
        \/ r.b = task[w].b /\ r.p = task[w].p
    BY <2>1, <1>0, <1>6, <1>8, <1>10 DEF Data, Answered
  <2> QED  BY <2>2, <1>4, <1>7, <1>10 DEF LostFor
<1> QED  BY <1>7, <1>9, <1>10

\* Inserting takes nothing out of sight.
LEMMA InsertShows ==
  ASSUME Types, NEW c \in Conns, txn[c] # None, NEW row \in Row,
         txn' = [txn EXCEPT ![c].ins = @ \cup {row}], db' = db
  PROVE  \A d \in Conns : Visible(d) \subseteq Visible(d)'
<1>1. txn[c] \in Txn
  BY DEF Types
<1>2. PICK x : x = [txn[c] EXCEPT !.ins = txn[c].ins \cup {row}]
  OBVIOUS
<1>3. x \in Txn /\ x.ins = txn[c].ins \cup {row} /\ x.del = txn[c].del
  BY <1>1, <1>2 DEF Txn
<1>4. txn' = [txn EXCEPT ![c] = x]
  BY <1>2
<1>5. txn'[c] = x /\ x # None /\ \A d \in Conns \ {c} : txn'[d] = txn[d]
  BY <1>3, <1>4, NoneAssumption DEF Types
<1>6. Visible(c) \subseteq Visible(c)'
  BY <1>3, <1>5 DEF Visible
<1> QED  BY <1>5, <1>6 DEF Visible

\* Prune takes out of sight what it deletes.
LEMMA PruneUnread ==
  ASSUME StorageInv, NEW w \in Workers, Prune(w)
  PROVE  /\ \A r \in Visible(QueryConn) \ Visible(QueryConn)' : r \in pruned'
         /\ \A r \in db \ db' : age[r.b] = "expired"
<1>0. Types /\ Data
  BY Regroup
<1>1. PICK c \in Conns : c = QueryConn
  BY StorageAssumption DEF QueryConn, Conns
<1>2. PICK E \in SUBSET Row :
           /\ \A r \in E : age[r.b] = "expired"
           /\ \/ txn[c] = None /\ db' = db \ E /\ txn' = txn
              \/ txn[c] # None /\ db' = db /\ txn' = [txn EXCEPT ![c].del = @ \cup E]
           /\ pruned' = pruned \cup E
           /\ faults' \in 0..MaxFaults
  BY <1>0, <1>1, PruneEffect
<1>3. \A r \in db \ db' : age[r.b] = "expired"
  BY <1>2
<1>4. CASE txn[c] = None /\ db' = db \ E /\ txn' = txn
  BY <1>1, <1>2, <1>3, <1>4 DEF Visible
<1>5. CASE txn[c] # None /\ db' = db /\ txn' = [txn EXCEPT ![c].del = @ \cup E]
  <2>1. txn[c] \in Txn
    BY <1>0, <1>5 DEF Types
  <2>2. PICK x : x = [txn[c] EXCEPT !.del = txn[c].del \cup E]
    OBVIOUS
  <2>3. x \in Txn /\ x.del = txn[c].del \cup E /\ x.ins = txn[c].ins
    BY <2>1, <2>2, <1>2 DEF Txn
  <2>4. txn' = [txn EXCEPT ![c] = x]
    BY <2>2, <1>5
  <2>5. txn'[c] = x /\ x # None
    BY <2>3, <2>4, <1>0, NoneAssumption DEF Types
  <2>6. Visible(c)' = (db \cup txn[c].ins) \ (txn[c].del \cup E) /\ Visible(c) = (db \cup txn[c].ins) \ txn[c].del
    BY <2>3, <2>5, <1>5 DEF Visible
  <2> QED  BY <2>6, <1>1, <1>2, <1>3
<1> QED  BY <1>2, <1>4, <1>5

\* What a step of a running daemon takes out of sight.
LEMMA UnreadStep ==
  ASSUME StorageInv, [Next]_vars, phase = "up", phase' = "up"
  PROVE  \A r \in Visible(QueryConn) \ Visible(QueryConn)' : LostFor(r)
<1>0. Types /\ Locks /\ Pending /\ Data
  BY Regroup
<1>1. CASE db' = db /\ txn' = txn
  BY <1>1 DEF Visible
<1>2. ASSUME NEW w \in Workers, WriteUnprepared(w) \/ WriteFailed(w)
      PROVE  \A r \in Visible(QueryConn) \ Visible(QueryConn)' : LostFor(r)
  <2>1. /\ task[w].pc \in {"mutex", "insert"} /\ Answer(w, "error")
        /\ task[w].pc = "mutex" => mutex[task[w].c] = None
        /\ UNCHANGED <<daemon, conn, db, ghosts>> /\ Rollback(task[w].c)
    BY <1>2 DEF WriteUnprepared, WriteFailed, At
  <2>2. task[w] # Idle
    BY <2>1, BusyAt
  <2>3. PICK c \in Conns : c = task[w].c
    BY <1>0, <2>2, TaskParts
  <2>4. Dropped(c)
    BY <1>0, <2>1, <2>3, RollbackDrops
  <2> QED  BY <2>1, <2>2, <2>3, <2>4, ErrorUnread
<1>3. ASSUME NEW w \in Workers, WriteCommitFailed(w)
      PROVE  \A r \in Visible(QueryConn) \ Visible(QueryConn)' : LostFor(r)
  <2>1. /\ task[w].pc = "commit" /\ Answer(w, "error")
        /\ UNCHANGED <<daemon, conn, db, ghosts>>
        /\ txn' = txn \/ txn' = [txn EXCEPT ![task[w].c] = None]
    BY <1>3 DEF WriteCommitFailed, At
  <2>2. task[w] # Idle
    BY <2>1, BusyAt
  <2>3. PICK c \in Conns : c = task[w].c
    BY <1>0, <2>2, TaskParts
  <2>4. Dropped(c)
    BY <1>0, <2>1, <2>3 DEF Types, Dropped
  <2> QED  BY <2>1, <2>2, <2>3, <2>4, ErrorUnread
<1>4. QueryConn \in Conns
  BY StorageAssumption DEF QueryConn, Conns
<1>5. ASSUME NEW w \in Workers, WriteCommit(w)
      PROVE  \A r \in Visible(QueryConn) \ Visible(QueryConn)' : LostFor(r)
  <2>1. /\ task[w].pc = "commit" /\ db' = Visible(task[w].c) /\ txn' = [txn EXCEPT ![task[w].c] = None]
        /\ pruned' = pruned
    BY <1>5 DEF WriteCommit, At, ghosts
  <2>2. PICK c \in Conns : c = task[w].c
    BY <1>0, <2>1, BusyAt, TaskParts
  <2>3. db' = (db \cup Ins(c)) \ Del(c) /\ Del(c) \subseteq pruned
    BY <1>0, <2>1, <2>2, Seen DEF Data, Deletes
  <2>4. PICK d \in Conns : d = QueryConn
    BY <1>4
  <2>5. CASE d = c
    <3>1. txn'[c] = None
      BY <1>0, <2>1, <2>2 DEF Types
    <3>2. Visible(d)' = db'
      BY <2>5, <3>1 DEF Visible
    <3>3. Visible(d) = db'
      BY <2>1, <2>2, <2>5
    <3> QED  BY <2>4, <3>2, <3>3
  <2>6. CASE d # c
    <3>1. txn'[d] = txn[d]
      BY <1>0, <2>1, <2>2, <2>6 DEF Types
    <3>2. Ins(d)' = Ins(d) /\ Del(d)' = Del(d)
      BY <3>1 DEF Ins, Del
    <3>3. Visible(d) = (db \cup Ins(d)) \ Del(d) /\ Visible(d)' = (db' \cup Ins(d)) \ Del(d)
      BY <3>2, Seen, SeenNext
    <3> QED  BY <2>1, <2>3, <2>4, <3>3 DEF LostFor
  <2> QED  BY <2>5, <2>6
<1>6. ASSUME NEW w \in Workers, WriteBegin(w)
      PROVE  \A r \in Visible(QueryConn) \ Visible(QueryConn)' : LostFor(r)
  <2>1. /\ task[w].pc = "mutex" /\ db' = db
        /\ txn' = IF txn[task[w].c] = None THEN [txn EXCEPT ![task[w].c] = [ins |-> {}, del |-> {}]] ELSE txn
    BY <1>6 DEF WriteBegin, At
  <2>2. PICK c \in Conns : c = task[w].c
    BY <1>0, <2>1, BusyAt, TaskParts
  <2>3. CASE txn[c] = None
    <3>1. /\ txn'[c] = [ins |-> {}, del |-> {}]
          /\ \A d \in Conns \ {c} : txn'[d] = txn[d]
      BY <1>0, <2>1, <2>2, <2>3 DEF Types
    <3>2. Visible(c) \subseteq Visible(c)'
      BY <2>1, <2>3, <3>1 DEF Visible
    <3>3. \A d \in Conns \ {c} : Visible(d) \subseteq Visible(d)'
      BY <2>1, <3>1 DEF Visible
    <3> QED  BY <1>4, <3>2, <3>3 DEF QueryConn
  <2>4. CASE txn[c] # None
    BY <1>1, <2>1, <2>2, <2>4
  <2> QED  BY <2>3, <2>4
<1>7. ASSUME NEW w \in Workers, WriteInsert(w)
      PROVE  \A r \in Visible(QueryConn) \ Visible(QueryConn)' : LostFor(r)
  <2>1. /\ task[w].pc = "insert" /\ db' = db
        /\ txn' = [txn EXCEPT ![task[w].c].ins = @ \cup {[b |-> task[w].b, p |-> task[w].p, i |-> task[w].i]}]
    BY <1>7 DEF WriteInsert, At
  <2>2. /\ task[w].c \in Conns /\ task[w].b \in Batches /\ task[w].p \in Part
        /\ task[w].i \in 1..NumRows
    BY <1>0, <2>1, BusyAt, TaskParts
  <2>3. PICK c \in Conns, row \in Row :
          c = task[w].c /\ row = [b |-> task[w].b, p |-> task[w].p, i |-> task[w].i]
    BY <2>2 DEF Row, Table
  <2>4. txn[c] # None
    BY <1>0, <2>1, <2>3 DEF Data, Inserted, At
  <2>5. txn' = [txn EXCEPT ![c].ins = @ \cup {row}]
    BY <2>1, <2>3
  <2>6. \A d \in Conns : Visible(d) \subseteq Visible(d)'
    BY <1>0, <2>1, <2>4, <2>5, InsertShows
  <2> QED  BY <1>4, <2>6 DEF QueryConn
<1>8. ASSUME NEW w \in Workers, NEW c \in Conns, NEW b \in Batches, WriteProfile(w, c, b)
      PROVE  \A r \in Visible(QueryConn) \ Visible(QueryConn)' : LostFor(r)
  <2>1. PICK row : row = [b |-> b, p |-> "prof", i |-> 1]
    OBVIOUS
  <2>2. row \in Row
    BY <2>1, ProfileRow
  <2>3. \/ txn[c] = None /\ db' = db \cup {row} /\ txn' = txn
        \/ txn[c] # None /\ txn' = [txn EXCEPT ![c].ins = @ \cup {row}] /\ db' = db
    BY <1>8, <2>1 DEF WriteProfile
  <2>4. CASE db' = db \cup {row} /\ txn' = txn
    <3>1. Del(QueryConn)' = Del(QueryConn) /\ Ins(QueryConn)' = Ins(QueryConn)
      BY <2>4 DEF Ins, Del, QueryConn
    <3>2. Visible(QueryConn) = (db \cup Ins(QueryConn)) \ Del(QueryConn)
      BY <1>4, Seen
    <3>3. Visible(QueryConn)' = (db' \cup Ins(QueryConn)') \ Del(QueryConn)'
      BY <1>4, SeenNext DEF QueryConn
    <3> QED  BY <2>4, <3>1, <3>2, <3>3
  <2>5. CASE txn[c] # None /\ txn' = [txn EXCEPT ![c].ins = @ \cup {row}] /\ db' = db
    <3>1. \A d \in Conns : Visible(d) \subseteq Visible(d)'
      BY <1>0, <2>2, <2>5, InsertShows
    <3> QED  BY <1>4, <3>1 DEF QueryConn
  <2> QED  BY <2>3, <2>4, <2>5
<1>14. ASSUME NEW w \in Workers, Prune(w)
       PROVE  \A r \in Visible(QueryConn) \ Visible(QueryConn)' : LostFor(r)
  BY <1>14, PruneUnread DEF LostFor
<1>9. ASSUME NEW w \in Workers, NEW c \in Conns, NEW b \in Batches, Write(w, c, b)
      PROVE  db' = db /\ txn' = txn
  BY <1>9 DEF Write
<1>10. ASSUME NEW b \in Batches, Expire(b) PROVE db' = db /\ txn' = txn
  BY <1>10 DEF Expire
<1>11. CASE StartAll \/ SetStorageBackend \/ BeginStop \/ UNCHANGED vars
  BY <1>1, <1>11 DEF StartAll, SetStorageBackend, BeginStop, vars
<1>12. ASSUME NEW c \in Conns, StartSink(c) \/ StopSink(c) PROVE FALSE
  BY <1>12 DEF StartSink, StopSink
<1>13. CASE Crash
  BY <1>13 DEF Crash
<1> QED  BY <1>1, <1>2, <1>3, <1>5, <1>6, <1>7, <1>8, <1>9, <1>10, <1>11, <1>12, <1>13, <1>14
         DEF Next, LockStep, WriteStep
\* What a step takes out of the file is expired.
LEMMA KeptStep ==
  ASSUME StorageInv, [Next]_vars
  PROVE  \A r \in db \ db' : age[r.b] = "expired"
<1>0. Types /\ Locks /\ Pending /\ Data
  BY Regroup
<1>1. ASSUME NEW w \in Workers, WriteCommit(w)
      PROVE  \A r \in db \ db' : age[r.b] = "expired"
  <2>1. task[w].pc = "commit" /\ db' = Visible(task[w].c)
    BY <1>1 DEF WriteCommit, At
  <2>2. PICK c \in Conns : c = task[w].c
    BY <1>0, <2>1, BusyAt, TaskParts
  <2>3. db' = (db \cup Ins(c)) \ Del(c)
    BY <2>1, <2>2, Seen
  <2> QED  BY <1>0, <2>3 DEF Data, Deletes
<1>2. ASSUME NEW w \in Workers, Prune(w)
      PROVE  \A r \in db \ db' : age[r.b] = "expired"
  BY <1>2, PruneUnread
<1>3. ASSUME NEW w \in Workers, NEW c \in Conns, NEW b \in Batches,
             Write(w, c, b) \/ WriteProfile(w, c, b)
      PROVE  db \subseteq db'
  BY <1>3 DEF Write, WriteProfile
<1>4. ASSUME NEW w \in Workers,
             LockStep(w) \/ WriteInsert(w) \/ WriteFailed(w) \/ WriteCommitFailed(w)
      PROVE  db' = db
  BY <1>4 DEF LockStep, WriteBegin, WriteUnprepared, WriteInsert, WriteFailed, WriteCommitFailed
<1>5. CASE StartAll \/ SetStorageBackend \/ BeginStop \/ Crash \/ UNCHANGED vars
  <2>1. db' = db
    BY <1>5 DEF StartAll, SetStorageBackend, BeginStop, Crash, vars
  <2> QED  BY <2>1
<1>6. ASSUME NEW c \in Conns, StartSink(c) \/ StopSink(c) PROVE db' = db
  BY <1>6 DEF StartSink, StopSink
<1>7. ASSUME NEW b \in Batches, Expire(b) PROVE db' = db
  BY <1>7 DEF Expire
<1> QED  BY <1>1, <1>2, <1>3, <1>4, <1>5, <1>6, <1>7 DEF Next, WriteStep

\* Rows do not silently go away, neither from the file before the retention has
\* passed nor from what the queries, which read inside other threads' transactions,
\* have shown of a running daemon.
THEOREM RowsDoNotVanish == Spec => RowsStay
<1>1. StorageInv /\ [Next]_vars => [\A r \in db \ db' : age[r.b] = "expired"]_vars
  BY KeptStep
<1>2. StorageInv /\ [Next]_vars =>
        [phase = "up" /\ phase' = "up" =>
           \A r \in Visible(QueryConn) \ Visible(QueryConn)' :
             \/ r \in pruned'
             \/ r.p = "prof" \/ result'[r.b][r.p] = "error"]_vars
  BY UnreadStep DEF LostFor
<1>3. Spec => KeptForRetention
  BY <1>1, StorageInvariant, PTL DEF Spec, KeptForRetention
<1>4. Spec => NoSilentUnread
  BY <1>2, StorageInvariant, PTL DEF Spec, NoSilentUnread
<1> QED  BY <1>3, <1>4 DEF RowsStay
=============================================================================
