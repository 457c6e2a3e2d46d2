------------------------------ MODULE Storage ------------------------------
(***************************************************************************)
(* Durable storage: SqliteBackend (storage/sqlite_backend/                 *)
(* sqlite_backend.h) behind LocalStorageSink, one connection per sink, all *)
(* on one database file, together with the part of the daemon that decides *)
(* whether old rows are ever deleted (PipelineController::StartAll and     *)
(* RunDaemon in cli/main.cc).                                              *)
(*                                                                         *)
(* SQLite itself is external.  What the code relies on is modelled: a      *)
(* transaction is private to its connection, but every statement of that   *)
(* connection sees it, also one issued by another thread; the first change *)
(* takes the write lock of the file, for which other connections wait at   *)
(* most busy_timeout; statements may fail; sqlite3_close rolls back, and   *)
(* refuses (SQLITE_BUSY) while a statement is not finalized.               *)
(* A call on a null connection answers SQLITE_MISUSE.                      *)
(***************************************************************************)
EXTENDS Integers, FiniteSets

CONSTANTS NumConns,     \* local_storage sinks, each with its own connection
          NumWorkers,   \* SinkPool threads
          NumBatches,   \* DataBatches, each written once
          NumRows,      \* rows of one part of a batch
          MaxFaults,    \* bound on failing SQLite calls
          MaxCrashes,   \* bound on crashes of the daemon
          EarlyBackend, \* TRUE: a program that sets the backend before StartAll looks for it
          None

ASSUME StorageAssumption ==
  /\ NumConns \in Nat \ {0}
  /\ NumRows \in Nat \ {0} /\ {NumBatches, NumWorkers} \subseteq Nat
  /\ {MaxFaults, MaxCrashes} \subseteq Nat
  /\ EarlyBackend \in BOOLEAN

VARIABLES phase,    \* the daemon: "down", "up", "stopping"
          conn,     \* db_ of each backend: "null", "open", or "leaked": null, but not closed
          txn,      \* open transaction: rows inserted and deleted, or None
          mutex,    \* owner of write_mutex_
          task,     \* what each worker is doing
          db,       \* committed rows
          backend,  \* storage_backend_ of the controller is set
          pruneTimer,  \* the prune timer is registered
          faults, crashes,
          age,      \* of a batch: "new" before it is written, "young", "expired" once
                    \* its timestamp is more than kRetentionNs ago
          result,   \* what Write answered for each part: "none", "ok", "skipped", "error"
          pruned    \* rows Prune deleted

vars == <<phase, conn, txn, mutex, task, db, backend, pruneTimer,
          faults, crashes, age, result, pruned>>

Conns == 1..NumConns
QueryConn == 1   \* the first storage backend, the one RunDaemon exposes
Batches == 1..NumBatches
Workers == 1..NumWorkers
Part == {"rec", "smp"}
Table == Part \cup {"prof"}
Row == [b : Batches, p : Table, i : 1..NumRows]
RowsOf(b, p) == {r \in Row : r.b = b /\ r.p = p}
Txn == [ins : SUBSET Row, del : SUBSET Row]
ASSUME NoneAssumption == None \notin Int /\ None \notin Txn

Idle == [pc |-> "idle"]
Task == {Idle}
        \cup [pc : {"mutex", "insert", "commit"}, c : Conns, b : Batches, p : Part,
              rest : SUBSET {"smp"}, i : 1..NumRows]

Init ==
  /\ phase = "down"
  /\ conn = [c \in Conns |-> "null"]
  /\ txn = [c \in Conns |-> None]
  /\ mutex = [c \in Conns |-> None]
  /\ task = [w \in Workers |-> Idle]
  /\ db = {}
  /\ backend = FALSE /\ pruneTimer = FALSE
  /\ faults = 0 /\ crashes = 0
  /\ age = [b \in Batches |-> "new"]
  /\ result = [b \in Batches |-> [p \in Part |-> "none"]]
  /\ pruned = {}

daemon == <<phase, backend, pruneTimer, crashes>>
ghosts == <<age, pruned>>

(***************************************************************************)
(* SQLite, as the code uses it.                                            *)
(***************************************************************************)

\* What a statement of connection c sees.  Query and ExecuteRawQuery read without
\* write_mutex_: they answer Visible(QueryConn) at any time, also while another
\* thread is inside a transaction on that connection.
Visible(c) == IF txn[c] = None THEN db ELSE (db \cup txn[c].ins) \ txn[c].del

\* A transaction that has changed something holds the write lock of the file.
LockedByOther(c) == \E d \in Conns \ {c} : txn[d] # None /\ txn[d].ins \cup txn[d].del # {}

\* A statement that is prepared and not finalized.
LiveStatement(c) == \E w \in Workers : task[w].pc = "insert" /\ task[w].c = c

\* The ways in which a call fails: an I/O error or a full disk, the end of the
\* busy timeout of five seconds, a null connection.
IoError == faults < MaxFaults /\ faults' = faults + 1
Busy(c) == LockedByOther(c) /\ UNCHANGED faults
Misuse(c) == conn[c] # "open" /\ UNCHANGED faults

(***************************************************************************)
(* Start and stop of the daemon, and its crash.                            *)
(***************************************************************************)

\* LocalStorageSink::Start creates the backend, whose Init opens the file and
\* creates what tables are missing.
StartSink(c) ==
  /\ phase = "down" /\ conn[c] = "null" /\ \A d \in 1..(c - 1) : conn[d] = "open"
  /\ conn' = [conn EXCEPT ![c] = "open"]
  /\ UNCHANGED <<daemon, txn, mutex, task, db, faults, result, ghosts>>

\* The rest of StartAll: the prune timer is registered if there is a backend by now.
StartAll ==
  /\ phase = "down" /\ \A c \in Conns : conn[c] = "open"
  /\ EarlyBackend => backend
  /\ phase' = "up"
  /\ pruneTimer' = backend
  /\ UNCHANGED <<conn, txn, mutex, task, db, backend, faults, crashes, result, ghosts>>

\* RunDaemon hands the first backend to the controller after StartAll; EarlyBackend
\* is the program in which the prune timer, and so Prune, does run.
SetStorageBackend ==
  /\ phase = IF EarlyBackend THEN "down" ELSE "up"
  /\ ~backend /\ \A c \in Conns : conn[c] = "open"
  /\ backend' = TRUE
  /\ UNCHANGED <<phase, conn, txn, mutex, task, db, pruneTimer, faults, crashes, result, ghosts>>

\* RunDaemon leaves its loop: the HTTP server is stopped, then StopAll.
BeginStop ==
  /\ phase = "up"
  /\ phase' = "stopping"
  /\ UNCHANGED <<conn, txn, mutex, task, db, backend, pruneTimer, faults, crashes, result, ghosts>>

\* LocalStorageSink::Stop, called by the thread that stops the pipeline while
\* SinkPool workers may be inside Write: Close takes no mutex.
StopSink(c) ==
  /\ phase = "stopping" /\ conn[c] = "open" /\ \A d \in 1..(c - 1) : conn[d] # "open"
  /\ IF LiveStatement(c)
     THEN conn' = [conn EXCEPT ![c] = "leaked"] /\ UNCHANGED txn
     ELSE conn' = [conn EXCEPT ![c] = "null"] /\ txn' = [txn EXCEPT ![c] = None]
  /\ UNCHANGED <<daemon, mutex, task, db, faults, result, ghosts>>

\* The process dies; SQLite forgets what was not committed.
Crash ==
  /\ crashes < MaxCrashes /\ phase # "down"
  /\ phase' = "down" /\ crashes' = crashes + 1
  /\ conn' = [c \in Conns |-> "null"]
  /\ txn' = [c \in Conns |-> None]
  /\ mutex' = [c \in Conns |-> None]
  /\ task' = [w \in Workers |-> Idle]
  /\ backend' = FALSE /\ pruneTimer' = FALSE
  /\ UNCHANGED <<db, faults, result, ghosts>>

\* Time passes, until batch b is older than the retention.
Expire(b) ==
  /\ phase = "up" /\ age[b] = "young"
  /\ age' = [age EXCEPT ![b] = "expired"]
  /\ UNCHANGED <<daemon, conn, txn, mutex, task, db, faults, result, pruned>>

(***************************************************************************)
(* LocalStorageSink::Write: WriteRecords, then WriteStackSamples.          *)
(***************************************************************************)

\* Batches are written in the order of their numbers, and of the idle workers,
\* which are all alike, the first takes the task.
Free(w) == task[w] = Idle /\ \A v \in 1..(w - 1) : task[v] # Idle
Fresh(b) == age[b] = "new" /\ \A a \in 1..(b - 1) : age[a] # "new"

At(w, pc) == task[w].pc = pc
Unlock(c) == mutex' = [mutex EXCEPT ![c] = None]

\* The parts ps of batch b are next, records first.  if (!db_) return Ok: after
\* Close nothing is written, and nothing is wrong.
CallParts(w, c, b, ps, res) ==
  IF ps = {} \/ conn[c] # "open"
  THEN /\ task' = [task EXCEPT ![w] = Idle]
       /\ result' = [result EXCEPT ![b] = [p \in Part |-> IF p \in ps THEN "skipped" ELSE res[p]]]
  ELSE LET first == IF "rec" \in ps THEN "rec" ELSE "smp" IN
       /\ task' = [task EXCEPT ![w] = [pc |-> "mutex", c |-> c, b |-> b, p |-> first,
                                       rest |-> ps \ {first}, i |-> 1]]
       /\ result' = [result EXCEPT ![b] = res]

\* A SinkPool worker takes the write of batch b, which has records, or records and
\* stack samples.
\* Tasks queued before the stop are still run after it.
Write(w, c, b) ==
  /\ Free(w) /\ phase \in {"up", "stopping"} /\ Fresh(b)
  /\ \E ps \in {{"rec"}, Part} : CallParts(w, c, b, ps, result[b])
  /\ age' = [age EXCEPT ![b] = "young"]
  /\ UNCHANGED <<daemon, conn, txn, mutex, db, faults, pruned>>

\* A part is answered: the next one if it went well, the end of Write otherwise.
Answer(w, res) ==
  LET t == task[w] IN
  /\ Unlock(t.c)
  /\ CallParts(w, t.c, t.b, IF res = "ok" THEN t.rest ELSE {}, [result[t.b] EXCEPT ![t.p] = res])

\* Execute("ROLLBACK")
RollbackForgotten(c) == txn' = txn
Rollback(c) == txn' = IF conn[c] = "open" THEN [txn EXCEPT ![c] = None] ELSE txn

\* The mutex is taken, BEGIN issued, whose failure nobody looks at, and the INSERT
\* prepared: inside a transaction that an earlier COMMIT left open, this write
\* simply joins it.
WriteBegin(w) ==
  LET c == task[w].c IN
  /\ At(w, "mutex") /\ mutex[c] = None /\ conn[c] = "open"
  /\ mutex' = [mutex EXCEPT ![c] = w]
  /\ txn' = IF txn[c] = None THEN [txn EXCEPT ![c] = [ins |-> {}, del |-> {}]] ELSE txn
  /\ task' = [task EXCEPT ![w].pc = "insert"]
  /\ UNCHANGED <<daemon, conn, db, faults, result, ghosts>>

\* The statement cannot be prepared, for one because of a Close since the test of
\* db_: ROLLBACK and the error.
WriteUnprepared(w) ==
  LET c == task[w].c IN
  /\ At(w, "mutex") /\ mutex[c] = None
  /\ Misuse(c) \/ IoError
  /\ Rollback(c) /\ Answer(w, "error")
  /\ UNCHANGED <<daemon, conn, db, ghosts>>

WriteInsert(w) ==
  LET t == task[w] IN
  /\ At(w, "insert") /\ ~LockedByOther(t.c)
  /\ txn' = [txn EXCEPT ![t.c].ins = @ \cup {[b |-> t.b, p |-> t.p, i |-> t.i]}]
  /\ task' = [task EXCEPT ![w] = IF t.i < NumRows THEN [t EXCEPT !.i = @ + 1]
                                 ELSE [t EXCEPT !.pc = "commit"]]
  /\ UNCHANGED <<daemon, conn, mutex, db, faults, result, ghosts>>

\* sqlite3_step fails: ROLLBACK and the error.
WriteFailedNeverBusy(w) ==
  /\ At(w, "insert") /\ IoError
  /\ Rollback(task[w].c) /\ Answer(w, "error")
  /\ UNCHANGED <<daemon, conn, db, ghosts>>

WriteFailed(w) ==
  /\ At(w, "insert") /\ (Busy(task[w].c) \/ IoError)
  /\ Rollback(task[w].c) /\ Answer(w, "error")
  /\ UNCHANGED <<daemon, conn, db, ghosts>>

WriteCommit(w) ==
  LET c == task[w].c IN
  /\ At(w, "commit") /\ conn[c] = "open"
  /\ db' = Visible(c)
  /\ txn' = [txn EXCEPT ![c] = None]
  /\ Answer(w, "ok")
  /\ UNCHANGED <<daemon, conn, faults, ghosts>>

WriteCommitUnchecked(w) ==
  LET c == task[w].c IN
  /\ At(w, "commit") /\ (Misuse(c) \/ IoError)
  /\ Rollback(c) /\ Answer(w, "ok")
  /\ UNCHANGED <<daemon, conn, db, ghosts>>

\* COMMIT fails, or Close came before it.  There is no ROLLBACK on this path: if
\* SQLite has not rolled back by itself, the transaction stays open, with its lock.
WriteCommitFailed(w) ==
  LET c == task[w].c IN
  /\ At(w, "commit")
  /\ \/ conn[c] # "open" /\ UNCHANGED <<faults, txn>>
     \/ /\ conn[c] = "open" /\ IoError
        /\ txn' \in {txn, [txn EXCEPT ![c] = None]}
  /\ Answer(w, "error")
  /\ UNCHANGED <<daemon, conn, db, ghosts>>

\* WriteProfile: one INSERT of its own, which also joins a transaction left open.
WriteProfile(w, c, b) ==
  LET r == [b |-> b, p |-> "prof", i |-> 1] IN
  /\ phase = "up" /\ Free(w) /\ Fresh(b)
  /\ conn[c] = "open" /\ mutex[c] = None /\ ~LockedByOther(c)
  /\ age' = [age EXCEPT ![b] = "young"]
  /\ IF txn[c] = None THEN db' = db \cup {r} /\ UNCHANGED txn
     ELSE txn' = [txn EXCEPT ![c].ins = @ \cup {r}] /\ UNCHANGED db
  /\ UNCHANGED <<daemon, conn, mutex, task, faults, result, pruned>>

(***************************************************************************)
(* Prune and queries, on the backend the controller knows.                 *)
(***************************************************************************)

\* DELETE FROM <table> WHERE timestamp_ns < cutoff_ns
ExpiredInAllBut(tables) == {r \in Visible(QueryConn) : r.p \in tables /\ age[r.b] # "expired"}
Expired(tables) == {r \in Visible(QueryConn) : r.p \in tables /\ age[r.b] = "expired"}

\* The timer submits a Prune to the SinkPool.  Its worker takes the mutex and issues
\* three DELETEs, which commit by themselves or join a transaction left open; one
\* that fails is logged and passed over, and another connection that keeps the lock
\* of the file makes all of them fail.
Prune(w) ==
  /\ pruneTimer /\ backend /\ phase = "up" /\ Free(w)
  /\ conn[QueryConn] = "open" /\ mutex[QueryConn] = None
  /\ ~LockedByOther(QueryConn)
  /\ \E done \in SUBSET Table :
       /\ IF done = Table THEN UNCHANGED faults ELSE IoError
       /\ IF txn[QueryConn] = None
          THEN db' = db \ Expired(done) /\ UNCHANGED txn
          ELSE txn' = [txn EXCEPT ![QueryConn].del = @ \cup Expired(done)] /\ UNCHANGED db
       /\ pruned' = pruned \cup Expired(done)
  /\ UNCHANGED <<daemon, conn, mutex, task, result, age>>

LockStep(w) == WriteBegin(w) \/ WriteUnprepared(w)
WriteStep(w) == WriteInsert(w) \/ WriteFailed(w) \/ WriteCommit(w) \/ WriteCommitFailed(w)

Next ==
  \/ \E c \in Conns : StartSink(c) \/ StopSink(c)
  \/ StartAll \/ SetStorageBackend \/ BeginStop \/ Crash
  \/ \E w \in Workers, c \in Conns, b \in Batches : Write(w, c, b) \/ WriteProfile(w, c, b)
  \/ \E w \in Workers : LockStep(w) \/ WriteStep(w) \/ Prune(w)
  \/ \E b \in Batches : Expire(b)

Spec == Init /\ [][Next]_vars

\* The SinkPool threads run, a waiter gets a mutex that keeps becoming free, the
\* clock advances and the timer keeps firing.
FairSpec ==
  /\ Spec /\ \A b \in Batches : WF_vars(Expire(b))
  /\ \A w \in Workers : /\ WF_vars(WriteStep(w))
                        /\ SF_vars(LockStep(w)) /\ SF_vars(Prune(w))

-----------------------------------------------------------------------------

TypeOK ==
  /\ phase \in {"down", "up", "stopping"}
  /\ conn \in [Conns -> {"null", "open", "leaked"}]
  /\ \A c \in Conns : txn[c] = None \/ txn[c] \in Txn
  /\ mutex \in [Conns -> Workers \cup {None}]
  /\ \A w \in Workers : task[w] \in Task
  /\ {db, pruned} \subseteq SUBSET Row
  /\ faults \in 0..MaxFaults /\ crashes \in 0..MaxCrashes
  /\ backend \in BOOLEAN /\ pruneTimer \in BOOLEAN
  /\ age \in [Batches -> {"new", "young", "expired"}]
  /\ result \in [Batches -> [Part -> {"none", "ok", "skipped", "error"}]]

\* WriteRecords and WriteStackSamples are transactions: whatever fails, whoever
\* closes the connection and whenever the process dies, the file holds all rows
\* of a part or none, those aside that Prune has deleted.
AllOrNothing ==
  \A b \in Batches, p \in Part :
    \/ RowsOf(b, p) \cap db = {}
    \/ RowsOf(b, p) \subseteq db \cup pruned

\* The state is well formed and the file holds whole parts only.
RowsSound == TypeOK /\ AllOrNothing

\* An Ok that was not the early return of a closed backend is durable: the rows
\* are in the file, also after a crash, until Prune deletes them.
OkIsStored ==
  \A b \in Batches, p \in Part : result[b][p] = "ok" => RowsOf(b, p) \subseteq db \cup pruned

\* Queries read inside other threads' transactions.  While the daemon runs, a row
\* that a query could return stays visible until Prune deletes it, unless its Write
\* is answered with an error.  (A profile has no transaction: one that joined a
\* transaction left open shares its fate.)
NoSilentUnread ==
  [][phase = "up" /\ phase' = "up" =>
       \A r \in Visible(QueryConn) \ Visible(QueryConn)' :
         \/ r \in pruned'
         \/ r.p = "prof" \/ result'[r.b][r.p] = "error"]_vars

\* No step removes a row from the file before the retention has passed.
KeptForRetention ==
  [][\A r \in db \ db' : age[r.b] = "expired"]_vars

\* A row that is in the file, or that a query has shown, does not silently go away.
RowsStay == KeptForRetention /\ NoSilentUnread

\* Every Write ends, also while another connection keeps the lock
\* of the file for ever: the busy timeout answers for it.
CallsEnd == \A w \in Workers : task[w] # Idle ~> task[w] = Idle

\* "Register periodic data pruning (every 60s, keep last 30 minutes)": while the
\* daemon runs, and unless a transaction was left open, an expired row disappears.
OldRowsPruned ==
  \A b \in Batches :
    (phase = "up" /\ age[b] = "expired")
      ~> (\A r \in Visible(QueryConn) : r.b # b) \/ phase # "up" \/ LockedByOther(QueryConn)
=============================================================================
