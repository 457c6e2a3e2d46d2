----------------------------- MODULE TimerWheel -----------------------------
(***************************************************************************)
(* core/engine/timer_wheel.h: one thread that sleeps in epoll_wait on a    *)
(* timerfd and an eventfd and runs the callbacks of the timers that are    *)
(* due.  Other threads add and cancel timers and start and stop the wheel. *)
(*                                                                         *)
(* A critical section of mutex_ is one action; the callbacks run outside   *)
(* of it, one action each.  Time is a counter that advances on its own, by *)
(* one unit of the clock at a time; MaxTime and Ids bound the exploration. *)
(***************************************************************************)
EXTENDS Integers, Sequences, FiniteSets

CONSTANTS Ids,        \* timer ids, 0..n in the order next_id_ hands them out
          Intervals,  \* the intervals and delays that are requested
          MaxTime     \* bound on the clock

ASSUME WheelAssumption ==
    /\ IsFiniteSet(Ids) /\ Ids = 0..(Cardinality(Ids) - 1)
    /\ Intervals \subseteq Nat \ {0}
    /\ MaxTime \in Nat

VARIABLES
    now,        \* steady_clock::now()
    heap,       \* heap_: set of entries [id, next, interval, repeating]
    cancelled,  \* cancelled_
    nextId,     \* next_id_
    running,    \* running_
    armed,      \* timerfd: when it expires, Never if disarmed or read
    event,      \* eventfd is readable
    pc,         \* the wheel thread
    seen,       \* the local now of ProcessFired
    fired,      \* the local vector of entries to fire
    stopper,    \* the caller of Stop: "no", "wake", "join", "returned"
    added,      \* history: when each timer was added
    fires,      \* history: how often each timer's callback ran
    late        \* history: callbacks run since Cancel(id) returned, Never before

vars == <<now, heap, cancelled, nextId, running, armed, event, pc, seen, fired,
          stopper, added, fires, late>>
threadVars == <<pc, seen, fired>>
histVars == <<added, fires, late>>

Never == -1

Init ==
    /\ now = 0
    /\ heap = {}
    /\ cancelled = {}
    /\ nextId = 0
    /\ running = FALSE
    /\ armed = Never
    /\ event = FALSE
    /\ pc = "none" /\ seen = 0 /\ fired = <<>>
    /\ stopper = "no"
    /\ added = [i \in Ids |-> Never]
    /\ fires = [i \in Ids |-> 0]
    /\ late = [i \in Ids |-> Never]

Tick ==
    /\ now < MaxTime
    /\ now' = now + 1
    /\ UNCHANGED <<heap, cancelled, nextId, running, armed, event, threadVars,
                   stopper, histVars>>

Earliest(H) == {e \in H : \A f \in H : e.next <= f.next}

\* RearmTimerfdLocked: a due entry expires at once, an empty heap disarms.
Rearm(H) ==
    armed' = IF H = {} THEN Never
             ELSE LET top == CHOOSE e \in Earliest(H) : TRUE
                  IN  IF top.next <= now THEN now ELSE top.next

-----------------------------------------------------------------------------
(* AddRepeating, AddOnce, Cancel *)

Wakeup == event' = TRUE

Add(delay, interval, repeating) ==
    /\ nextId \in Ids
    /\ LET H == heap \cup {[id |-> nextId, next |-> now + delay,
                            interval |-> interval, repeating |-> repeating]}
       IN  heap' = H /\ Rearm(H)
    /\ nextId' = nextId + 1
    /\ Wakeup
    /\ added' = [added EXCEPT ![nextId] = now]
    /\ UNCHANGED <<now, cancelled, running, threadVars, stopper, fires, late>>

AddRepeating(interval) == Add(interval, interval, TRUE)
AddOnce(delay) == Add(delay, 0, FALSE)

Cancel(id) ==
    /\ id < nextId
    /\ cancelled' = cancelled \cup {id}
    /\ late' = [late EXCEPT ![id] = IF @ = Never THEN 0 ELSE @]
    /\ UNCHANGED <<now, heap, nextId, running, armed, event, threadVars,
                   stopper, added, fires>>

-----------------------------------------------------------------------------
(* Start and Stop *)

Start ==
    /\ pc = "none"
    /\ stopper = "no"
    /\ running' = TRUE
    /\ pc' = "loop"
    /\ UNCHANGED <<now, heap, cancelled, nextId, armed, event, seen, fired,
                   stopper, histVars>>

StopExchange ==
    /\ stopper = "no"
    /\ running
    /\ running' = FALSE
    /\ stopper' = "wake"
    /\ UNCHANGED <<now, heap, cancelled, nextId, armed, event, threadVars, histVars>>

\* Mistake: the eventfd is not written.
StopWakeupSilent ==
    /\ stopper = "wake"
    /\ stopper' = "join"
    /\ UNCHANGED <<now, heap, cancelled, nextId, running, armed, event,
                   threadVars, histVars>>

StopWakeup ==
    /\ stopper = "wake"
    /\ Wakeup
    /\ stopper' = "join"
    /\ UNCHANGED <<now, heap, cancelled, nextId, running, armed, threadVars, histVars>>

\* Mistake: the thread is not joined.
StopDetach ==
    /\ stopper = "join"
    /\ stopper' = "returned"
    /\ UNCHANGED <<now, heap, cancelled, nextId, running, armed, event,
                   threadVars, histVars>>

StopJoin ==
    /\ stopper = "join"
    /\ pc = "ended"
    /\ stopper' = "returned"
    /\ UNCHANGED <<now, heap, cancelled, nextId, running, armed, event,
                   threadVars, histVars>>

-----------------------------------------------------------------------------
(* Run and ProcessFired *)

RunCheck ==
    /\ pc = "loop"
    /\ pc' = IF running THEN "wait" ELSE "ended"
    /\ UNCHANGED <<now, heap, cancelled, nextId, running, armed, event, seen,
                   fired, stopper, histVars>>

TimerReadable == armed # Never /\ armed <= now

\* epoll_wait returns because a descriptor is readable; the wheel reads the
\* readable ones.
RunWake ==
    /\ pc = "wait"
    /\ TimerReadable \/ event
    /\ armed' = IF TimerReadable THEN Never ELSE armed
    /\ event' = FALSE
    /\ pc' = "now"
    /\ UNCHANGED <<now, heap, cancelled, nextId, running, seen, fired, stopper,
                   histVars>>

\* epoll_wait returns after 1000 ms without an event.
RunTimeout ==
    /\ pc = "wait"
    /\ pc' = "now"
    /\ UNCHANGED <<now, heap, cancelled, nextId, running, armed, event, seen,
                   fired, stopper, histVars>>

LoadNow ==
    /\ pc = "now"
    /\ seen' = now
    /\ pc' = "purge"
    /\ UNCHANGED <<now, heap, cancelled, nextId, running, armed, event, fired,
                   stopper, histVars>>

\* PurgeCancelledLocked, then the entries that are due leave the heap in the
\* order of their deadlines.
OrderedByDeadline(s) == \A j \in 1..(Len(s) - 1) : s[j].next <= s[j + 1].next

\* Mistake: cancelled entries are forgotten instead of purged.
PopWithoutPurge ==
    /\ pc = "purge"
    /\ LET due == {e \in heap : e.next <= seen}
       IN  /\ heap' = heap \ due
           /\ \E s \in [1..Cardinality(due) -> due] :
                /\ {s[j] : j \in DOMAIN s} = due
                /\ OrderedByDeadline(s)
                /\ fired' = s
    /\ cancelled' = {}
    /\ pc' = "fire"
    /\ UNCHANGED <<now, nextId, running, armed, event, seen, stopper, histVars>>

PurgeAndPop ==
    /\ pc = "purge"
    /\ LET kept == {e \in heap : e.id \notin cancelled}
           due  == {e \in kept : e.next <= seen}
       IN  /\ heap' = kept \ due
           /\ \E s \in [1..Cardinality(due) -> due] :
                /\ {s[j] : j \in DOMAIN s} = due
                /\ OrderedByDeadline(s)
                /\ fired' = s
    /\ cancelled' = {}
    /\ pc' = "fire"
    /\ UNCHANGED <<now, nextId, running, armed, event, seen, stopper, histVars>>

\* entry.callback() and fires_total_++.
FireCallback ==
    /\ pc = "fire"
    /\ fired # <<>>
    /\ LET id == Head(fired).id IN
        /\ fires' = [fires EXCEPT ![id] = @ + 1]
        /\ late' = [late EXCEPT ![id] = IF @ = Never THEN Never ELSE @ + 1]
    /\ pc' = "repush"
    /\ UNCHANGED <<now, heap, cancelled, nextId, running, armed, event, seen,
                   fired, stopper, added>>

\* Mistake: the next deadline is one interval from now.
FireRepushFromNow ==
    /\ pc = "repush"
    /\ LET e == Head(fired) IN
        heap' = IF e.repeating /\ running
                THEN heap \cup {[e EXCEPT !.next = now + e.interval]}
                ELSE heap
    /\ fired' = Tail(fired)
    /\ pc' = "fire"
    /\ UNCHANGED <<now, cancelled, nextId, running, armed, event, seen, stopper,
                   histVars>>

\* A repeating entry returns to the heap, one interval after its deadline and
\* not after the current time.
FireRepush ==
    /\ pc = "repush"
    /\ LET e == Head(fired) IN
        heap' = IF e.repeating /\ running
                THEN heap \cup {[e EXCEPT !.next = @ + e.interval]}
                ELSE heap
    /\ fired' = Tail(fired)
    /\ pc' = "fire"
    /\ UNCHANGED <<now, cancelled, nextId, running, armed, event, seen, stopper,
                   histVars>>

\* Mistake: the timerfd is not armed again after the callbacks.
FireDoneUnarmed ==
    /\ pc = "fire"
    /\ fired = <<>>
    /\ seen' = 0
    /\ pc' = "loop"
    /\ UNCHANGED <<now, heap, cancelled, nextId, running, armed, event, fired,
                   stopper, histVars>>

FireDone ==
    /\ pc = "fire"
    /\ fired = <<>>
    /\ Rearm(heap)
    /\ seen' = 0
    /\ pc' = "loop"
    /\ UNCHANGED <<now, heap, cancelled, nextId, running, event, fired, stopper,
                   histVars>>

-----------------------------------------------------------------------------
WheelStep ==
    \/ RunCheck \/ RunWake \/ LoadNow \/ PurgeAndPop
    \/ FireCallback \/ FireRepush \/ FireDone

Next ==
    \/ Tick
    \/ \E i \in Intervals : AddRepeating(i) \/ AddOnce(i)
    \/ \E id \in Ids : Cancel(id)
    \/ Start \/ StopExchange \/ StopWakeup \/ StopJoin
    \/ WheelStep \/ RunTimeout

Spec == Init /\ [][Next]_vars

\* The wheel thread and the caller of Stop are scheduled.  RunTimeout has no
\* fairness: the wheel must be punctual without its one-second fallback.
FairSpec ==
    /\ Spec
    /\ WF_vars(WheelStep)
    /\ WF_vars(StopWakeup) /\ WF_vars(StopJoin)

-----------------------------------------------------------------------------
(* Properties *)

Entry == [id : Ids, next : Nat, interval : Intervals \cup {0},
          repeating : BOOLEAN]

\* Type invariant.
TypeOK ==
    /\ now \in 0..MaxTime
    /\ heap \subseteq Entry /\ cancelled \subseteq Ids
    /\ nextId \in 0..Cardinality(Ids)
    /\ running \in BOOLEAN /\ event \in BOOLEAN
    /\ armed \in Nat \cup {Never}
    /\ pc \in {"none", "loop", "wait", "now", "purge", "fire", "repush", "ended"}
    /\ seen \in 0..MaxTime
    /\ fired \in Seq(Entry)
    /\ stopper \in {"no", "wake", "join", "returned"}
    /\ added \in [Ids -> 0..MaxTime \cup {Never}]
    /\ fires \in [Ids -> Nat] /\ late \in [Ids -> Nat \cup {Never}]

\* While the wheel sleeps, something will wake it for its earliest timer: the
\* eventfd is set, or the timerfd expires no later than that timer or has
\* already expired.  Adding a timer while callbacks run arms the timerfd
\* without the entries that are being fired; that must be made good.
ArmedWhileAsleep ==
    pc = "wait" /\ heap # {} =>
        \/ event
        \/ /\ armed # Never
           /\ \/ armed <= now
              \/ \A e \in heap : armed <= e.next

\* The wheel's state is well formed and it never sleeps without an alarm.
WheelSound == TypeOK /\ ArmedWhileAsleep

\* After Cancel(id) returned, the callback runs at most once more: the test
\* tolerates "<=1" (timer_wheel_test.cc:81), for an entry already popped.
AtMostOneAfterCancel == \A id \in Ids : late[id] <= 1

\* A repeating timer never runs more often than its interval allows, also
\* when it catches up after a delay, and a one-shot timer runs at most once and
\* not before its deadline.
NeverAheadOfSchedule ==
    \A e \in heap \cup {fired[j] : j \in DOMAIN fired} :
        LET runs == fires[e.id] IN
        IF e.repeating THEN runs * e.interval <= now - added[e.id]
                       ELSE runs = 0 \/ (runs = 1 /\ e.next <= now)

\* Catching up skips no period: the deadline a repeating entry has in the heap
\* counts the callbacks that ran.
NoPeriodSkipped ==
    \A e \in heap :
        e.repeating => e.next = added[e.id] + (fires[e.id] + 1) * e.interval

\* A wheel that is late catches up by whole intervals: no period is anticipated
\* and none is skipped.
OnSchedule == NeverAheadOfSchedule /\ NoPeriodSkipped

\* Once Stop has returned no callback runs: StopAll destroys what the
\* callbacks use right after it.
QuietAfterStop ==
    [][stopper = "returned" => fires' = fires]_vars

\* A timer that is due and not cancelled runs, unless the wheel is stopped,
\* even if epoll_wait never times out.
DueTimersFire ==
    \A id \in Ids, n \in 0..MaxTime :
        (fires[id] = n /\ \E e \in heap : e.id = id /\ e.next <= now)
            ~> (fires[id] > n \/ ~running \/ late[id] # Never)

\* Stop always returns.
StopReturns == (stopper = "wake") ~> (stopper = "returned")
=============================================================================
