\* Three workers and two submitting threads.
CONSTANTS
    w1 = w1
    w2 = w2
    w3 = w3
    s1 = s1
    s2 = s2
    Workers = {w1, w2, w3}
    Submitters = {s1, s2}
    MaxTasks = 4
SPECIFICATION PoolFairSpec
INVARIANTS
    OnceInOrder
    NoLostWakeup
    DestroyedMeansDrained
PROPERTIES
    ImplementsTaskFifo
    EveryTaskRuns
    DestructorReturns
\* The pool may be destroyed, or never be used again.
CHECK_DEADLOCK FALSE
