\* One pull pipeline with an aggregator, from start to exit.
SPECIFICATION FairSpec
CONSTANTS
    c1 = c1  c2 = c2  w1 = w1  w2 = w2
    N = 1
    Push = {}
    Agg = {1}
    NumSinks = 2
    Collectors = {c1, c2}
    Writers = {w1, w2}
    Capacity = 2
    DropOldest = FALSE
    MaxPending = 0
    MayFail = {1}
    MaxBatches = 2
    MaxCollects = 2
    MaxFlushes = 1
INVARIANTS
    BatchesSound
    PullDelivered
PROPERTY ShutdownEnds
PROPERTY PoolsOwned
