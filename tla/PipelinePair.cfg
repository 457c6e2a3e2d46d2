\* A pull and a push pipeline that share both pools; the second may fail to start.
SPECIFICATION Spec
CONSTANTS
    c1 = c1  c2 = c2  w1 = w1  w2 = w2
    N = 2
    Push = {2}
    Agg = {2}
    NumSinks = 1
    Collectors = {c1}
    Writers = {w1}
    Capacity = 1
    DropOldest = TRUE
    MaxPending = 0
    MayFail = {2}
    MaxBatches = 2
    MaxCollects = 1
    MaxFlushes = 1
INVARIANTS
    UsedWhileStarted
    PoolBounded
