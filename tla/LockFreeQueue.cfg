\* Three threads that push, pop and read the size of a queue of two cells; t1 keeps
\* running, the other two may stop anywhere.
CONSTANTS
    t1 = t1
    t2 = t2
    t3 = t3
    v1 = v1
    v2 = v2
    Threads = {t1, t2, t3}
    Value = {v1, v2}
    Capacity = 2
    NoValue = NoValue
    NoThread = NoThread
    MaxPush = 2
SPECIFICATION LoneSpec
INVARIANTS
    NoDataRace
    SizeWithinCapacity
    RingInv
PROPERTIES
    ImplementsFifo
    LoneOperationEnds
