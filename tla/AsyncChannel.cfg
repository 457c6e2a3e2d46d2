\* Both drop policies: two collect workers, the timer thread and the ProcessThread.
CONSTANTS
    p1 = p1
    p2 = p2
    tw = tw
    pt = pt
    b1 = b1
    Producers = {p1, p2}
    Flushers = {tw}
    Consumers = {pt}
    Batch = {b1}
    Flush = Flush
    Capacity = 2
    HighMark = 1
    LowMark = 1
    Policies = {TRUE, FALSE}
    NoValue = NoValue
    NoThread = NoThread
    MaxOffered = 3
    MaxFlushes = 1
SPECIFICATION Spec
INVARIANTS
    ChannelSound
    RaiseJustified
    LossOnlyToFlush
SYMMETRY Symmetry
