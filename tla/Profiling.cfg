\* Two processes of one program on two CPUs; the first may exec or exit.
CONSTANTS
    p1 = p1
    p2 = p2
    Pids = {p1, p2}
    Movers = {p1}
    Comm <- SameComm
    Cpus = {c1, c2}
    GroupBy = "comm"
    TargetChoices <- Choices
    TicksPerSec = 2
    TtlSec = 1
    MaxEntries = 2
    RingSize = 1
    QueueSize = 1
    MaxSamples = 3
    MaxOwed = 2
    None = None
SPECIFICATION Spec
SYMMETRY Symmetry
INVARIANT CountsSound
PROPERTY NamesFresh
\* A full queue at the bound MaxOwed stops the threads.
CHECK_DEADLOCK FALSE
