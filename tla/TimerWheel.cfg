\* Two timers of any kind; fairness without the timeout of epoll_wait.
CONSTANTS
    Ids = {0, 1}
    Intervals = {1, 2}
    MaxTime = 2
SPECIFICATION FairSpec
INVARIANTS
    WheelSound
    AtMostOneAfterCancel
    OnSchedule
PROPERTIES
    QuietAfterStop
    DueTimersFire
    StopReturns
\* A stopped wheel does nothing more.
CHECK_DEADLOCK FALSE
