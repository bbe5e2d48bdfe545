SPECIFICATION FairSpec
CONSTANTS
    Pid = {a, b, c}
    QUEUE_SIZE = 4
    NULL = NULL
    Mutexes = {mutex}
    Signals = {signal}
    Uses = {{mutex}, {signal}}
    MAX_SEMAPHORES = 2
    MaxValue = 1
    MaxUsing = 3
    BlocksWaiters = FALSE
INVARIANTS MutualExclusion OpenersKeepIt
PROPERTIES ImplementsFifo WaitersGetIn
