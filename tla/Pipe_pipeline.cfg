SPECIFICATION FairSpec
CONSTANTS
    PIPE_SIZE = 3
    MaxBytes = 6
    Exits = {"sys_exit", "return"}
    CtrlC = TRUE
    NULL = NULL
INVARIANTS  TokensFillRing BlockedAreQueued DestroyedWhenUnused ShellWaitsForSomebody
PROPERTY PipelineEnds
CHECK_DEADLOCK FALSE
