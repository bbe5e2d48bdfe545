SPECIFICATION Spec
CONSTANTS
    PIPE_SIZE = 2
    MaxBytes = 2
    Exits = {"return"}
    CtrlC = FALSE
    NULL = NULL
INVARIANT NoDeadSpin
CHECK_DEADLOCK FALSE
