SPECIFICATION Spec
CONSTANTS
    MAX_PROCESSES = 4
    MAX_PRIORITY = 1
    NULL = NULL
    Program <- TwoCreators
    CtrlC = FALSE
INVARIANT ReapsOnlyTheDead
