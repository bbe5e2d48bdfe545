SPECIFICATION FairSpec
CONSTANTS
    MAX_PROCESSES = 4
    MAX_PRIORITY = 1
    NULL = NULL
    Program <- Commands
    CtrlC = TRUE
PROPERTY NoStarvation
