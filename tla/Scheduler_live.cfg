SPECIFICATION LiveSpec
CONSTANTS
    MAX_PROCESSES = 4
    MAX_PRIORITY = 2
    NULL = NULL
    Program <- ShellSession
    CtrlC = TRUE
PROPERTY WaitReturns
