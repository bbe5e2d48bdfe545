SPECIFICATION Spec
CONSTANTS
    MAX_PROCESSES = 4
    MAX_PRIORITY = 1
    NULL = NULL
    Program <- Families
    CtrlC = TRUE
INVARIANTS TypeOK CpuRunsItsProcess SizeCoversTable
PROPERTIES UnkillableStay TerminatedIsFinal ImplementsLife
