CONSTANTS
    GRID_SIZE = 4
    INITIAL_SNAKE_LENGTH = 3
    INITIAL_SPACING = 2
    MaxScore = 12
    MAX_ARGS = 2
    MaxLine = 6
    WIDTH = 8
    UNIT = 4
    MaxDigits = 4
    Totals = {1, 9, 300}
    Adders = {a1, a2}
    Takers = {t1, t2}
    Repeats = 2
    MAX_PROCESSES = 5
    MAX_PRIORITY = 2
    NULL = NULL
    Walkers = {w1, w2}
    Sought = {3, 5}
    MaxChildren = 2
    BUFFER_SIZE = 4
    MaxText = 5
SPECIFICATION Spec
INVARIANTS BoardIsSound LineIsParsed NothingLeftBehind NumbersRoundTrip LocalTimeIsUtcMinus3 FinalIsZero WalksEnd TestsAgreeWithKernel FiltersTellTheText
CHECK_DEADLOCK FALSE
