SPECIFICATION Spec
CONSTANTS
    MAX_PHILOSOPHERS = 4
    Followed = {"parted", "eater", "joined", "section"}
INVARIANT NoInvalidState
CHECK_DEADLOCK FALSE
