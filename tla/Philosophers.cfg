SPECIFICATION FairSpec
CONSTANTS
    MAX_PHILOSOPHERS = 4
    Followed = {"parted", "eater"}
INVARIANTS NeighboursNeverEat EatersWereServed WaitsForAnEater
PROPERTY HungryEat
CHECK_DEADLOCK FALSE
