\* Three threads and one lock, with estimates in and beyond the bounds 1 and 4.
CONSTANTS
    Threads = {t1, t2, t3}
    Locks = {l1}
    NoThread = none
    MIN_SPINS_PER_DELAY = 1
    MAX_SPINS_PER_DELAY = 4
    DEFAULT_SPINS_PER_DELAY = 2
    MIN_DELAY_USEC = 1
    MAX_DELAY_USEC = 1
    Raise = 2
    Weight = 3
    Estimates = {0, 2, 5}
SPECIFICATION FairSpec
INVARIANTS TypeOK MutualExclusion
PROPERTIES ImplementsMutex LockMoves
