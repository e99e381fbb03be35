SPECIFICATION PoolFairSpec
CONSTANTS
    r1 = r1
    r2 = r2
    r3 = r3
    Opener = Opener
    Readers <- MCReaders
    Sizes <- MCSizes
INVARIANTS
    NoHoldAndWait
    NothingLeaked
PROPERTIES
    PoolMakesProgress
\* Open may fail, and then nothing more happens.
CHECK_DEADLOCK FALSE
