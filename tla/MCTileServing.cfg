\* Three requests for two slots: a leader and a waiter on one key, with a third
\* turned away or taking a slot as soon as it is free.  The load of one key may fail;
\* the other has no tile, and its load always tells so.
SPECIFICATION Spec
CONSTANTS
    Requests = {r1, r2, r3}
    Keys = {"flaky", "lost"}
    Values <- Contents
    NotFound = NotFound
    Absent = Absent
    Tile <- Content
    Faulty = {"flaky"}
    CallIds = {c1, c2}
    NoCall = NoCall
    MaxConcurrent = 2
    LoadError = LoadError
    Unset = Unset
    PanicError = PanicError
    ContextError = ContextError
    Panicking = Panicking
    Pending = Pending
    NotAcceptable = NotAcceptable
    Failed = Failed
    Busy = Busy
    Dropped = Dropped
SYMMETRY Interchangeable
INVARIANTS
    TypeOK
    LoadsOnlyWhatIsMissing
    CacheHoldsTheTruth
    FailureHasItsOwnCause
    SlotsMatchRequests
PROPERTIES
    PromiseKept
