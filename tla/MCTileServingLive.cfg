\* Liveness, without symmetry: requests for one key whose load may fail,
\* time out or panic lead, wait for each other and leave in every order.
SPECIFICATION FairSpec
CONSTANTS
    Requests = {r1, r2}
    Keys = {"flaky"}
    Values <- Contents
    NotFound = NotFound
    Absent = Absent
    Tile <- Content
    Faulty = {"flaky"}
    CallIds = {c1, c2}
    NoCall = NoCall
    MaxConcurrent = 2
    LoadError = LoadError
    Unset = Unset
    PanicError = PanicError
    ContextError = ContextError
    Panicking = Panicking
    Pending = Pending
    NotAcceptable = NotAcceptable
    Failed = Failed
    Busy = Busy
    Dropped = Dropped
PROPERTIES
    EveryRequestEnds
