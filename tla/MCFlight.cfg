\* Three callers, two keys: a leader, a waiter and a late-comer meet on one key
\* while the other key is in flight.  One call object per caller suffices.
SPECIFICATION Spec
CONSTANTS
    Callers = {p1, p2, p3}
    Keys = {k1, k2}
    CallIds = {c1, c2, c3}
    NoCall = NoCall
    FnResults <- ResultsPerKey
    Panics <- OnePanickingKey
    Unset = Unset
    PanicError = PanicError
    ContextError = ContextError
    Panicking = Panicking
SYMMETRY Interchangeable
INVARIANTS
    TypeOK
    OneFlightPerKey
    NoResultRetained
    WaiterHasLeader
    AnswerIsForKey
PROPERTIES
    PanicReachesLeaderOnly
