\* Liveness, without symmetry: two callers of one key that panics, and of
\* another, are a leader and a waiter in every order.
SPECIFICATION FairSpec
CONSTANTS
    Callers = {p1, p2}
    Keys = {k1, k2}
    CallIds = {c1, c2}
    NoCall = NoCall
    FnResults <- ResultsPerKey
    Panics <- OnePanickingKey
    Unset = Unset
    PanicError = PanicError
    ContextError = ContextError
    Panicking = Panicking
PROPERTIES
    EveryCallReturns
