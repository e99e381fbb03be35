\* Safety: three sources, three requests.
SPECIFICATION Spec
CONSTANTS
    SourceCount = 3
    Requests = {r1, r2, r3}
SYMMETRY Interchangeable
INVARIANTS
    TypeOK
    HandlersHaveTheirStores
    CleanEndHasServedAll
    NothingLeftOpen
    ServeFailureIsReported
