\* Liveness: handlers that need not end, and stores closed under them.
SPECIFICATION FairSpec
CONSTANTS
    SourceCount = 2
    Requests = {r1, r2}
PROPERTIES
    SignalEndsProcess
