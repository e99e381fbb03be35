SPECIFICATION Spec
CONSTANTS
    NoOrigin = NoOrigin
    Invalid = Invalid
    r1 = r1
    r2 = r2
    Sources <- MCSources
    Requests <- MCRequests
    Configs <- MCConfigs
    Questions <- MCQuestions
    MaxEntries = 2
INVARIANTS
    KeepsTheLastUsed
    LinksAreServed
SYMMETRY Symmetry
