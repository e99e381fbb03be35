SPECIFICATION Spec
CONSTANTS
    MaxZoom = 3
    Word = 8
    Unit = 12
    Missing = Missing
    Wrong = Wrong
    Layers <- MCLayers
    Addresses <- MCAddresses
    Queries <- MCQueries
INVARIANTS
    KeysAreDistinct
    LimitsAreExact
    WmtsIsExact
