\* Capacity 3: two small and a large entry do not fit, so an Add may evict
\* none, one or two entries; a huge value is refused.
SPECIFICATION HSpec
CONSTANTS
    Keys = {1, 2, 3, 4}
    Values <- WithHuge
    Absent = Absent
    ShardCount = 2
    ShardOf <- ThreeAndOne
    SizeOf <- ThreeSizes
    Capacity = 3
    Clients = {c1}
    MaxCount = 1
INVARIANTS
    UsedIsExact
    ListMatchesMap
    StatsAreBounded
PROPERTIES
    EvictsOnlyWhatItMust
    EvictsLeastRecent
    PromiseKept
