SPECIFICATION Spec
CONSTANTS
    k1 = k1
    k2 = k2
    beer = beer
    food = food
    MaxJobs = 2
    Events = {e1}
    Processors = {p1, p2}
    Keys = {k1, k2}
    NullKeys = {k2}
    Product <- MCProduct
    Day <- MCDay
    MaxVersion = 2
    Sold <- MCSold
    MaxFaults = 1
INVARIANTS
    TypeOK
    OneSnapshotPerEvent
    ShownAsAggregated
    RebuildLeavesNothingOld
PROPERTIES
    QueuedJobsEnd
CHECK_DEADLOCK FALSE
