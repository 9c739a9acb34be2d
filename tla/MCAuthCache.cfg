SPECIFICATION Spec
CONSTANTS
    Pods = {pod1, pod2}
    NoPod = NoPod
    Requests = {a, b}
    LocalTTL = 1
    RedisTTL = 3
    LockTTL = 2
    MaxCall = 1
    MaxVersion = 1
    MaxFaults = 1
SYMMETRY PodsAndRequests
INVARIANTS
    StalenessBounded
    UndisturbedStaleness
    InvalidationWorks
CHECK_DEADLOCK FALSE
