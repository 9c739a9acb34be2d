SPECIFICATION Spec
CONSTANTS
    Syncs = {s1, s2}
    Webhooks = {w1}
    MaxChanges = 1
    MaxRuns = 2
    MaxFaults = 1
SYMMETRY Symmetry
INVARIANTS
    EventsFollow
    ProductsFollow
    WebhooksEnd
CHECK_DEADLOCK FALSE
