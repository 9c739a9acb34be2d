SPECIFICATION FairSpec
CONSTANTS
    i1 = i1
    Jobs = {j1}
    Integrations <- OneIntegration
    Target <- SameTarget
    MaxChunks = 3
    Parallel = 2
    MaxFaults = 2
    MaxRestarts = 1
CHECK_DEADLOCK FALSE
PROPERTIES
    FailedNeverCompletes
    ImplementsImport
    UndisturbedJobsEnd
