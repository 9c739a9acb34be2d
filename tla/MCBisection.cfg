SPECIFICATION FairFetchSpec
CONSTANTS
    AllTxs <- SomeTxs
    CreatedAt <- SomeInstants
    From = 0
    To = 7
    Cap = 2
    MinSpan = 2
INVARIANTS
    Tiling
    NothingEarlyLost
PROPERTY CollectionEnds
CHECK_DEADLOCK FALSE
