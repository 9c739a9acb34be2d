SPECIFICATION SyncSpec
CONSTANTS
    Txs = {t1, t2}
    Unreadable = {t2}
    Runs = {r1, r2}
    Requests <- AllRequests
    Overlap = 1
    AnswerCap = 1
    MaxTime = 2
SYMMETRY Symmetry
INVARIANTS
    NothingForgotten
CHECK_DEADLOCK FALSE
