SPECIFICATION WriteSpec
CONSTANTS
    chunk = chunk
    full = full
    incremental = incremental
    webhook = webhook
    webhook2 = webhook2
    Kind <- WriterKind
    Writers <- SomeWriters
    MaxVersion = 3
    Valid = {1, 2}
    MaxRounds = 1
    MaxThrows = 1
INVARIANTS
    ItemsMatchRow
PROPERTIES
    UpsertRepairs
    RowNeverOlder
CHECK_DEADLOCK FALSE
