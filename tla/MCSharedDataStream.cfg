CONSTANTS
    DataSize = 2
    Readers = {r1, r2}
    Policies = {"NONBLOCKABLE", "ALL_OR_NOTHING", "BLOCKING"}
    NonblockingReaders = {r2}
    SeekIndexes = {0, 2}
    CloseIndexes = {1}
    MaxIndex = 4
    MaxWords = 3
    MaxWriters = 2
SPECIFICATION Spec
CHECK_DEADLOCK FALSE
INVARIANTS
    UnconsumedKept
    ReadsIntact
    NoLostWakeup
    ClosedMeansConsumed
