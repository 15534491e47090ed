SPECIFICATION HSpec
CONSTANTS
    a = a
    c = c
    Keys = {a, c}
    EmptyKey = EmptyKey
    Policy = "NONE"
    MaxFreq = 1
    Values = {v}
    NoEntry = NoEntry
    NoExpiry = NoExpiry
    MaxCapacity = 0
    NumShards = 2
    TicksPerSecond = 1
    MaxTime = 2
    Threads = {t1}
    Idle = Idle
    ShardOf <- MCTwoShards
    Ttls = {0}
    ScanOps = {"size", "clear", "cleanupExpired", "getAllData"}
INVARIANTS
    HTypeOK
    ClearLeavesOnlyNewEntries
    CleanupLeavesNothingStale
    SnapshotIsFaithful
    SizeIsBounded
