SPECIFICATION RSpec
CONSTANTS
    a = a
    b = b
    c = c
    d = d
    e = e
    Keys = {a, b, c, d, e}
    EmptyKey = EmptyKey
    Policy = "LRU"
    MaxFreq = 1
    Values = {v}
    NoEntry = NoEntry
    NoExpiry = NoExpiry
    MaxCapacity = 7
    NumShards = 2
    TicksPerSecond = 1
    MaxTime = 1
    Threads = {t1}
    Idle = Idle
    ShardOf <- MCTwoShards
    Ttls = {0}
    ScanOps = {"clear", "cleanupExpired"}
INVARIANTS
    TypeOK
    CapacityRespected
    PolicyTracksStore
    FullShardHasVictim
PROPERTY
    ImplementsRecency
