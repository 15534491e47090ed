SPECIFICATION RSpec
CONSTANTS
    Keys = {EmptyKey, a, b, c}
    EmptyKey = EmptyKey
    Policy = "LFU"
    MaxFreq = 3
    Values = {v}
    NoEntry = NoEntry
    NoExpiry = NoExpiry
    MaxCapacity = 2
    NumShards = 1
    TicksPerSecond = 1
    MaxTime = 1
    Threads = {t1}
    Idle = Idle
    ShardOf <- MCOneShard
    Ttls = {0}
    ScanOps = {"clear", "cleanupExpired"}
INVARIANTS
    CapacityRespected
    PolicyTracksStore
    PoliciesConsistent
    TiesBrokenByRecency
