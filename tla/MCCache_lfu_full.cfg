SPECIFICATION Spec
CONSTANTS
    a = a
    b = b
    c = c
    Keys = {a, b, c}
    EmptyKey = EmptyKey
    Policy = "LFU"
    MaxFreq = 3
    Values = {v}
    NoEntry = NoEntry
    NoExpiry = NoExpiry
    MaxCapacity = 2
    NumShards = 1
    TicksPerSecond = 1
    MaxTime = 0
    Threads = {}
    Idle = Idle
    ShardOf <- MCOneShard
    Ttls = {}
    ScanOps = {}
INVARIANT
    FullShardHasVictim
