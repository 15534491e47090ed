SPECIFICATION ASpec
CONSTANTS
    k1 = k1
    k2 = k2
    n1 = n1
    n2 = n2
    n3 = n3
    Keys = {k1, k2}
    EmptyKey = EmptyKey
    NoKey = NoKey
    Policy = "NONE"
    MaxFreq = 1
    Values = {v}
    NoEntry = NoEntry
    NoExpiry = NoExpiry
    MaxCapacity = 0
    NumShards = 1
    ShardOf <- MCOneShard
    TicksPerSecond = 1
    MaxTime = 0
    Nodes = {n1, n2, n3}
    NoNode = NoNode
    RingSize = 3
    NoCache = NoCache
    KeyHash <- MCKeyHash
    NodeHashes <- MCNodeHashes
    ReplicationFactor = 2
    SizeModulus = 16
    Ttls = {}
    Founders = {n3}
    Joining = {n1, n2}
    Leaving = {n1}
    Failing = {n1, n2, n3}
INVARIANT
    GivesUpOnlyLostKeys
