SPECIFICATION CSpec
CONSTANTS
    k1 = k1
    k2 = k2
    n1 = n1
    n2 = n2
    n3 = n3
    Keys = {k1, k2}
    EmptyKey = EmptyKey
    Policy = "LRU"
    MaxFreq = 1
    Values = {v, w}
    NoEntry = NoEntry
    NoExpiry = NoExpiry
    MaxCapacity = 1
    NumShards = 1
    ShardOf <- MCOneShard
    TicksPerSecond = 1
    MaxTime = 1
    Nodes = {n1, n2, n3}
    NoNode = NoNode
    RingSize = 3
    NoCache = NoCache
    KeyHash <- MCKeyHash
    NodeHashes <- MCNodeHashes
    ReplicationFactor = 2
    SizeModulus = 16
    Ttls = {0}
    Founders = {n1, n2, n3}
    Joining = {}
    Leaving = {}
    Failing = {n1, n2}
SYMMETRY MCSymmetry
INVARIANTS
    CTypeOK
    CopiesAreLatest
    SurvivesLosses
