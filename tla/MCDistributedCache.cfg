SPECIFICATION Spec
CONSTANTS
    k1 = k1
    n1 = n1
    n2 = n2
    n3 = n3
    Keys = {k1}
    EmptyKey = EmptyKey
    Policy = "NONE"
    MaxFreq = 1
    Values = {v, w}
    NoEntry = NoEntry
    NoExpiry = NoExpiry
    MaxCapacity = 0
    NumShards = 1
    ShardOf <- MCOneShard
    TicksPerSecond = 2
    MaxTime = 3
    Nodes = {n1, n2, n3}
    NoNode = NoNode
    RingSize = 4
    NoCache = NoCache
    KeyHash <- MCKeyHash
    NodeHashes <- MCNodeHashes
    ReplicationFactor = 2
    SizeModulus = 16
    Ttls = {1}
    Founders = {n1, n2}
    Joining = {n1, n2, n3}
    Leaving = {n1, n2, n3}
    Failing = {n1, n2, n3}
INVARIANTS
    TypeOK
    CachesMatchRing
PROPERTIES
    RemovalKeepsKeysReadable
    RemovalKeepsDeadlines
    FailureKeepsReplicatedKeys
    JoinKeepsReplicatedKeys
    RepairRestoresReplicas
    FailedNodesLeftAlone
