SPECIFICATION Spec
CONSTANTS
    Keys = {}
    EmptyKey = EmptyKey
    Nodes = {n1, n2, n3}
    NoNode = NoNode
    RingSize = 6
    VirtualNodes = 2
SYMMETRY MCSymmetry
INVARIANTS
    MapsAgree
    ExpectedAreNearest
    ReplicaWalkEnds
PROPERTIES
    AddMovesKeysToNewNodeOnly
    LossPromotesReplicas
