SPECIFICATION Spec
CONSTANTS
    b1 = b1
    b2 = b2
    Backend = {b1, b2}
    BackendID <- OwnID
    InitialPool <- OneConfigured
    Goroutine = {g1, g2}
    NoBackend = NoBackend
    Weights = {0, 1}
    InitialWeight <- UnevenWeights
    VirtualNodes <- SmallRing
    ClientHash = {0, 2, 4, 7}
    Algorithms = {"weighted_round_robin", "consistent_hash"}
    MaxUpdates = 1
SYMMETRY Symmetry
INVARIANTS
    TablesNeverEmpty
    WeightedRoutesToHealthy
PROPERTY
    NoSpurious503
