SPECIFICATION Spec
CONSTANTS
    b1 = b1
    b2 = b2
    b3 = b3
    Backend = {b1, b2, b3}
    BackendID <- SharedID
    InitialPool <- TwoConfigured
    Goroutine = {g1, g2}
    NoBackend = NoBackend
    Algorithms = {"round_robin", "least_connections", "p2c", "ip_hash"}
    ClientHash = {0, 5}
    CounterMod = 6
SYMMETRY Symmetry
INVARIANTS
    ConnsMatchInFlight
    RoutesToHealthy
    RoutesToMembers
    PicksLessLoaded
PROPERTY
    NoSpurious502
