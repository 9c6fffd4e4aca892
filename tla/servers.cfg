SPECIFICATION ServersSpec
CONSTANTS
    b1 = b1
    b2 = b2
    Backend = {b1, b2}
    BackendID <- OwnID
    InitialPool <- TwoConfigured
    Conn = {c1, c2, c3}
    NoBackend = NoBackend
CHECK_DEADLOCK FALSE
INVARIANTS
    ConnsMatchInFlight
PROPERTY
    EndsGracefully
    ShutdownCompletes
    MainExits
