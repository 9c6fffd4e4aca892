SPECIFICATION Spec
CONSTANTS
    ip1 = ip1
    Goroutine = {g1, g2}
    IP = {ip1}
    ClientOf <- OneClient
    Bucket = {k1, k2, k3}
    Nil = Nil
    Burst = 2
    RateNum = 1
    RateDen = 2
    CleanupInterval = 2
    MaxTime = 5
SYMMETRY Symmetry
INVARIANTS
    TokensInRange
    NeverOverAdmits
PROPERTY
    PacedClientAdmitted
