SPECIFICATION FairSpec
CONSTANTS
    Goroutine = {g1, g2, g3}
    NoOne = NoOne
    FailureThreshold = 2
    OpenDuration = 1
    HalfOpenProbes = 2
INVARIANTS
    RefillNeverBlocks
    HalfOpenHasWayOut
    FreshAllowsWait
PROPERTIES
    HalfOpenOnlyFromOpen
    HalfOpenResolves
    OpenIsLeft
