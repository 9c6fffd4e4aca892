SPECIFICATION FairSpec
CONSTANTS
    Goroutine = {g1, g2}
    NoOne = NoOne
    FailureThreshold = 1
    OpenDuration = 1
    HalfOpenProbes = 1
PROPERTY AllowReturns
