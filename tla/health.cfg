SPECIFICATION FairSpec
CONSTANTS
    Prober = {p1, p2}
    FailureThreshold = 3
    SuccessThreshold = 2
    InitBackoff = 1
    MaxBackoff = 4
PROPERTIES
    RelapseWaits
    Recovers
    Ejects
