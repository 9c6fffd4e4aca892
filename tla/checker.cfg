SPECIFICATION FairSpec
CONSTANTS
    Backend = {b1, b2}
    Probe = {p1, p2}
    NoOne = NoOne
    FailureThreshold = 3
    SuccessThreshold = 2
PROPERTIES
    TransitionsEarned
    Recovers
    Ejects
CHECK_DEADLOCK FALSE
