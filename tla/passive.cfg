SPECIFICATION PassiveFairSpec
CONSTANTS
    Caller = {c1, c2}
    Unlocked = Unlocked
    PassiveWindow = 2
    RateNum = 1
    RateDen = 2
    InitBackoff = 1
    MaxBackoff = 3
    MaxEvents = 3
INVARIANTS
    WindowSlides
PROPERTIES
    ReadmitWaits
    EjectedReadmitted
