SPECIFICATION CertSpec
CONSTANTS
    Conn = {c1, c2}
    MaxVersion = 3
    Torn = Torn
CHECK_DEADLOCK FALSE
PROPERTIES
    LaterIsNewer
    PairServed
