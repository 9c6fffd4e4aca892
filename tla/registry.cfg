SPECIFICATION CellsSpec
CONSTANTS
    Getter = {g1, g2, g3}
    BackendID = {id1, id2}
    Breaker = {b1, b2, b3}
    Nil = Nil
    Reloader = {r1, r2}
    Unreadable = Unreadable
INVARIANTS
    LiveConfigUsable
PROPERTY
    GetsAreAtomic
